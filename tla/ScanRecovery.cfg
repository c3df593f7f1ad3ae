SPECIFICATION Spec
CONSTANTS
  Empty <- NoBuilds
  TimelineLimit = 2
  Contents <- TwoContents
  ScanLimit = 3
  SnapshotLimit = 3
  MaxScans = 3
  Faults <- Restarts
INVARIANTS
  RecoveryAnnounced
