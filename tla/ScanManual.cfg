SPECIFICATION Spec
CONSTANTS
  Empty <- NoBuilds
  TimelineLimit = 2
  Contents <- TwoContents
  ScanLimit = 2
  SnapshotLimit = 2
  MaxScans = 3
  Faults <- NoFaults
PROPERTIES
  AcceptedRefreshScans
