SPECIFICATION Spec
CONSTANTS
  Empty <- NoBuilds
  TimelineLimit = 2
  Contents <- ThreeContents
  ScanLimit = 4
  SnapshotLimit = 3
  MaxScans = 5
  Faults <- Restarts
INVARIANTS
  AlertsAlternate
  OutputChangesAnnounced
  HistoryBounded
  ReadersAgree
PROPERTIES
  ScansAreAtomic
