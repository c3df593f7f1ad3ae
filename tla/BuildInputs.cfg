SPECIFICATION Spec
CONSTANTS
  MaxBuilds = 3
  Concurrency = 2
  CacheSize = 1
  LongLogs = {1}
INVARIANTS
  FreshWasReadToTheEnd
  RequestsBounded
PROPERTIES
  KnownOutputsKept
