SPECIFICATION Spec
CONSTANTS
  Kinds = {"datacenter", "cloud", "teamcity", "builds"}
  Items = {1, 2, 3, 4}
  Home <- MCHome
  FirstListing <- MCFirstListing
  FirstHeads <- MCFirstHeads
  Crowded = {1}
  Linked = {1}
  Paths = {1, 2}
  PageSize = 2
  Attempts = 2
  MaxChanges = 2
  MaxScans = 2
INVARIANTS
  ListingMissesOnlyMoved
  RevisionOverlooked
  SourcesOfRevision
PROPERTIES
  ScanEnds
