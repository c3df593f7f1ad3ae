SPECIFICATION Spec
CONSTANTS
  b1 = b1
  b2 = b2
  Builds <- TwoBuilds
  PageSize = 1
  Days = 2
  Overlap = 1
  Reconcile = 2
  Skews <- UpToOneBehind
  MaxTime = 2
SYMMETRY BuildsAlike
INVARIANTS
  StartedBuildsKnown
  NoPhantomActivity
  DeletedBuildsReconciled
