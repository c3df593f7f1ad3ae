SPECIFICATION Spec
CONSTANTS
  r1 = r1
  r2 = r2
  k1 = k1
  k2 = k2
  k3 = k3
  Readers <- TwoReaders
  Keys <- ThreeKeys
  Sizes <- SmallSizes
  MaxBytes = 3
  MaxEntries = 2
  MaxVersion = 2
SYMMETRY Symmetry
INVARIANTS
  CacheIsCurrent
  RepliesNotOlderThanSave
  SizeAccounted
