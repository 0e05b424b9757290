SPECIFICATION Spec
CONSTANTS
  Warps = 1
  WarpSize = 1
  B = 4
  BatchesPerThread = 2
  Slices = 2
  Starts = {0, 2, 5}
  MatchOffsets <- None
  NearOffsets <- None
  Limbs = 2
INVARIANTS
  NoKeySkipped
