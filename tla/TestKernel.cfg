SPECIFICATION Spec
CONSTANTS
  Warps = 2
  WarpSize = 2
  B = 4
  BatchesPerThread = 3
  Slices = 2
  Starts = {5}
  MatchOffsets <- UpToTwo
  NearOffsets <- Few
  Limbs = 2
INVARIANTS
  NeverTorn
  ReportedKeyMatches
  ExhaustedMeansHashed
  PointMatchesScalar
PROPERTIES
  ImplementsFindResult
  SearchEnds
