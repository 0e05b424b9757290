SPECIFICATION LaunchSpec
CONSTANTS
  N = 3
  MaxRuns = 2
INVARIANTS
  PrepareIsAllOrNothing
  FreedOnce
  NothingOrphaned
  NoFalseBlame
  LaunchSeesConstants
  CountedMeansRan
