SPECIFICATION Spec
CONSTANTS
  N = 1
  MaxRuns = 2
  Joins = TRUE
INVARIANTS
  InterruptedMeansUnfinished
