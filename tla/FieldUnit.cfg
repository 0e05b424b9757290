SPECIFICATION UnitSpec
CONSTANTS
  N = 6
  W = 4
  R = 4096
  K = 47
  C = 4
  Tried <- Edges
  Operands <- Striped
  Squares = {FALSE, TRUE}
INVARIANTS
  SumsAreExact
  EveryLossCounted
  InverseExact
  ChunkIsExact
  ExactUpToClosingCarries
  OperatorsAreExecuted
PROPERTIES
  InversionEnds
