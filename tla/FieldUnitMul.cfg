SPECIFICATION UnitSpec
CONSTANTS
  N = 6
  W = 4
  R = 4096
  K = 47
  C = 4
  Tried = {}
  Operands <- Striped
  Squares = {FALSE}
INVARIANTS
  ProductCongruent
