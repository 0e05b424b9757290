SPECIFICATION Spec
CONSTANTS
  N = 8
  W = 3
  Operands <- Striped
  Squares = {FALSE}
INVARIANTS
  ProductExact
