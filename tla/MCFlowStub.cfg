SPECIFICATION Spec
CONSTANTS
  MaxDepth = 2
  exit0 = exit0
  exit1 = exit1
  panic1 = panic1
  panic2 = panic2
  Exits <- MCExits
  Panics <- MCPanics
  Nil = Nil
  NilPanics = FALSE
  ExiterReturns = TRUE
INVARIANTS
  NothingLeftOpen
