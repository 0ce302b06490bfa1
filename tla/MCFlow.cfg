SPECIFICATION Spec
CONSTANTS
  MaxDepth = 3
  exit0 = exit0
  exit1 = exit1
  panic1 = panic1
  panic2 = panic2
  Exits <- MCExits
  Panics <- MCPanics
  Nil = Nil
  NilPanics = TRUE
  ExiterReturns = FALSE
INVARIANTS
  TypeOK
  ClosesWhatWasOpened
  NothingLeftOpen
  OnceInOrder
  ActsWhenAllOpen
  LastErrorWins
PROPERTIES
  Terminates
  KeepsPromise
