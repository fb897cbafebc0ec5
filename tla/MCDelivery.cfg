SPECIFICATION Spec
CONSTANTS
  MaxId = 3
  Earlier = 1
  Own = {3}
  Load = {l1}
  Limit = 1
  Context = 1
  Backlog = 1
  Scrolls = TRUE
  Jumps = TRUE
  Swaps = TRUE
  Year = 2
INVARIANTS
  TypeOK
PROPERTIES
  NewerSkipsNothing
