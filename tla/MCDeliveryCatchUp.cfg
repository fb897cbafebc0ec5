SPECIFICATION FairSpec
CONSTANTS
  MaxId = 3
  Earlier = 1
  Own = {}
  Load = {l1}
  Limit = 1
  Context = 1
  Backlog = 1
  Scrolls = FALSE
  Jumps = FALSE
  Swaps = FALSE
  Year = 2
PROPERTIES
  CatchUp
