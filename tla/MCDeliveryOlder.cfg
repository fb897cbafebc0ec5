SPECIFICATION CalmSpec
CONSTANTS
  MaxId = 2
  Earlier = 0
  Own = {1, 2}
  Load = {l1}
  Limit = 1
  Context = 1
  Backlog = 1
  Scrolls = TRUE
  Jumps = FALSE
  Swaps = FALSE
  Year = 1
PROPERTIES
  OlderPageAdjoins
