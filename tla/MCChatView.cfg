SPECIFICATION Spec
CONSTANTS
  Id = {1, 2, 3}
  Load = {l1, l2, l3}
SYMMETRY LoadSymmetry
INVARIANTS
  TypeOK
  NoDuplicates
PROPERTIES
  ShownStays
