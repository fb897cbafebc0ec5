SPECIFICATION Spec
CONSTANTS
  User = {u1, u2, u3}
  Chat = {c1}
  Invite = {i1}
  Request = {r1, r2}
  None = None
  N = 3
SYMMETRY Symmetry
INVARIANTS
  TypeOK
  MembersRight
  AnswerRight
PROPERTIES
  RoleStays
CHECK_DEADLOCK FALSE
