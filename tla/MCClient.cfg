SPECIFICATION Spec
CONSTANTS
  Chat = {a, b}
  Moving = {a}
  NoChat = NoChat
  Load = {l1, l2}
  Toggle = {t1, t2}
  User = {u, v}
  Timer = {1, 2, 3, 4, 5}
  NoTimer = NoTimer
  Sharing = {u}
  MaxWire = 2
  MaxNews = 1
  Own = {a}
  Link = {k1}
  MaxEdits = 1
  MaxCalls = 3
  MaxFlows = 2
  Poll = {p1}
INVARIANTS
  TypeOK
  ListIsMine
  
  
  DialogRight
  
CHECK_DEADLOCK FALSE
