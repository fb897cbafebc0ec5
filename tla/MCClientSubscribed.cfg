SPECIFICATION Spec
CONSTANTS
  Chat = {a}
  Moving = {a}
  NoChat = NoChat
  Load = {l1}
  Toggle = {t1}
  User = {u}
  Timer = {1, 2, 3}
  NoTimer = NoTimer
  Sharing = {u}
  MaxWire = 1
  MaxNews = 1
  Own = {a}
  Link = {k1}
  MaxEdits = 1
  MaxCalls = 3
  MaxFlows = 2
  Poll = {p1}
INVARIANTS
  AllSubscribed
CHECK_DEADLOCK FALSE
