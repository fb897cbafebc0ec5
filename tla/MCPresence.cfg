SPECIFICATION FairSpec
CONSTANTS
  Conn = {c1, c2}
  Timer = {t1, t2}
  NoTimer = NoTimer
INVARIANTS
  TypeOK
  HandlersStand
  OfflineNotForgotten
  OnlineNotForgotten
PROPERTIES
  ChangesAnnounced
