SPECIFICATION FairSpec
CONSTANTS
  Request = {r1, r2}
  IsAdmin = FALSE
  MaxExpiries = 2
INVARIANTS
  TypeOK
  ServerKnowsPresence
  LogoutHolds
PROPERTIES
  NothingAfterLeaving
  Reconnects
  AwayWhenGone
  RequestsSettle
