SPECIFICATION FairSpec
CONSTANTS
  Conn = {c1, c2}
  Task = {t1, t2}
  MaxEvents = 3
INVARIANTS
  TypeOK
  OnceInOrder
  ClosedForgotten
  SubscriberListens
PROPERTIES
  ChannelKept
  ListensAtLast
