SPECIFICATION FairSpec
CONSTANTS
  group = group
  channel = channel
  g1 = g1
  g2 = g2
  x1 = x1
  Chat = {group, channel}
  NoChat = NoChat
  Message = {g1, g2, x1}
  NoMessage = NoMessage
  Home <- MCHome
  Kind <- MCKind
  Role <- MCRole
  Mine = {g1, x1}
  Batch = {b1}
  Upload = {u1, u2}
  Take = {t1, t2, t3}
  NoTake = NoTake
  Query = {"q"}
  MaxJumps = 1
INVARIANTS
  TypeOK
  OwnChatUnlessMoved
  SelectionOnScreen
  MediaRight
  NothingOfOtherChats
PROPERTIES
  ConfirmedIsAsked
