---------------------------- MODULE PresenceProofs ----------------------------
(***************************************************************************)
(* Proofs about Presence, for any sets of connections and of timers.        *)
(***************************************************************************)
EXTENDS Presence, TLAPS

\* Every step is one of the actions on a connection or a step of the timers.
LEMMA StepCases ==
  ASSUME Next
  PROVE  \/ \E c \in Conn :
              \/ HandleNewConnection(c) \/ Drop(c) \/ HandleConnectionClosed(c)
              \/ Auth(c, TRUE) \/ Auth(c, FALSE) \/ AuthRegister(c) \/ AuthQueryError(c)
              \/ ScheduleOffline(c) \/ BecomeActive(c) \/ BecomeAway(c)
              \/ HandlerCancel(c) \/ HandlerAnnounce(c) \/ AuthCancel(c) \/ AuthAnnounce(c)
         \/ \E t \in Timer : TimerFire(t)
         \/ TimerAnnounce
         \/ TimerErase
<1>1. CASE TimerStep
  BY <1>1 DEF TimerStep
<1>2. ASSUME NEW c \in Conn, ServerStep(c)
      PROVE  \/ HandleConnectionClosed(c) \/ ScheduleOffline(c) \/ AuthRegister(c)
             \/ HandlerCancel(c) \/ HandlerAnnounce(c) \/ AuthCancel(c) \/ AuthAnnounce(c)
  BY <1>2 DEF ServerStep
<1>3. ASSUME NEW c \in Conn, ClientStep(c)
      PROVE  \/ HandleNewConnection(c) \/ Drop(c) \/ Auth(c, TRUE) \/ Auth(c, FALSE)
             \/ AuthQueryError(c) \/ BecomeActive(c) \/ BecomeAway(c)
  <2>1. CASE \E isActive \in BOOLEAN : Auth(c, isActive)
    BY <2>1
  <2>2. CASE \E status \in {"active", "away"} : PresenceUpdate(c, status)
    BY <2>2 DEF PresenceUpdate
  <2>3. QED
    BY <1>3, <2>1, <2>2 DEF ClientStep, Ping
<1>4. QED
  BY <1>1, <1>2, <1>3 DEF Next

-------------------------------------------------------------------------------
(* Types. *)

\* Every variable keeps its type, and a user without an entry has no registered
\* connection.
THEOREM TypeCorrect == Spec => []TypeOK
<1>1. Init => TypeOK
  BY DEF Init, TypeOK
<1>2. TypeOK /\ [Next]_vars => TypeOK'
  <2> SUFFICES ASSUME TypeOK, [Next]_vars PROVE TypeOK'
    OBVIOUS
  <2> USE DEF TypeOK, conns, entry, timers, history, vars
  <2>1. ASSUME NEW c \in Conn, HandleNewConnection(c) PROVE TypeOK'
    BY <2>1 DEF HandleNewConnection
  <2>2. ASSUME NEW c \in Conn, Drop(c) PROVE TypeOK'
    BY <2>2 DEF Drop
  <2>3. ASSUME NEW c \in Conn, HandleConnectionClosed(c) PROVE TypeOK'
    BY <2>3 DEF HandleConnectionClosed, KeepsEntry, Unpruned
  <2>4. ASSUME NEW c \in Conn, NEW a \in BOOLEAN, Auth(c, a) PROVE TypeOK'
    BY <2>4 DEF Auth
  <2>5. ASSUME NEW c \in Conn, AuthRegister(c) PROVE TypeOK'
    BY <2>5 DEF AuthRegister, WasOnline, Unpruned
  <2>6. ASSUME NEW c \in Conn, AuthQueryError(c) PROVE TypeOK'
    BY <2>6 DEF AuthQueryError
  <2>7. ASSUME NEW c \in Conn, ScheduleOffline(c) PROVE TypeOK'
    BY <2>7 DEF ScheduleOffline
  <2>8. ASSUME NEW c \in Conn, BecomeActive(c) PROVE TypeOK'
    BY <2>8 DEF BecomeActive, Unpruned
  <2>9. ASSUME NEW c \in Conn, BecomeAway(c) PROVE TypeOK'
    BY <2>9 DEF BecomeAway, Unpruned
  <2>10. ASSUME NEW c \in Conn, HandlerCancel(c) PROVE TypeOK'
    BY <2>10 DEF HandlerCancel, CancelOfflineTimer
  <2>11. ASSUME NEW c \in Conn, HandlerAnnounce(c) PROVE TypeOK'
    BY <2>11 DEF HandlerAnnounce
  <2>12. ASSUME NEW c \in Conn, AuthCancel(c) PROVE TypeOK'
    BY <2>12 DEF AuthCancel, CancelOfflineTimer, RecordMissed
  <2>13. ASSUME NEW c \in Conn, AuthAnnounce(c) PROVE TypeOK'
    BY <2>13 DEF AuthAnnounce, RecordMissed
  <2>14. ASSUME NEW t \in Timer, TimerFire(t) PROVE TypeOK'
    BY <2>14 DEF TimerFire
  <2>15. CASE TimerAnnounce
    BY <2>15 DEF TimerAnnounce, IsUserOnline
  <2>16. CASE TimerErase
    BY <2>16 DEF TimerErase
  <2>17. CASE UNCHANGED vars
    BY <2>17
  <2>18. QED
    BY <2>1, <2>2, <2>3, <2>4, <2>5, <2>6, <2>7, <2>8, <2>9, <2>10, <2>11, <2>12,
       <2>13, <2>14, <2>15, <2>16, <2>17, StepCases
<1>3. QED
  BY <1>1, <1>2, PTL DEF Spec

-------------------------------------------------------------------------------
(* Handlers between two locked sections. *)

\* No message and no close of a connection runs while its handler is between the
\* decision to announce online and the broadcast.
LEMMA HandlersStandStep == TypeOK /\ HandlersStand /\ [Next]_vars => HandlersStand'
<1> SUFFICES ASSUME TypeOK, HandlersStand, [Next]_vars PROVE HandlersStand'
  OBVIOUS
<1> USE DEF TypeOK, HandlersStand, Holding, conns, entry, timers, history, vars
<1>1. ASSUME NEW c \in Conn, HandleNewConnection(c) PROVE HandlersStand'
  BY <1>1 DEF HandleNewConnection
<1>2. ASSUME NEW c \in Conn, Drop(c) PROVE HandlersStand'
  BY <1>2 DEF Drop
<1>3. ASSUME NEW c \in Conn, HandleConnectionClosed(c) PROVE HandlersStand'
  BY <1>3 DEF HandleConnectionClosed, KeepsEntry, Unpruned
<1>4. ASSUME NEW c \in Conn, NEW a \in BOOLEAN, Auth(c, a) PROVE HandlersStand'
  BY <1>4 DEF Auth
<1>5. ASSUME NEW c \in Conn, AuthRegister(c) PROVE HandlersStand'
  BY <1>5 DEF AuthRegister, WasOnline, Unpruned
<1>6. ASSUME NEW c \in Conn, AuthQueryError(c) PROVE HandlersStand'
  BY <1>6 DEF AuthQueryError
<1>7. ASSUME NEW c \in Conn, ScheduleOffline(c) PROVE HandlersStand'
  BY <1>7 DEF ScheduleOffline
<1>8. ASSUME NEW c \in Conn, BecomeActive(c) PROVE HandlersStand'
  BY <1>8 DEF BecomeActive, Unpruned
<1>9. ASSUME NEW c \in Conn, BecomeAway(c) PROVE HandlersStand'
  BY <1>9 DEF BecomeAway, Unpruned
<1>10. ASSUME NEW c \in Conn, HandlerCancel(c) PROVE HandlersStand'
  BY <1>10 DEF HandlerCancel
<1>11. ASSUME NEW c \in Conn, HandlerAnnounce(c) PROVE HandlersStand'
  BY <1>11 DEF HandlerAnnounce
<1>12. ASSUME NEW c \in Conn, AuthCancel(c) PROVE HandlersStand'
  BY <1>12 DEF AuthCancel
<1>13. ASSUME NEW c \in Conn, AuthAnnounce(c) PROVE HandlersStand'
  BY <1>13 DEF AuthAnnounce
<1>14. ASSUME NEW t \in Timer, TimerFire(t) PROVE HandlersStand'
  BY <1>14 DEF TimerFire
<1>15. CASE TimerAnnounce
  BY <1>15 DEF TimerAnnounce
<1>16. CASE TimerErase
  BY <1>16 DEF TimerErase
<1>17. CASE UNCHANGED vars
  BY <1>17
<1>18. QED
  BY <1>1, <1>2, <1>3, <1>4, <1>5, <1>6, <1>7, <1>8, <1>9, <1>10, <1>11, <1>12,
     <1>13, <1>14, <1>15, <1>16, <1>17, StepCases

\* A handler between its decision and its broadcast still has its connection (`handleMessage`
\* and the close handler of one connection run one after the other).
THEOREM HandlersCorrect == Spec => []HandlersStand
<1>1. Init => HandlersStand
  BY DEF Init, HandlersStand
<1>2. QED
  BY <1>1, HandlersStandStep, TypeCorrect, PTL DEF Spec

-------------------------------------------------------------------------------
(* The offline broadcast. *)

\* Going online only happens with a connection that stands, so whoever cancels
\* the timer or announces online either holds the user online or is the auth
\* callback the history variable records.
LEMMA OfflineStep ==
  TypeOK /\ HandlersStand /\ OfflineNotForgotten /\ [Next]_vars => OfflineNotForgotten'
<1> SUFFICES ASSUME TypeOK, HandlersStand, OfflineNotForgotten, [Next]_vars
             PROVE  OfflineNotForgotten'
  OBVIOUS
<1> USE DEF TypeOK, OfflineNotForgotten, OfflinePending, Holding, conns, entry, timers,
            history, vars
<1>1. ASSUME NEW c \in Conn, HandleNewConnection(c) PROVE OfflineNotForgotten'
  BY <1>1 DEF HandleNewConnection
<1>2. ASSUME NEW c \in Conn, Drop(c) PROVE OfflineNotForgotten'
  BY <1>2 DEF Drop
<1>3. ASSUME NEW c \in Conn, HandleConnectionClosed(c) PROVE OfflineNotForgotten'
  <2> SUFFICES ASSUME announced' = "online", ~missed', Holding' = {}
               PROVE  OfflinePending'
    OBVIOUS
  <2>1. Holding \subseteq {c} /\ announced = "online" /\ ~missed
    BY <1>3 DEF HandleConnectionClosed, KeepsEntry
  <2>2. CASE c \notin Holding
    <3>1. OfflinePending
      BY <2>1, <2>2
    <3>2. pc[c] = "idle"
      BY <1>3 DEF HandleConnectionClosed, KeepsEntry, HandlersStand
    <3>3. \A d \in Conn : pc[d] = "schedule" => pc'[d] = "schedule"
      BY <1>3, <3>2 DEF HandleConnectionClosed, KeepsEntry
    <3>4. QED
      BY <1>3, <3>1, <3>3 DEF HandleConnectionClosed, KeepsEntry
  <2>3. CASE c \in Holding
    <3>1. Holding = {c} /\ hasEntry
      BY <1>3, <2>1, <2>3 DEF HandleConnectionClosed, KeepsEntry
    <3>2. ~HadOtherActive(c)
      BY <3>1 DEF HadOtherActive, Unpruned, HandlersStand
    <3>3. pc'[c] = "schedule"
      BY <1>3, <3>1, <3>2 DEF HandleConnectionClosed, KeepsEntry
    <3>4. QED
      BY <3>3
  <2>4. QED
    BY <2>2, <2>3
<1>4. ASSUME NEW c \in Conn, NEW a \in BOOLEAN, Auth(c, a) PROVE OfflineNotForgotten'
  BY <1>4 DEF Auth
<1>5. ASSUME NEW c \in Conn, AuthRegister(c) PROVE OfflineNotForgotten'
  BY <1>5 DEF AuthRegister, WasOnline
<1>6. ASSUME NEW c \in Conn, AuthQueryError(c) PROVE OfflineNotForgotten'
  BY <1>6 DEF AuthQueryError
<1>7. ASSUME NEW c \in Conn, ScheduleOffline(c) PROVE OfflineNotForgotten'
  BY <1>7 DEF ScheduleOffline
<1>8. ASSUME NEW c \in Conn, BecomeActive(c) PROVE OfflineNotForgotten'
  BY <1>8 DEF BecomeActive
<1>9. ASSUME NEW c \in Conn, BecomeAway(c) PROVE OfflineNotForgotten'
  <2> SUFFICES ASSUME announced' = "online", ~missed', Holding' = {}
               PROVE  OfflinePending'
    OBVIOUS
  <2>1. Holding \subseteq {c}
    BY <1>9 DEF BecomeAway
  <2>2. ~HadOtherActive(c)
    BY <2>1 DEF HadOtherActive, Unpruned, HandlersStand
  <2>3. pc'[c] = "schedule"
    BY <1>9, <2>2 DEF BecomeAway
  <2>4. QED
    BY <2>3
<1>10. ASSUME NEW c \in Conn, HandlerCancel(c) PROVE OfflineNotForgotten'
  BY <1>10 DEF HandlerCancel, CancelOfflineTimer, HandlersStand
<1>11. ASSUME NEW c \in Conn, HandlerAnnounce(c) PROVE OfflineNotForgotten'
  BY <1>11 DEF HandlerAnnounce, HandlersStand
<1>12. ASSUME NEW c \in Conn, AuthCancel(c) PROVE OfflineNotForgotten'
  BY <1>12 DEF AuthCancel, CancelOfflineTimer, RecordMissed
<1>13. ASSUME NEW c \in Conn, AuthAnnounce(c) PROVE OfflineNotForgotten'
  BY <1>13 DEF AuthAnnounce, RecordMissed
<1>14. ASSUME NEW t \in Timer, TimerFire(t) PROVE OfflineNotForgotten'
  <2>1. CASE IsUserOnline
    <3>1. Holding # {}
      BY <2>1 DEF IsUserOnline, Unpruned, HandlersStand
    <3>2. QED
      BY <1>14, <3>1 DEF TimerFire
  <2>2. CASE ~IsUserOnline
    BY <1>14, <2>2 DEF TimerFire
  <2>3. QED
    BY <2>1, <2>2
<1>15. CASE TimerAnnounce
  BY <1>15 DEF TimerAnnounce
<1>16. CASE TimerErase
  BY <1>16 DEF TimerErase
<1>17. CASE UNCHANGED vars
  BY <1>17
<1>18. QED
  BY <1>1, <1>2, <1>3, <1>4, <1>5, <1>6, <1>7, <1>8, <1>9, <1>10, <1>11, <1>12,
     <1>13, <1>14, <1>15, <1>16, <1>17, StepCases

\* Outside the windows recorded in `missed`, a user who is gone is announced offline or is about to
\* be: by a timer, a callback or a handler on its way.
THEOREM OfflineCorrect == Spec => []OfflineNotForgotten
<1>1. Init => OfflineNotForgotten
  BY DEF Init, OfflineNotForgotten
<1>2. QED
  BY <1>1, OfflineStep, TypeCorrect, HandlersCorrect, PTL DEF Spec

-------------------------------------------------------------------------------
(* The online broadcast. *)

\* A connection makes its user online only by a registration or a report whose
\* handler saw no other active connection, and that handler announces.
LEMMA OnlineStep ==
  TypeOK /\ HandlersStand /\ OnlineNotForgotten /\ [Next]_vars => OnlineNotForgotten'
<1> SUFFICES ASSUME TypeOK, HandlersStand, OnlineNotForgotten, [Next]_vars
             PROVE  OnlineNotForgotten'
  OBVIOUS
<1> USE DEF TypeOK, OnlineNotForgotten, OnlinePending, IsUserOnline, Unpruned, conns, entry,
            timers, history, vars
<1>1. ASSUME NEW c \in Conn, HandleNewConnection(c) PROVE OnlineNotForgotten'
  BY <1>1 DEF HandleNewConnection
<1>2. ASSUME NEW c \in Conn, Drop(c) PROVE OnlineNotForgotten'
  BY <1>2 DEF Drop
<1>3. ASSUME NEW c \in Conn, HandleConnectionClosed(c) PROVE OnlineNotForgotten'
  <2>1. IsUserOnline' => IsUserOnline
    BY <1>3 DEF HandleConnectionClosed, KeepsEntry
  <2>2. pc[c] = "idle"
    BY <1>3 DEF HandleConnectionClosed, KeepsEntry, HandlersStand
  <2>3. \A d \in Conn : pc[d] \in {"cancel", "announce"} => pc'[d] = pc[d]
    BY <1>3, <2>2 DEF HandleConnectionClosed, KeepsEntry
  <2>4. OnlinePending => OnlinePending'
    BY <1>3, <2>3 DEF HandleConnectionClosed, KeepsEntry
  <2>5. QED
    BY <1>3, <2>1, <2>4 DEF HandleConnectionClosed, KeepsEntry
<1>4. ASSUME NEW c \in Conn, NEW a \in BOOLEAN, Auth(c, a) PROVE OnlineNotForgotten'
  <2>1. c \notin userConns /\ cb[c] = "none"
    BY <1>4 DEF Auth, HandlersStand
  <2>2. \A d \in Unpruned' : d \in Unpruned /\ active'[d] = active[d]
    BY <1>4, <2>1 DEF Auth
  <2>3. IsUserOnline' => IsUserOnline
    BY <2>2
  <2>4. OnlinePending => OnlinePending'
    BY <1>4, <2>1 DEF Auth
  <2>5. QED
    BY <1>4, <2>3, <2>4 DEF Auth
<1>5. ASSUME NEW c \in Conn, AuthRegister(c) PROVE OnlineNotForgotten'
  BY <1>5 DEF AuthRegister, WasOnline
<1>6. ASSUME NEW c \in Conn, AuthQueryError(c) PROVE OnlineNotForgotten'
  BY <1>6 DEF AuthQueryError
<1>7. ASSUME NEW c \in Conn, ScheduleOffline(c) PROVE OnlineNotForgotten'
  BY <1>7 DEF ScheduleOffline
<1>8. ASSUME NEW c \in Conn, BecomeActive(c) PROVE OnlineNotForgotten'
  BY <1>8 DEF BecomeActive, HadOtherActive
<1>9. ASSUME NEW c \in Conn, BecomeAway(c) PROVE OnlineNotForgotten'
  BY <1>9 DEF BecomeAway, HadOtherActive
<1>10. ASSUME NEW c \in Conn, HandlerCancel(c) PROVE OnlineNotForgotten'
  BY <1>10 DEF HandlerCancel, CancelOfflineTimer
<1>11. ASSUME NEW c \in Conn, HandlerAnnounce(c) PROVE OnlineNotForgotten'
  BY <1>11 DEF HandlerAnnounce
<1>12. ASSUME NEW c \in Conn, AuthCancel(c) PROVE OnlineNotForgotten'
  BY <1>12 DEF AuthCancel, CancelOfflineTimer
<1>13. ASSUME NEW c \in Conn, AuthAnnounce(c) PROVE OnlineNotForgotten'
  BY <1>13 DEF AuthAnnounce
<1>14. ASSUME NEW t \in Timer, TimerFire(t) PROVE OnlineNotForgotten'
  BY <1>14 DEF TimerFire
<1>15. CASE TimerAnnounce
  BY <1>15 DEF TimerAnnounce
<1>16. CASE TimerErase
  BY <1>16 DEF TimerErase
<1>17. CASE UNCHANGED vars
  BY <1>17
<1>18. QED
  BY <1>1, <1>2, <1>3, <1>4, <1>5, <1>6, <1>7, <1>8, <1>9, <1>10, <1>11, <1>12,
     <1>13, <1>14, <1>15, <1>16, <1>17, StepCases

\* Outside the window recorded in `raced`, a user who is there is announced online or is about to
\* be.
THEOREM OnlineCorrect == Spec => []OnlineNotForgotten
<1>1. Init => OnlineNotForgotten
  BY DEF Init, OnlineNotForgotten, IsUserOnline, Unpruned
<1>2. QED
  BY <1>1, OnlineStep, TypeCorrect, HandlersCorrect, PTL DEF Spec

===============================================================================
