------------------------------- MODULE Presence -------------------------------
(***************************************************************************)
(* The presence tracker of one api process (ws/WsHandler.cpp): which        *)
(* connections of a user are registered, which of them report activity,     *)
(* the debounce timer of the offline broadcast, and the broadcasts it       *)
(* starts.                                                                  *)
(*                                                                          *)
(* s_userConns and s_offlineTimers are keyed by the user and every handler  *)
(* touches the one entry of its own user, so the module follows one user.   *)
(*                                                                          *)
(* Three kinds of threads run the code.  The event loop of a connection     *)
(* runs its messages and its close one after the other (pc); the callback   *)
(* of the auth query runs on a database thread (cb); the main loop runs     *)
(* the timers one at a time (timerPc).  s_userMu is released between the    *)
(* decision of a handler and what it does about it, so each locked section  *)
(* is an action.                                                            *)
(***************************************************************************)
EXTENDS Naturals

CONSTANTS
  Conn,     \* connections the user's devices open; a name is used again once nothing refers to it
  Timer,    \* timer ids: the bound on offline timers pending at a time
  NoTimer   \* s_offlineTimers has no entry for the user

ASSUME NoTimerAssumption == NoTimer \notin Timer

VARIABLES
  sock,         \* "open", "dropped" (disconnected() holds, close not run yet) or "closed"
  authed,       \* ConnCtx::authed
  active,       \* ConnCtx::active
  pc,           \* what the handler on the connection's loop does next
  cb,           \* the callback of the connection's auth query
  hasEntry,     \* the user is a key of s_userConns
  userConns,    \* the connections registered there (a second copy only repeats a send)
  armed,        \* timers the main loop will run
  offlineTimer, \* s_offlineTimers[user]
  timerPc,      \* what the running timer callback does next
  announced,    \* status of the last broadcastPresence that started
  missed,       \* history: a step left nobody to take an online announcement back
  raced         \* history: the last broadcast said offline while the user was online

conns   == <<sock, authed, active>>
entry   == <<hasEntry, userConns>>
timers  == <<armed, offlineTimer, timerPc>>
history == <<missed, raced>>
vars    == <<conns, pc, cb, entry, timers, announced, history>>

TypeOK ==
  /\ sock \in [Conn -> {"open", "dropped", "closed"}]
  /\ authed \in [Conn -> BOOLEAN]
  /\ active \in [Conn -> BOOLEAN]
  /\ pc \in [Conn -> {"idle", "cancel", "announce", "schedule"}]
  /\ cb \in [Conn -> {"none", "pending", "cancel", "announce"}]
  /\ hasEntry \in BOOLEAN
  /\ userConns \subseteq IF hasEntry THEN Conn ELSE {}
  /\ armed \subseteq Timer
  /\ offlineTimer \in Timer \cup {NoTimer}
  /\ timerPc \in {"idle", "announce", "erase"}
  /\ announced \in {"online", "offline"}
  /\ missed \in BOOLEAN
  /\ raced \in BOOLEAN

Init ==
  /\ sock = [c \in Conn |-> "closed"]
  /\ authed = [c \in Conn |-> FALSE]
  /\ active = [c \in Conn |-> TRUE]
  /\ pc = [c \in Conn |-> "idle"]
  /\ cb = [c \in Conn |-> "none"]
  /\ hasEntry = FALSE
  /\ userConns = {}
  /\ armed = {}
  /\ offlineTimer = NoTimer
  /\ timerPc = "idle"
  /\ announced = "offline"
  /\ missed = FALSE
  /\ raced = FALSE

-------------------------------------------------------------------------------
(* What the code reads. *)

\* The registered connections that are not disconnected(): what pruning keeps.
Unpruned == {c \in userConns : sock[c] = "open"}

\* Some registered, live connection reports activity.
IsUserOnline == \E c \in Unpruned : active[c]

\* Mutant: any other live connection counts, the away ones too.
HadOtherConn(c) == Unpruned \ {c} # {}

\* Another connection keeps the user online.
HadOtherActive(c) == \E d \in Unpruned \ {c} : active[d]

\* Mutant: disconnected connections are not pruned before the look.
WasOnlineUnpruned == \E c \in userConns : active[c]

\* What the auth callback compares with before it adds its connection.
WasOnline == IsUserOnline

\* Mutant: the entry goes with the last active connection.
KeepsEntryWhileActive(c) == HadOtherActive(c)

\* The close of a connection leaves others in the user's entry.
KeepsEntry(c) == Unpruned \ {c} # {}

\* Connections whose activity still stands: their close has not decided yet.
Holding == {c \in Conn : authed[c] /\ active[c] /\ sock[c] # "closed"}

-------------------------------------------------------------------------------
(* A connection's life. *)

\* A device connects: a fresh context, active by default, not authenticated.
HandleNewConnection(c) ==
  /\ sock[c] = "closed" /\ pc[c] = "idle" /\ cb[c] = "none" /\ c \notin userConns
  /\ sock' = [sock EXCEPT ![c] = "open"]
  /\ authed' = [authed EXCEPT ![c] = FALSE]
  /\ active' = [active EXCEPT ![c] = TRUE]
  /\ UNCHANGED <<pc, cb, entry, timers, announced, history>>

\* Mutant: the connection may end while its handler still runs.
DropAnyTime(c) ==
  /\ sock[c] = "open"
  /\ sock' = [sock EXCEPT ![c] = "dropped"]
  /\ UNCHANGED <<authed, active, pc, cb, entry, timers, announced, history>>

\* TCP reports the end of the connection.  This happens on the connection's own
\* loop, between messages; every other thread sees disconnected() from here on.
Drop(c) ==
  /\ sock[c] = "open" /\ pc[c] = "idle"
  /\ sock' = [sock EXCEPT ![c] = "dropped"]
  /\ UNCHANGED <<authed, active, pc, cb, entry, timers, announced, history>>

\* handleConnectionClosed up to the end of its s_userMu section: the connection
\* and every disconnected one leave the user's entry, an empty entry is erased,
\* and the loss of the last active connection is to be announced.
HandleConnectionClosed(c) ==
  /\ sock[c] = "dropped"
  /\ sock' = [sock EXCEPT ![c] = "closed"]
  /\ IF authed[c] /\ hasEntry
     THEN /\ userConns' = Unpruned \ {c}
          /\ hasEntry' = KeepsEntry(c)
          /\ pc' = [pc EXCEPT ![c] = IF active[c] /\ ~HadOtherActive(c)
                                     THEN "schedule" ELSE "idle"]
     ELSE UNCHANGED <<entry, pc>>
  /\ missed' = (missed \/ (Holding = {c} /\ ~hasEntry))
  /\ UNCHANGED <<authed, active, cb, timers, announced, raced>>

-------------------------------------------------------------------------------
(* auth: the context is set at once, the connection is registered later, by  *)
(* the callback of the query.  The web client authenticates a socket once.   *)

Auth(c, isActive) ==
  /\ sock[c] = "open" /\ pc[c] = "idle" /\ ~authed[c]
  /\ authed' = [authed EXCEPT ![c] = TRUE]
  /\ active' = [active EXCEPT ![c] = isActive]
  /\ cb' = [cb EXCEPT ![c] = "pending"]
  /\ missed' = (missed /\ ~isActive)
  /\ UNCHANGED <<sock, pc, entry, timers, announced, raced>>

\* First locked section of the callback.  It does not look at whether the
\* connection it registers is still there.
AuthRegister(c) ==
  /\ cb[c] = "pending"
  /\ hasEntry' = TRUE
  /\ userConns' = Unpruned \cup {c}
  /\ cb' = [cb EXCEPT ![c] = IF active[c] /\ ~WasOnline THEN "cancel" ELSE "none"]
  /\ UNCHANGED <<conns, pc, timers, announced, history>>

\* The query failed: the connection stays authenticated and is never registered.
AuthQueryError(c) ==
  /\ cb[c] = "pending"
  /\ cb' = [cb EXCEPT ![c] = "none"]
  /\ UNCHANGED <<conns, pc, entry, timers, announced, history>>

-------------------------------------------------------------------------------
(* The offline timer. *)

CancelOfflineTimer ==
  /\ armed' = armed \ {offlineTimer}
  /\ offlineTimer' = NoTimer
  /\ UNCHANGED timerPc

\* Mutant: a timer that is still entered is kept, though it may have fired.
ScheduleOfflineOnce(c) ==
  /\ pc[c] = "schedule"
  /\ pc' = [pc EXCEPT ![c] = "idle"]
  /\ IF offlineTimer # NoTimer
     THEN UNCHANGED <<armed, offlineTimer>>
     ELSE \E t \in Timer \ armed : armed' = armed \cup {t} /\ offlineTimer' = t
  /\ UNCHANGED <<conns, cb, entry, timerPc, announced, history>>

\* The section that replaces the pending timer by one of five seconds.
ScheduleOffline(c) ==
  /\ pc[c] = "schedule"
  /\ pc' = [pc EXCEPT ![c] = "idle"]
  /\ \E t \in Timer \ (armed \ {offlineTimer}) :
       /\ armed' = (armed \ {offlineTimer}) \cup {t}
       /\ offlineTimer' = t
  /\ UNCHANGED <<conns, cb, entry, timerPc, announced, history>>

\* A timer expires and its callback looks whether the user is back.
TimerFire(t) ==
  /\ timerPc = "idle" /\ t \in armed
  /\ armed' = armed \ {t}
  /\ timerPc' = IF IsUserOnline THEN "erase" ELSE "announce"
  /\ UNCHANGED <<conns, pc, cb, entry, offlineTimer, announced, history>>

TimerAnnounce ==
  /\ timerPc = "announce"
  /\ timerPc' = "erase"
  /\ announced' = "offline"
  /\ missed' = FALSE
  /\ raced' = IsUserOnline
  /\ UNCHANGED <<conns, pc, cb, entry, armed, offlineTimer>>

\* The callback drops the user's timer entry, whichever timer it holds by now.
TimerErase ==
  /\ timerPc = "erase"
  /\ timerPc' = "idle"
  /\ offlineTimer' = NoTimer
  /\ UNCHANGED <<conns, pc, cb, entry, armed, announced, history>>

-------------------------------------------------------------------------------
(* Activity reports. *)

\* A connection that was away reports activity; only the first active one of
\* the user is announced.
BecomeActive(c) ==
  /\ sock[c] = "open" /\ pc[c] = "idle" /\ authed[c] /\ ~active[c]
  /\ userConns' = Unpruned
  /\ active' = [active EXCEPT ![c] = TRUE]
  /\ pc' = [pc EXCEPT ![c] = IF HadOtherActive(c) THEN "idle" ELSE "cancel"]
  /\ missed' = FALSE
  /\ UNCHANGED <<sock, authed, cb, hasEntry, timers, announced, raced>>

\* A connection reports that its user is away; the last active one schedules
\* the offline broadcast.
BecomeAway(c) ==
  /\ sock[c] = "open" /\ pc[c] = "idle" /\ authed[c] /\ active[c]
  /\ userConns' = Unpruned
  /\ active' = [active EXCEPT ![c] = FALSE]
  /\ pc' = [pc EXCEPT ![c] = IF HadOtherActive(c) THEN "idle" ELSE "schedule"]
  /\ UNCHANGED <<sock, authed, cb, hasEntry, timers, announced, history>>

Ping(c) == BecomeActive(c)

PresenceUpdate(c, status) ==
  \/ status = "active" /\ BecomeActive(c)
  \/ status = "away" /\ BecomeAway(c)

-------------------------------------------------------------------------------
(* Coming online: cancel the timer under the lock, then broadcast without it. *)

\* The auth callback does not see that its connection went away or closed in the
\* meantime: with nobody else active, nothing takes its announcement back.
RecordMissed == missed' = (missed \/ Holding = {})

HandlerCancel(c) ==
  /\ pc[c] = "cancel"
  /\ pc' = [pc EXCEPT ![c] = "announce"]
  /\ CancelOfflineTimer
  /\ UNCHANGED <<conns, cb, entry, announced, history>>

HandlerAnnounce(c) ==
  /\ pc[c] = "announce"
  /\ pc' = [pc EXCEPT ![c] = "idle"]
  /\ announced' = "online"
  /\ raced' = FALSE
  /\ UNCHANGED <<conns, cb, entry, timers, missed>>

AuthCancel(c) ==
  /\ cb[c] = "cancel"
  /\ cb' = [cb EXCEPT ![c] = "announce"]
  /\ CancelOfflineTimer
  /\ RecordMissed
  /\ UNCHANGED <<conns, pc, entry, announced, raced>>

AuthAnnounce(c) ==
  /\ cb[c] = "announce"
  /\ cb' = [cb EXCEPT ![c] = "none"]
  /\ announced' = "online"
  /\ raced' = FALSE
  /\ RecordMissed
  /\ UNCHANGED <<conns, pc, entry, timers>>

-------------------------------------------------------------------------------
\* Steps the process takes by itself once they are due.
ServerStep(c) ==
  \/ HandleConnectionClosed(c)
  \/ ScheduleOffline(c)
  \/ AuthRegister(c)
  \/ HandlerCancel(c)
  \/ HandlerAnnounce(c)
  \/ AuthCancel(c)
  \/ AuthAnnounce(c)

TimerStep ==
  \/ \E t \in Timer : TimerFire(t)
  \/ TimerAnnounce
  \/ TimerErase

\* Steps of the devices and of the network, and failures.
ClientStep(c) ==
  \/ HandleNewConnection(c)
  \/ Drop(c)
  \/ \E isActive \in BOOLEAN : Auth(c, isActive)
  \/ AuthQueryError(c)
  \/ Ping(c)
  \/ \E status \in {"active", "away"} : PresenceUpdate(c, status)

Next ==
  \/ \E c \in Conn : ServerStep(c) \/ ClientStep(c)
  \/ TimerStep

Spec == Init /\ [][Next]_vars

\* A loop runs what is queued on it, the database answers or fails, a timer
\* expires.  Nothing is assumed of the devices.
Fairness ==
  /\ \A c \in Conn :
       /\ WF_vars(HandleConnectionClosed(c))
       /\ WF_vars(ScheduleOffline(c))
       /\ WF_vars(AuthRegister(c) \/ AuthQueryError(c))
       /\ WF_vars(HandlerCancel(c))
       /\ WF_vars(HandlerAnnounce(c))
       /\ WF_vars(AuthCancel(c))
       /\ WF_vars(AuthAnnounce(c))
  /\ WF_vars(TimerStep)

FairSpec == Spec /\ Fairness

-------------------------------------------------------------------------------
(* Properties. *)

\* Somebody is about to announce the user offline, or a timer will look at it.
OfflinePending ==
  \/ armed # {}
  \/ timerPc = "announce"
  \/ \E c \in Conn : pc[c] = "schedule"

\* Somebody is about to announce the user online.
OnlinePending ==
  \E c \in Conn : pc[c] \in {"cancel", "announce"} \/ cb[c] \in {"cancel", "announce"}

\* What the handlers rely on between two locked sections: while one is between
\* its decision to announce online and the broadcast, its connection stands, as no
\* other message and no close of it can run; a close starts with an idle handler;
\* and only an authenticated connection is registered or about to be.
HandlersStand ==
  \A c \in Conn :
    /\ pc[c] \in {"cancel", "announce"} => sock[c] = "open" /\ c \in Holding
    /\ sock[c] = "dropped" => pc[c] = "idle"
    /\ c \in userConns \/ cb[c] # "none" => authed[c]

\* A user announced online has a connection that can take it back, or is about to
\* be announced offline: the only two paths that forget the offline broadcast are
\* an auth callback overtaken by its own connection's away or close, and a close
\* that finds its entry already erased (handleConnectionClosed, presence_update,
\* the timer callback).
OfflineNotForgotten ==
  announced = "online" /\ ~missed => Holding # {} \/ OfflinePending

\* A user who is online and was last announced offline is about to be announced
\* online, unless the timer callback announced offline on a check that no longer
\* held.
OnlineNotForgotten ==
  announced = "offline" /\ ~raced /\ IsUserOnline => OnlinePending

\* A user all of whose connections closed or went away is at last announced
\* offline (the debounce only delays it).
OfflineAnnounced == []<>(announced = "offline" \/ Holding # {} \/ missed)

\* A user who stays online is at last announced online.
OnlineAnnounced == []<>(announced = "online" \/ ~IsUserOnline \/ raced)

\* Every change of presence is at last announced.
ChangesAnnounced == OfflineAnnounced /\ OnlineAnnounced

\* When the entry of a user is erased together with an active connection whose
\* close is still to come or is this one, the offline broadcast is scheduled
\* ("Remove from user connections and broadcast offline if user state changed").
EraseSchedulesOffline ==
  [][(/\ hasEntry /\ ~hasEntry'
      /\ \E c \in userConns : active[c] /\ sock[c] # "closed")
       => \E c \in Conn : pc'[c] = "schedule"]_vars

===============================================================================
