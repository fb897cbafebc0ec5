--------------------------------- MODULE Peers ---------------------------------
(***************************************************************************)
(* What the chat list shows of other users: who is online (events, the     *)
(* cache that skips repeated events, the seeds of loadChats) and who is    *)
(* typing (an entry and its timer per user).                               *)
(***************************************************************************)
EXTENDS ChatList

CONSTANTS
  User, Timer, NoTimer,
  Sharing       \* the users who let everyone see their presence

ASSUME PeersAssumption ==
  /\ NoTimer \notin Timer /\ Cardinality(Timer) > 2 * Cardinality(User)
  /\ Sharing \subseteq User

VARIABLES
  onlineAtServer, onlineUsers,
  presenceCache,    \* the last status handled of each user, or "none"
  presenceWire,     \* the presence events on their way, in no order: user and status
  seeds,            \* the users a loadChats answer shows online
  unsure,           \* whose last change was lost, or crossed an answer or another change
  typingUsers,      \* the timer of each typing user, or NoTimer
  timers            \* the running timers: timer and user

onlineVars == <<onlineAtServer, onlineUsers, presenceCache, presenceWire, seeds, unsure>>
typingVars == <<typingUsers, timers>>
peersVars == <<onlineVars, typingVars>>

PeersInit ==
  /\ onlineAtServer \in SUBSET User /\ onlineUsers = {}
  /\ presenceCache = [u \in User |-> "none"] /\ presenceWire = {}
  /\ seeds = [l \in Load |-> {}] /\ unsure = {}
  /\ typingUsers = [u \in User |-> NoTimer] /\ timers = {}

PeersTypeOK ==
  /\ onlineAtServer \subseteq User /\ onlineUsers \subseteq User /\ unsure \subseteq User
  /\ presenceCache \in [User -> {"none", "online", "offline"}]
  /\ presenceWire \subseteq [user : User, status : {"online", "offline"}]
  /\ seeds \in [Load -> SUBSET User]
  /\ typingUsers \in [User -> Timer \cup {NoTimer}]
  /\ timers \subseteq Timer \X User

-----------------------------------------------------------------------------
InAnswer == \E l \in Load : loads[l].state = "answered"

InFlight(u) == \E e \in presenceWire : e.user = u

\* A user comes or goes; one who shares it is announced to the partners.  The events go
\* out over several Redis connections.  Of the others this client (which is no admin's)
\* hears nothing, or an event without a status, which changes nothing.
PresenceChanges(u) ==
  LET comes == u \notin onlineAtServer
      event == [user |-> u, status |-> IF comes THEN "online" ELSE "offline"] IN
  /\ onlineAtServer' = IF comes THEN onlineAtServer \cup {u} ELSE onlineAtServer \ {u}
  /\ IF authed /\ u \in Sharing
     THEN /\ event \notin presenceWire /\ presenceWire' = presenceWire \cup {event}
          /\ unsure' = IF InAnswer \/ InFlight(u) THEN unsure \cup {u} ELSE unsure
     ELSE unsure' = unsure \cup {u} /\ UNCHANGED presenceWire
  /\ UNCHANGED <<onlineUsers, presenceCache, seeds, typingVars>>

\* Mutant: an offline event only enters the cache.
HandlePresenceOnlineOnly(event) ==
  /\ presenceWire' = presenceWire \ {event}
  /\ LET u == event.user  status == event.status IN
       IF presenceCache[u] = status
       THEN UNCHANGED <<presenceCache, onlineUsers, unsure>>
       ELSE /\ presenceCache' = [presenceCache EXCEPT ![u] = status]
            /\ onlineUsers' = IF status = "online" THEN onlineUsers \cup {u} ELSE onlineUsers
            /\ UNCHANGED unsure
  /\ UNCHANGED <<onlineAtServer, seeds, typingVars>>

\* A status that is in the cache is skipped.
HandlePresence(event) ==
  /\ presenceWire' = presenceWire \ {event}
  /\ LET u == event.user  status == event.status IN
       IF presenceCache[u] = status
       THEN UNCHANGED <<presenceCache, onlineUsers, unsure>>
       ELSE /\ presenceCache' = [presenceCache EXCEPT ![u] = status]
            /\ onlineUsers' = IF status = "online" THEN onlineUsers \cup {u} ELSE onlineUsers \ {u}
            /\ UNCHANGED unsure
  /\ UNCHANGED <<onlineAtServer, seeds, typingVars>>

\* An answer of loadChats names the partners who are online, whether or not they
\* share it; on arrival they are added, the others stay as they are shown.
SeedTaken(l) ==
  /\ seeds' = [seeds EXCEPT ![l] = onlineAtServer]
  /\ unsure' = unsure \cup {u \in User : InFlight(u)}
  /\ UNCHANGED <<onlineAtServer, onlineUsers, presenceCache, presenceWire, typingVars>>

SeedApplied(l) ==
  /\ onlineUsers' = onlineUsers \cup seeds[l]
  /\ seeds' = [seeds EXCEPT ![l] = {}]
  /\ UNCHANGED <<onlineAtServer, presenceCache, presenceWire, unsure, typingVars>>

\* The first load fails: whoever was online before is not shown.
SeedFails(after) ==
  /\ unsure' = unsure \cup (IF after.op = "mount" THEN User ELSE {})
  /\ UNCHANGED <<onlineAtServer, onlineUsers, presenceCache, presenceWire, seeds, typingVars>>

PresenceLost ==
  /\ presenceWire' = {}
  /\ unsure' = unsure \cup {u \in User : InFlight(u)}
  /\ UNCHANGED <<onlineAtServer, onlineUsers, presenceCache, seeds, typingVars>>

-----------------------------------------------------------------------------
Running(u) == {t \in timers : t[2] = u}

setTyping(u) ==
  \E t \in Timer \ {x[1] : x \in timers} :
    /\ typingUsers' = [typingUsers EXCEPT ![u] = t]
    /\ timers' = (timers \ {<<typingUsers[u], u>>}) \cup {<<t, u>>}
    /\ UNCHANGED onlineVars

\* A message of the user, or clearTyping by the timer.
clearTyping(u) ==
  /\ typingUsers[u] # NoTimer
  /\ typingUsers' = [typingUsers EXCEPT ![u] = NoTimer]
  /\ timers' = timers \ {<<typingUsers[u], u>>}
  /\ UNCHANGED onlineVars

TypingExpires(t, u) ==
  /\ <<t, u>> \in timers
  /\ typingUsers' = [typingUsers EXCEPT ![u] = NoTimer]
  /\ timers' = timers \ {<<t, u>>, <<typingUsers[u], u>>}
  /\ UNCHANGED onlineVars

-----------------------------------------------------------------------------
\* What is shown of others is true.  Of the users who share their presence, one shown
\* online is online, and one who is online is shown so, unless a change was lost while
\* disconnected, crossed an answer of loadChats (the cache then skips the event that
\* would correct it), or went out while an earlier one was on its way (the order of the
\* two is anyone's); and no timer of an earlier burst of typing is left to wipe a later
\* one's indicator.
PeersRight ==
  /\ authed /\ presenceWire = {} /\ (\A l \in Load : loads[l] = Idle)
       => \A u \in Sharing \ unsure : u \in onlineUsers <=> u \in onlineAtServer
  /\ \A u \in User :
       Running(u) = IF typingUsers[u] = NoTimer THEN {} ELSE {<<typingUsers[u], u>>}
===============================================================================
