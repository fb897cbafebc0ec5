-------------------------------- MODULE Fanout --------------------------------
(***************************************************************************)
(* The way of a chat's events through one api process (ws/WsHandler.cpp):   *)
(* connections subscribe, the first one makes the process subscribe to the  *)
(* Redis channel "chat:<id>", and what comes from there is sent to all      *)
(* connections registered for the chat.  s_subs and s_redisSubs are keyed   *)
(* by the chat and a subscribe message names one, so the module follows one *)
(* chat.  The channels "user:<id>" take the same steps (subscribeToUserRedis*)
(* and broadcastToUser, with the connections of Presence.tla).              *)
(*                                                                          *)
(* Messages and the close of a connection run on its event loop; the        *)
(* callback of the membership query runs on a database thread, where it may *)
(* be overtaken by anything between two locked sections.                    *)
(***************************************************************************)
EXTENDS Naturals, Sequences

CONSTANTS
  Conn,      \* connections; a closed one's name is used again
  Task,      \* bound: subscribe messages being handled at a time
  MaxEvents  \* bound on the events published

ASSUME BoundAssumption == MaxEvents \in Nat

VARIABLES
  redis,         \* whether a Redis is configured: it never changes
  sock,          \* "open", "dropped" (disconnected() holds, close not run yet) or "closed"
  subs,          \* how often s_subs holds each connection
  subscriptions, \* the connections whose ConnCtx::subscriptions holds the chat
  of,            \* the connection a subscribe message came from
  at,            \* what its handling does next
  redisSubs,     \* s_redisSubs has the chat
  listener,      \* the RedisSubscriber: "none", "asked" (SUBSCRIBE sent) or "on"
  published,     \* events that Redis has numbered
  relay,         \* those it sent to the process and the process has not broadcast
  heard,         \* the events each live connection was sent
  lost,          \* history: events that came while nobody listened
  late,          \* history: connections registered after their close
  deaf           \* history: connections registered when the last SUBSCRIBE failed

clients == <<sock, subs, subscriptions>>
tasks   == <<of, at>>
channel == <<redisSubs, listener>>
events  == <<published, relay, heard, lost>>
vars    == <<redis, clients, tasks, channel, events, late, deaf>>

Stage == {"none", "query", "insert", "claim", "listen", "unclaim"}

TypeOK ==
  /\ redis \in BOOLEAN
  /\ sock \in [Conn -> {"open", "dropped", "closed"}]
  /\ subs \in [Conn -> {0, 1}]
  /\ subscriptions \subseteq Conn
  /\ of \in [Task -> Conn]
  /\ at \in [Task -> Stage]
  /\ redisSubs \in BOOLEAN
  /\ listener \in {"none", "asked", "on"}
  /\ published \in 0 .. MaxEvents
  /\ relay \in Seq(1 .. published)
  /\ heard \in [Conn -> Seq(1 .. published)]
  /\ lost \subseteq 1 .. published
  /\ late \subseteq Conn
  /\ deaf \subseteq Conn

Init ==
  /\ redis \in BOOLEAN
  /\ sock = [c \in Conn |-> "closed"]
  /\ subs = [c \in Conn |-> 0]
  /\ subscriptions = {}
  /\ of \in [Task -> Conn]
  /\ at = [t \in Task |-> "none"]
  /\ redisSubs = FALSE
  /\ listener = "none"
  /\ published = 0
  /\ relay = <<>>
  /\ heard = [c \in Conn |-> <<>>]
  /\ lost = {} /\ late = {} /\ deaf = {}

-------------------------------------------------------------------------------
(* Connections. *)

\* A new connection takes a name that no callback refers to.  What s_subs still
\* holds of the name's last bearer is never sent anything and is left out from here.
HandleNewConnection(c) ==
  /\ sock[c] = "closed"
  /\ \A t \in Task : of[t] = c => at[t] = "none"
  /\ sock' = [sock EXCEPT ![c] = "open"]
  /\ subs' = [subs EXCEPT ![c] = 0]
  /\ subscriptions' = subscriptions \ {c}
  /\ late' = late \ {c}
  /\ deaf' = deaf \ {c}
  /\ UNCHANGED <<redis, tasks, channel, events>>

\* TCP gives the connection up; what it was sent goes with it.
Drop(c) ==
  /\ sock[c] = "open"
  /\ sock' = [sock EXCEPT ![c] = "dropped"]
  /\ heard' = [heard EXCEPT ![c] = <<>>]
  /\ UNCHANGED <<redis, subs, subscriptions, tasks, channel, published, relay, lost, late, deaf>>

\* The close takes the connection from the chats its context lists.
HandleConnectionClosed(c) ==
  /\ sock[c] = "dropped"
  /\ sock' = [sock EXCEPT ![c] = "closed"]
  /\ subs' = IF c \in subscriptions THEN [subs EXCEPT ![c] = 0] ELSE subs
  /\ subscriptions' = subscriptions \ {c}
  /\ deaf' = deaf \ {c}
  /\ UNCHANGED <<redis, tasks, channel, events, late>>

-------------------------------------------------------------------------------
(* subscribe. *)

Subscribe(t, c) ==
  /\ at[t] = "none" /\ sock[c] = "open"
  /\ of' = [of EXCEPT ![t] = c]
  /\ at' = [at EXCEPT ![t] = "query"]
  /\ UNCHANGED <<redis, clients, channel, events, late, deaf>>

\* The membership query found the user and the connection was not disconnected.
Admit(t) ==
  /\ at[t] = "query" /\ sock[of[t]] = "open"
  /\ at' = [at EXCEPT ![t] = "insert"]
  /\ UNCHANGED <<redis, clients, of, channel, events, late, deaf>>

\* The connection was disconnected, or the user is not a member, or the query failed.
Refuse(t) ==
  /\ at[t] = "query"
  /\ at' = [at EXCEPT ![t] = "none"]
  /\ UNCHANGED <<redis, clients, of, channel, events, late, deaf>>

\* Mutant: the vector is not searched for the connection.
RegisterAgain(t) ==
  /\ at[t] = "insert"
  /\ at' = [at EXCEPT ![t] = "claim"]
  /\ subs' = [subs EXCEPT ![of[t]] = @ + 1]
  /\ subscriptions' = subscriptions \cup {of[t]}
  /\ late' = IF sock[of[t]] = "closed" THEN late \cup {of[t]} ELSE late
  /\ UNCHANGED <<redis, sock, of, channel, events, deaf>>

\* Mutant: the context does not learn of the chat.
RegisterUnrecorded(t) ==
  /\ at[t] = "insert"
  /\ at' = [at EXCEPT ![t] = "claim"]
  /\ subs' = [subs EXCEPT ![of[t]] = 1]
  /\ late' = IF sock[of[t]] = "closed" THEN late \cup {of[t]} ELSE late
  /\ UNCHANGED <<redis, sock, subscriptions, of, channel, events, deaf>>

\* The connection is entered in s_subs and the chat in its context, once.
Register(t) ==
  LET c == of[t] IN
    /\ at[t] = "insert"
    /\ at' = [at EXCEPT ![t] = "claim"]
    /\ IF subs[c] = 0
       THEN /\ subs' = [subs EXCEPT ![c] = 1]
            /\ subscriptions' = subscriptions \cup {c}
       ELSE UNCHANGED <<subs, subscriptions>>
    /\ late' = IF sock[c] = "closed" THEN late \cup {c} ELSE late
    /\ UNCHANGED <<redis, sock, of, channel, events, deaf>>

\* Mutant: the set of channels is not looked at.
ClaimAlways(t) ==
  /\ at[t] = "claim"
  /\ redisSubs' = TRUE
  /\ at' = [at EXCEPT ![t] = IF redis THEN "listen" ELSE "none"]
  /\ UNCHANGED <<redis, clients, of, listener, events, late, deaf>>

\* subscribeToRedis, up to its first unlock: one callback subscribes, the others
\* leave it to that one.
ClaimChannel(t) ==
  /\ at[t] = "claim"
  /\ redisSubs' = TRUE
  /\ at' = [at EXCEPT ![t] = IF redisSubs \/ ~redis THEN "none" ELSE "listen"]
  /\ UNCHANGED <<redis, clients, of, listener, events, late, deaf>>

\* A new subscriber takes the place of the one kept for the channel, if any.
Listen(t) ==
  /\ at[t] = "listen"
  /\ at' = [at EXCEPT ![t] = "none"]
  /\ listener' = "asked"
  /\ relay' = <<>>
  /\ deaf' = {}
  /\ UNCHANGED <<redis, clients, of, redisSubs, published, heard, lost, late>>

\* newSubscriber or subscribe throws.
ListenFails(t) ==
  /\ at[t] = "listen"
  /\ at' = [at EXCEPT ![t] = "unclaim"]
  /\ UNCHANGED <<redis, clients, of, channel, events, late, deaf>>

\* Mutant: the failure is only logged.
UnclaimNot(t) ==
  /\ at[t] = "unclaim"
  /\ at' = [at EXCEPT ![t] = "none"]
  /\ deaf' = {c \in Conn : subs[c] > 0}
  /\ UNCHANGED <<redis, clients, of, channel, events, late>>

\* The next subscribe will try again.
Unclaim(t) ==
  /\ at[t] = "unclaim"
  /\ at' = [at EXCEPT ![t] = "none"]
  /\ redisSubs' = FALSE
  /\ deaf' = {c \in Conn : subs[c] > 0}
  /\ UNCHANGED <<redis, clients, of, listener, events, late>>

-------------------------------------------------------------------------------
(* Events. *)

\* e is sent to the registered connections, as often as the vector holds them.
Broadcast(e) ==
  heard' = [c \in Conn |->
              IF sock[c] = "open" THEN heard[c] \o [i \in 1 .. subs[c] |-> e] ELSE heard[c]]

\* publishMessage: a PUBLISH that Redis executes, or without Redis a broadcast.
PublishMessage ==
  /\ published < MaxEvents
  /\ published' = published + 1
  /\ IF ~redis
     THEN /\ Broadcast(published + 1)
          /\ UNCHANGED <<relay, lost>>
     ELSE /\ UNCHANGED heard
          /\ IF listener = "on"
             THEN relay' = Append(relay, published + 1) /\ UNCHANGED lost
             ELSE lost' = lost \cup {published + 1} /\ UNCHANGED relay
  /\ UNCHANGED <<redis, clients, tasks, channel, late, deaf>>

\* The subscriber's callback.
RelayMessage ==
  /\ relay # <<>>
  /\ relay' = Tail(relay)
  /\ Broadcast(Head(relay))
  /\ UNCHANGED <<redis, clients, tasks, channel, published, lost, late, deaf>>

\* Redis confirms the subscription.
RedisSubscribed ==
  /\ listener = "asked"
  /\ listener' = "on"
  /\ UNCHANGED <<redis, clients, tasks, redisSubs, events, late, deaf>>

\* The subscriber's connection to Redis breaks; the library subscribes again, and
\* what was on the way is gone.
RedisDisconnected ==
  /\ listener = "on"
  /\ listener' = "asked"
  /\ relay' = <<>>
  /\ lost' = lost \cup {relay[i] : i \in 1 .. Len(relay)}
  /\ UNCHANGED <<redis, clients, tasks, redisSubs, published, heard, late, deaf>>

-------------------------------------------------------------------------------
Callback(t) ==
  \/ Admit(t) \/ Refuse(t)
  \/ Register(t)
  \/ ClaimChannel(t)
  \/ Listen(t) \/ ListenFails(t)
  \/ Unclaim(t)

Next ==
  \/ \E c \in Conn : \/ HandleNewConnection(c) \/ Drop(c) \/ HandleConnectionClosed(c)
                     \/ \E t \in Task : Subscribe(t, c)
  \/ \E t \in Task : Callback(t)
  \/ PublishMessage
  \/ RelayMessage
  \/ RedisSubscribed
  \/ RedisDisconnected

Spec == Init /\ [][Next]_vars

\* A callback that was started goes on, and Redis answers.
Fairness ==
  /\ \A t \in Task : WF_vars(Callback(t))
  /\ WF_vars(RedisSubscribed)

FairSpec == Spec /\ Fairness

-------------------------------------------------------------------------------
(* Properties. *)

Reached == {c \in Conn : sock[c] = "open" /\ subs[c] > 0}

Promise == INSTANCE Channel WITH passed <- published - Len(relay), reached <- Reached

\* The process keeps the promise of Channel.tla: a registered connection is sent
\* every event that comes through Redis, once, as long as it lives.
ChannelKept == Promise!Spec

\* However subscribes, failures and reconnects to Redis overlap, no connection is
\* sent an event twice or out of order; from the first it is sent on it misses only
\* events that came while the process did not listen, and those nobody is sent.
OnceInOrder == Promise!OnceInOrder

\* What s_subs keeps beyond the close of a connection was registered after it: the
\* callback looks at disconnected() and then locks s_mu.
ClosedForgotten ==
  \A c \in Conn : sock[c] = "closed" /\ subs[c] > 0 => c \in late

\* A channel with a registered connection is listened to, or somebody is about to
\* do so, or the attempt made for this very connection failed; an earlier failure
\* does no harm.
SubscriberListens ==
  \A c \in Conn :
    subs[c] > 0 => \/ ~redis
                   \/ listener # "none"
                   \/ \E t \in Task : at[t] = "claim" /\ of[t] = c
                   \/ \E t \in Task : at[t] \in {"listen", "unclaim"}
                   \/ c \in deaf

\* A connection that stays registered is at last listened for, unless the attempt
\* fails.
ListensAtLast ==
  \A c \in Conn :
    c \in Reached ~> listener = "on" \/ c \notin Reached \/ ~redis \/ c \in deaf
===============================================================================
