----------------------------- MODULE FanoutProofs -----------------------------
(***************************************************************************)
(* Proofs about Fanout, for any connections, any number of callbacks and    *)
(* any number of events.                                                    *)
(***************************************************************************)
EXTENDS Fanout, TLAPS

\* A list of events is one of more events.
LEMMA SeqGrows ==
  ASSUME NEW n \in Nat, NEW m \in Nat, n <= m, NEW s \in Seq(1 .. n)
  PROVE  s \in Seq(1 .. m)
<1>1. Len(s) \in Nat /\ \A i \in 1 .. Len(s) : s[i] \in 1 .. n
  OBVIOUS
<1>2. \A i \in 1 .. Len(s) : s[i] \in 1 .. m
  BY <1>1
<1>3. s = [i \in 1 .. Len(s) |-> s[i]]
  OBVIOUS
<1>4. QED
  BY <1>1, <1>2, <1>3

\* A vector that holds a connection once sends it one event, and one that does not
\* sends it none.
LEMMA SendsOnce ==
  ASSUME NEW S, NEW s \in Seq(S), NEW e \in S
  PROVE  /\ s \o [i \in 1 .. 0 |-> e] = s
         /\ s \o [i \in 1 .. 1 |-> e] = Append(s, e)
<1>1. [i \in 1 .. 0 |-> e] = <<>>
  OBVIOUS
<1>2. [i \in 1 .. 1 |-> e] = <<e>>
  OBVIOUS
<1>3. s \o <<>> = s /\ s \o <<e>> = Append(s, e)
  OBVIOUS
<1>4. QED
  BY <1>1, <1>2, <1>3

\* What a broadcast does to one connection.
LEMMA BroadcastSends ==
  ASSUME TypeOK, NEW e \in Nat, NEW m \in Nat, published <= m, e \in 1 .. m, Broadcast(e)
  PROVE  /\ heard' = [c \in Conn |->
                        IF c \in Reached THEN Append(heard[c], e) ELSE heard[c]]
         /\ heard' \in [Conn -> Seq(1 .. m)]
<1>1. published \in Nat
  BY BoundAssumption DEF TypeOK
<1>2. \A c \in Conn : heard[c] \in Seq(1 .. m)
  BY <1>1, SeqGrows DEF TypeOK
<1>3. ASSUME NEW c \in Conn
      PROVE  (IF sock[c] = "open" THEN heard[c] \o [i \in 1 .. subs[c] |-> e] ELSE heard[c])
             = IF c \in Reached THEN Append(heard[c], e) ELSE heard[c]
  <2> DEFINE sent(n) == heard[c] \o [i \in 1 .. n |-> e]
  <2>1. heard[c] \in Seq(1 .. m)
    BY <1>2
  <2>2. sent(0) = heard[c] /\ sent(1) = Append(heard[c], e)
    BY <2>1, SendsOnce
  <2>3. subs[c] \in {0, 1} /\ (c \in Reached <=> sock[c] = "open" /\ subs[c] = 1)
    BY DEF TypeOK, Reached
  <2> HIDE DEF sent
  <2>4. (IF sock[c] = "open" THEN sent(subs[c]) ELSE heard[c])
        = IF c \in Reached THEN Append(heard[c], e) ELSE heard[c]
    BY <2>2, <2>3
  <2>5. QED
    BY <2>4 DEF sent
<1>4. heard' = [c \in Conn |-> IF c \in Reached THEN Append(heard[c], e) ELSE heard[c]]
  BY <1>3 DEF Broadcast
<1>5. ASSUME NEW c \in Conn PROVE Append(heard[c], e) \in Seq(1 .. m)
  <2>1. heard[c] \in Seq(1 .. m)
    BY <1>2
  <2>2. QED
    BY <2>1
<1>6. QED
  BY <1>2, <1>4, <1>5

-------------------------------------------------------------------------------
(* Types. *)

\* Every variable keeps its type: the vector holds no connection twice, and no
\* event is sent that was not published.
THEOREM TypeCorrect == Spec => []TypeOK
<1>1. Init => TypeOK
  <2> SUFFICES ASSUME Init PROVE TypeOK
    OBVIOUS
  <2>1. <<>> \in Seq(1 .. published) /\ published \in 0 .. MaxEvents
    BY BoundAssumption DEF Init
  <2>2. relay \in Seq(1 .. published) /\ heard \in [Conn -> Seq(1 .. published)]
    BY <2>1 DEF Init
  <2>3. at \in [Task -> Stage] /\ of \in [Task -> Conn]
    BY DEF Init, Stage
  <2>4. QED
    BY <2>1, <2>2, <2>3 DEF Init, TypeOK
<1>2. TypeOK /\ [Next]_vars => TypeOK'
  <2> SUFFICES ASSUME TypeOK, [Next]_vars PROVE TypeOK'
    OBVIOUS
  <2> USE DEF TypeOK, Stage, clients, tasks, channel, events
  <2>0. <<>> \in Seq(1 .. published)
    OBVIOUS
  <2>1. ASSUME NEW c \in Conn, HandleNewConnection(c) PROVE TypeOK'
    BY <2>1 DEF HandleNewConnection
  <2>2. ASSUME NEW c \in Conn, Drop(c) PROVE TypeOK'
    BY <2>0, <2>2 DEF Drop
  <2>3. ASSUME NEW c \in Conn, HandleConnectionClosed(c) PROVE TypeOK'
    BY <2>3 DEF HandleConnectionClosed
  <2>4. ASSUME NEW c \in Conn, NEW t \in Task, Subscribe(t, c) PROVE TypeOK'
    BY <2>4 DEF Subscribe
  <2>5. ASSUME NEW t \in Task, Callback(t) PROVE TypeOK'
    <3>1. CASE Admit(t) \/ Refuse(t)
      BY <3>1 DEF Admit, Refuse
    <3>2. CASE Register(t)
      <4>1. of[t] \in Conn
        OBVIOUS
      <4>2. subs' = subs \/ subs' = [subs EXCEPT ![of[t]] = 1]
        BY <3>2 DEF Register
      <4>3. subscriptions' \subseteq Conn /\ late' \subseteq Conn
        BY <3>2, <4>1 DEF Register
      <4>4. QED
        BY <3>2, <4>1, <4>2, <4>3 DEF Register
    <3>3. CASE ClaimChannel(t)
      BY <3>3 DEF ClaimChannel
    <3>4. CASE Listen(t)
      BY <2>0, <3>4 DEF Listen
    <3>5. CASE ListenFails(t)
      BY <3>5 DEF ListenFails
    <3>6. CASE Unclaim(t)
      BY <3>6 DEF Unclaim
    <3>7. QED
      BY <2>5, <3>1, <3>2, <3>3, <3>4, <3>5, <3>6 DEF Callback
  <2>6. CASE PublishMessage
    <3>1. /\ published \in Nat /\ published' = published + 1 /\ published' \in 0 .. MaxEvents
          /\ published' \in Nat /\ published <= published' /\ published' \in 1 .. published'
      BY <2>6, BoundAssumption DEF PublishMessage
    <3>2. relay \in Seq(1 .. published')
      BY <3>1, SeqGrows
    <3>3. lost \cup {published'} \subseteq 1 .. published'
      BY <3>1
    <3>4. \A c \in Conn : heard[c] \in Seq(1 .. published')
      BY <3>1, SeqGrows
    <3>5. CASE ~redis
      <4>1. Broadcast(published') /\ lost' = lost /\ relay' = relay
        BY <2>6, <3>1, <3>5 DEF PublishMessage
      <4>2. heard' \in [Conn -> Seq(1 .. published')]
        BY <3>1, <4>1, BroadcastSends
      <4>3. QED
        BY <2>6, <3>1, <3>2, <3>3, <4>1, <4>2 DEF PublishMessage
    <3>6. CASE redis
      <4>1. /\ heard' = heard
            /\ lost' = lost \/ lost' = lost \cup {published'}
            /\ relay' = relay \/ relay' = Append(relay, published')
        BY <2>6, <3>1, <3>6 DEF PublishMessage
      <4> HIDE DEF TypeOK
      <4>2. lost' \subseteq 1 .. published'
        BY <3>3, <4>1
      <4>3. relay' \in Seq(1 .. published')
        <5>1. Append(relay, published') \in Seq(1 .. published')
          BY <3>1, <3>2
        <5>2. QED
          BY <3>2, <4>1, <5>1
      <4>4. heard' \in [Conn -> Seq(1 .. published')]
        BY <3>4, <4>1 DEF TypeOK
      <4>5. QED
        BY <2>6, <3>1, <4>2, <4>3, <4>4 DEF PublishMessage, TypeOK
    <3>7. QED
      BY <3>5, <3>6
  <2>7. CASE RelayMessage
    <3>1. published \in Nat /\ relay # <<>> /\ Head(relay) \in 1 .. published
      BY <2>7, BoundAssumption DEF RelayMessage
    <3>2. heard' \in [Conn -> Seq(1 .. published)]
      BY <2>7, <3>1, BroadcastSends DEF RelayMessage
    <3>3. relay' \in Seq(1 .. published)
      BY <2>7, <3>1 DEF RelayMessage
    <3>4. QED
      BY <2>7, <3>2, <3>3 DEF RelayMessage
  <2>8. CASE RedisSubscribed
    BY <2>8 DEF RedisSubscribed
  <2>9. CASE RedisDisconnected
    <3>1. \A i \in 1 .. Len(relay) : relay[i] \in 1 .. published
      OBVIOUS
    <3>2. QED
      BY <2>0, <2>9, <3>1 DEF RedisDisconnected
  <2>10. CASE UNCHANGED vars
    BY <2>10 DEF vars
  <2>11. QED
    BY <2>1, <2>2, <2>3, <2>4, <2>5, <2>6, <2>7, <2>8, <2>9, <2>10 DEF Next
<1>3. QED
  BY <1>1, <1>2, PTL DEF Spec

-------------------------------------------------------------------------------
(* The connections registered, and the channel claimed. *)

\* s_subs and the contexts agree, and only a connection that events reach holds
\* any.
Registered ==
  \A c \in Conn :
    /\ subs[c] > 0 <=> c \in subscriptions
    /\ sock[c] = "closed" /\ subs[c] > 0 => c \in late
    /\ heard[c] # <<>> => c \in Reached

\* One callback at most is about to listen, the channel is then marked and nothing
\* listens yet; a mark that stays has a listener, and only a listener that is on
\* leaves anything to broadcast.
Listening == {t \in Task : at[t] \in {"listen", "unclaim"}}

Claimed ==
  /\ \A t \in Listening : redis /\ redisSubs /\ listener = "none"
  /\ \A t, u \in Listening : t = u
  /\ redis /\ redisSubs /\ listener = "none" => Listening # {}
  /\ listener # "none" => redis /\ redisSubs
  /\ listener # "on" => relay = <<>>

\* The events to broadcast are the last ones published, in their order.
RelayIsLast ==
  /\ Len(relay) <= published
  /\ \A i \in 1 .. Len(relay) : relay[i] = published - Len(relay) + i

\* The context of a connection and s_subs change in one locked section, so that a
\* close finds all that was registered before it.
THEOREM RegisteredCorrect == Spec => []Registered
<1>1. Init => Registered
  <2>1. ASSUME Init, NEW c \in Conn
        PROVE  ~(subs[c] > 0) /\ c \notin subscriptions /\ heard[c] = <<>>
    BY <2>1 DEF Init
  <2>2. QED
    BY <2>1, Zenon DEF Registered
<1>2. TypeOK /\ Registered /\ [Next]_vars => Registered'
  <2> SUFFICES ASSUME TypeOK, Registered, [Next]_vars PROVE Registered'
    OBVIOUS
  <2> USE DEF TypeOK, Registered, Reached, clients, tasks, channel, events
  <2>1. ASSUME NEW c \in Conn, HandleNewConnection(c) PROVE Registered'
    BY <2>1 DEF HandleNewConnection
  <2>2. ASSUME NEW c \in Conn, Drop(c) PROVE Registered'
    BY <2>2 DEF Drop
  <2>3. ASSUME NEW c \in Conn, HandleConnectionClosed(c) PROVE Registered'
    BY <2>3 DEF HandleConnectionClosed
  <2>4. ASSUME NEW c \in Conn, NEW t \in Task, Subscribe(t, c) PROVE Registered'
    BY <2>4 DEF Subscribe
  <2>5. ASSUME NEW t \in Task, Callback(t) PROVE Registered'
    <3>1. CASE Register(t)
      BY <3>1 DEF Register
    <3>2. CASE ~Register(t)
      <4>1. UNCHANGED <<sock, subs, subscriptions, heard, late>>
        BY <2>5, <3>2 DEF Callback, Admit, Refuse, ClaimChannel, Listen, ListenFails, Unclaim
      <4>2. QED
        BY <4>1
    <3>3. QED
      BY <3>1, <3>2
  <2>6. ASSUME UNCHANGED <<clients, late>>, NEW e \in Nat, NEW m \in Nat, published <= m,
               e \in 1 .. m, Broadcast(e)
        PROVE  Registered'
    <3>1. heard' = [c \in Conn |-> IF c \in Reached THEN Append(heard[c], e) ELSE heard[c]]
      BY <2>6, BroadcastSends
    <3>2. \A c \in Conn : heard'[c] # <<>> => c \in Reached
      BY <3>1
    <3>3. QED
      BY <2>6, <3>2
  <2>7. CASE PublishMessage
    <3>1. /\ published \in Nat /\ published + 1 \in Nat /\ published <= published + 1
          /\ published + 1 \in 1 .. (published + 1)
      BY BoundAssumption
    <3>2. CASE ~redis
      <4>1. Broadcast(published + 1) /\ UNCHANGED <<clients, late>>
        BY <2>7, <3>2 DEF PublishMessage
      <4>2. QED
        BY <2>6, <3>1, <4>1
    <3>3. CASE redis
      BY <2>7, <3>3 DEF PublishMessage
    <3>4. QED
      BY <3>2, <3>3
  <2>8. CASE RelayMessage
    <3>1. published \in Nat /\ Head(relay) \in 1 .. published /\ Head(relay) \in Nat
      BY <2>8, BoundAssumption DEF RelayMessage
    <3>2. Broadcast(Head(relay)) /\ UNCHANGED <<clients, late>> /\ published <= published
      BY <2>8, <3>1 DEF RelayMessage
    <3>3. QED
      BY <2>6, <3>1, <3>2
  <2>9. CASE RedisSubscribed \/ RedisDisconnected
    BY <2>9 DEF RedisSubscribed, RedisDisconnected
  <2>10. CASE UNCHANGED vars
    BY <2>10 DEF vars
  <2>11. QED
    BY <2>1, <2>2, <2>3, <2>4, <2>5, <2>7, <2>8, <2>9, <2>10 DEF Next
<1>3. QED
  BY <1>1, <1>2, TypeCorrect, PTL DEF Spec

\* What stays in s_subs after its close was registered after it.
THEOREM ClosedForgottenCorrect == Spec => []ClosedForgotten
<1>1. Registered => ClosedForgotten
  BY DEF Registered, ClosedForgotten
<1>2. QED
  BY <1>1, RegisteredCorrect, PTL

-------------------------------------------------------------------------------
(* The channel is claimed once and listened to. *)

\* Nothing but a callback that claims, listens or fails touches the claim; the
\* events move only while the listener is on.
THEOREM ClaimedCorrect == Spec => []Claimed
<1>1. Init => Claimed
  BY DEF Init, Claimed, Listening
<1>2. TypeOK /\ Claimed /\ [Next]_vars => Claimed'
  <2> SUFFICES ASSUME TypeOK, Claimed, [Next]_vars PROVE Claimed'
    OBVIOUS
  <2> USE DEF TypeOK, Claimed, Listening, clients, tasks, channel, events
  <2>1. ASSUME NEW c \in Conn, HandleNewConnection(c) \/ Drop(c) \/ HandleConnectionClosed(c)
        PROVE  Claimed'
    BY <2>1 DEF HandleNewConnection, Drop, HandleConnectionClosed
  <2>2. ASSUME NEW c \in Conn, NEW t \in Task, Subscribe(t, c) PROVE Claimed'
    BY <2>2 DEF Subscribe
  <2>3. ASSUME NEW t \in Task, Admit(t) \/ Refuse(t) PROVE Claimed'
    <3>1. Listening' = Listening /\ UNCHANGED <<redis, channel, relay>>
      BY <2>3 DEF Admit, Refuse
    <3>2. QED
      BY <3>1
  <2>4. ASSUME NEW t \in Task, Register(t) PROVE Claimed'
    BY <2>4 DEF Register
  <2>5. ASSUME NEW t \in Task, ClaimChannel(t) PROVE Claimed'
    <3>1. CASE redisSubs \/ ~redis
      BY <2>5, <3>1 DEF ClaimChannel
    <3>2. CASE ~redisSubs /\ redis
      BY <2>5, <3>2 DEF ClaimChannel
    <3>3. QED
      BY <3>1, <3>2
  <2>6. ASSUME NEW t \in Task, Listen(t) PROVE Claimed'
    BY <2>6 DEF Listen
  <2>7. ASSUME NEW t \in Task, ListenFails(t) PROVE Claimed'
    BY <2>7 DEF ListenFails
  <2>8. ASSUME NEW t \in Task, Unclaim(t) PROVE Claimed'
    BY <2>8 DEF Unclaim
  <2>9. CASE PublishMessage
    <3>1. UNCHANGED <<redis, at, channel>> /\ (listener # "on" => relay' = relay)
      BY <2>9 DEF PublishMessage
    <3>2. QED
      BY <3>1
  <2>10. CASE RelayMessage
    <3>1. relay # <<>> /\ UNCHANGED <<redis, at, channel>>
      BY <2>10 DEF RelayMessage
    <3>2. listener = "on"
      BY <3>1
    <3>3. QED
      BY <3>1, <3>2
  <2>11. CASE RedisSubscribed \/ RedisDisconnected
    BY <2>11 DEF RedisSubscribed, RedisDisconnected
  <2>12. CASE UNCHANGED vars
    BY <2>12 DEF vars
  <2>13. QED
    BY <2>1, <2>2, <2>3, <2>4, <2>5, <2>6, <2>7, <2>8, <2>9, <2>10, <2>11, <2>12
    DEF Next, Callback
<1>3. QED
  BY <1>1, <1>2, TypeCorrect, PTL DEF Spec

\* A callback finds the channel marked only if it is listened to or another callback
\* is about to listen, and a failure takes the mark back.
THEOREM SubscriberListensCorrect == Spec => []SubscriberListens
<1>1. Init => SubscriberListens
  <2>1. ASSUME Init, NEW c \in Conn PROVE ~(subs[c] > 0)
    BY <2>1 DEF Init
  <2>2. QED
    BY <2>1, Zenon DEF SubscriberListens
<1>2. TypeOK /\ Registered /\ Claimed /\ Claimed' /\ SubscriberListens /\ [Next]_vars
      => SubscriberListens'
  <2> SUFFICES ASSUME TypeOK, Registered, Claimed, Claimed', SubscriberListens, [Next]_vars
               PROVE  SubscriberListens'
    OBVIOUS
  <2> USE DEF TypeOK, SubscriberListens, clients, tasks, channel, events
  <2>1. ASSUME NEW c \in Conn, HandleNewConnection(c) \/ Drop(c) PROVE SubscriberListens'
    <3>1. CASE HandleNewConnection(c)
      <4>1. \A d \in Conn : d # c => subs'[d] = subs[d] /\ (d \in deaf => d \in deaf')
        BY <3>1 DEF HandleNewConnection
      <4>2. ~(subs'[c] > 0)
        BY <3>1 DEF HandleNewConnection
      <4>3. UNCHANGED <<redis, at, of, listener>>
        BY <3>1 DEF HandleNewConnection
      <4>4. QED
        BY <4>1, <4>2, <4>3
    <3>2. CASE Drop(c)
      BY <3>2 DEF Drop
    <3>3. QED
      BY <2>1, <3>1, <3>2
  <2>2. ASSUME NEW c \in Conn, HandleConnectionClosed(c) PROVE SubscriberListens'
    <3>1. \A d \in Conn : subs'[d] > 0 => d # c /\ subs[d] > 0
      BY <2>2 DEF HandleConnectionClosed, Registered
    <3>2. QED
      BY <2>2, <3>1 DEF HandleConnectionClosed
  <2>3. ASSUME NEW c \in Conn, NEW t \in Task, Subscribe(t, c) PROVE SubscriberListens'
    <3>1. \A u \in Task : at[u] # "none" => at'[u] = at[u] /\ of'[u] = of[u]
      BY <2>3 DEF Subscribe
    <3>2. QED
      BY <2>3, <3>1 DEF Subscribe
  <2>4. ASSUME NEW t \in Task, Admit(t) \/ Refuse(t) PROVE SubscriberListens'
    <3>1. /\ at[t] = "query" /\ \A u \in Task : u # t => at'[u] = at[u]
          /\ UNCHANGED <<redis, subs, of, listener, deaf>>
      BY <2>4 DEF Admit, Refuse
    <3>2. QED
      BY <3>1
  <2>5. ASSUME NEW t \in Task, Register(t) PROVE SubscriberListens'
    <3>1. \A d \in Conn : subs'[d] > 0 => d = of[t] \/ subs[d] > 0
      BY <2>5 DEF Register
    <3>2. at'[t] = "claim" /\ of' = of /\ \A u \in Task : u # t => at'[u] = at[u]
      BY <2>5 DEF Register
    <3>3. at[t] = "insert"
      BY <2>5 DEF Register
    <3>4. UNCHANGED <<redis, listener, deaf>>
      BY <2>5 DEF Register
    <3>5. QED
      BY <3>1, <3>2, <3>3, <3>4
  <2>6. ASSUME NEW t \in Task, ClaimChannel(t) PROVE SubscriberListens'
    <3>1. ~redis \/ listener # "none" \/ \E u \in Task : at'[u] \in {"listen", "unclaim"}
      <4>1. CASE redis /\ redisSubs /\ listener = "none"
        <5>1. PICK u \in Task : at[u] \in {"listen", "unclaim"}
          BY <4>1 DEF Claimed, Listening
        <5>2. at'[u] = at[u]
          BY <2>6, <5>1 DEF ClaimChannel
        <5>3. QED
          BY <5>1, <5>2
      <4>2. CASE redis /\ ~redisSubs
        BY <2>6, <4>2 DEF ClaimChannel
      <4>3. QED
        BY <4>1, <4>2
    <3>2. QED
      BY <2>6, <3>1 DEF ClaimChannel
  <2>7. ASSUME NEW t \in Task, Listen(t) PROVE SubscriberListens'
    BY <2>7 DEF Listen
  <2>8. ASSUME NEW t \in Task, ListenFails(t) PROVE SubscriberListens'
    BY <2>8 DEF ListenFails
  <2>9. ASSUME NEW t \in Task, Unclaim(t) PROVE SubscriberListens'
    BY <2>9 DEF Unclaim
  <2>10. CASE PublishMessage
    <3>1. UNCHANGED <<redis, subs, at, of, listener, deaf>>
      BY <2>10 DEF PublishMessage
    <3>2. QED
      BY <3>1
  <2>11. CASE RelayMessage
    BY <2>11 DEF RelayMessage
  <2>12. CASE RedisSubscribed \/ RedisDisconnected
    BY <2>12 DEF RedisSubscribed, RedisDisconnected
  <2>13. CASE UNCHANGED vars
    BY <2>13 DEF vars
  <2>14. QED
    BY <2>1, <2>2, <2>3, <2>4, <2>5, <2>6, <2>7, <2>8, <2>9, <2>10, <2>11, <2>12, <2>13
    DEF Next, Callback
<1>3. QED
  BY <1>1, <1>2, TypeCorrect, RegisteredCorrect, ClaimedCorrect, PTL DEF Spec

-------------------------------------------------------------------------------
(* The promise of Channel. *)

\* The events to broadcast are consecutive and end with the last one published.
LEMMA RelayStep ==
  ASSUME TypeOK, Claimed, RelayIsLast, [Next]_vars
  PROVE  RelayIsLast'
<1> USE DEF RelayIsLast
<1>1. /\ published \in Nat /\ Len(relay) \in Nat /\ relay \in Seq(Nat)
      /\ \A i \in 1 .. Len(relay) : relay[i] \in 1 .. published
  <2>1. published \in Nat
    BY BoundAssumption DEF TypeOK
  <2>2. Len(relay) \in Nat /\ \A i \in 1 .. Len(relay) : relay[i] \in 1 .. published
    BY DEF TypeOK
  <2>3. relay \in Seq(Nat)
    BY <2>1, <2>2 DEF TypeOK
  <2>4. QED
    BY <2>1, <2>2, <2>3
<1>2. CASE UNCHANGED <<relay, published>>
  BY <1>2
<1>3. CASE relay' = <<>> /\ published' = published
  BY <1>1, <1>3
<1>4. CASE PublishMessage
  <2>1. published' = published + 1
    BY <1>4 DEF PublishMessage
  <2>2. CASE relay' = Append(relay, published')
    <3>1. Len(relay') = Len(relay) + 1 /\ relay'[Len(relay) + 1] = published'
      BY <1>1, <2>1, <2>2
    <3>2. \A i \in 1 .. Len(relay) : relay'[i] = relay[i]
      BY <1>1, <2>1, <2>2
    <3>3. QED
      BY <1>1, <2>1, <3>1, <3>2, SMTT(20)
  <2>3. CASE relay' = relay /\ relay = <<>>
    BY <1>1, <2>1, <2>3
  <2>4. relay' = Append(relay, published') \/ (relay' = relay /\ relay = <<>>)
    BY <1>4, <2>1 DEF PublishMessage, Claimed
  <2>5. QED
    BY <2>2, <2>3, <2>4
<1>5. CASE RelayMessage
  <2>1. relay # <<>> /\ relay' = Tail(relay) /\ published' = published
    BY <1>5 DEF RelayMessage
  <2>2. Len(relay') = Len(relay) - 1 /\ \A i \in 1 .. Len(relay') : relay'[i] = relay[i + 1]
    BY <1>1, <2>1
  <2>3. QED
    BY <1>1, <2>1, <2>2
<1>6. \/ UNCHANGED <<relay, published>>
      \/ relay' = <<>> /\ published' = published
      \/ PublishMessage \/ RelayMessage
  BY DEF Next, Callback, vars, events, HandleNewConnection, Drop, HandleConnectionClosed,
         Subscribe, Admit, Refuse, Register, ClaimChannel, Listen, ListenFails, Unclaim,
         RedisSubscribed, RedisDisconnected
<1>7. QED
  BY <1>2, <1>3, <1>4, <1>5, <1>6

\* Every step of the process is one of the channel or none: a published event waits
\* in the relay and is passed when it is broadcast, or is passed and lost at once.
LEMMA StepImplements ==
  ASSUME TypeOK, Registered, Claimed, RelayIsLast, [Next]_vars, TypeOK', Registered'
  PROVE  [Promise!Next]_(Promise!vars)
<1> DEFINE passed == published - Len(relay)
<1> USE DEF clients, tasks, channel, events
<1>1. published \in Nat /\ Len(relay) \in Nat /\ Len(relay) <= published
  BY BoundAssumption DEF TypeOK, RelayIsLast
<1>2. CASE UNCHANGED <<published, relay, lost, heard>> /\ Reached' = Reached
  BY <1>2 DEF Promise!vars
<1>3. ASSUME NEW c \in Conn, HandleNewConnection(c)
      PROVE  Reached' = Reached
  <2>1. c \notin Reached /\ c \notin Reached'
    BY <1>3 DEF HandleNewConnection, Reached, TypeOK
  <2>2. \A d \in Conn : d # c => sock'[d] = sock[d] /\ subs'[d] = subs[d]
    BY <1>3 DEF HandleNewConnection, TypeOK
  <2>3. QED
    BY <2>1, <2>2 DEF Reached
<1>4. ASSUME NEW c \in Conn, Drop(c) PROVE [Promise!Next]_(Promise!vars)
  <2>1. Reached' = Reached \ {c}
    BY <1>4 DEF Drop, Reached, TypeOK
  <2>2. UNCHANGED <<published, relay, lost>> /\ heard' = [heard EXCEPT ![c] = <<>>]
    BY <1>4 DEF Drop
  <2>3. CASE c \in Reached
    <3>1. Promise!Leave(c)
      BY <2>1, <2>2, <2>3 DEF Promise!Leave
    <3>2. QED
      BY <3>1 DEF Promise!Next
  <2>4. CASE c \notin Reached
    <3>1. heard' = heard
      BY <2>2, <2>4 DEF Registered, TypeOK
    <3>2. QED
      BY <1>2, <2>1, <2>2, <2>4, <3>1
  <2>5. QED
    BY <2>3, <2>4
<1>5. ASSUME NEW c \in Conn, HandleConnectionClosed(c) PROVE Reached' = Reached
  BY <1>5 DEF HandleConnectionClosed, Reached, TypeOK
<1>6. ASSUME NEW t \in Task, Register(t) PROVE [Promise!Next]_(Promise!vars)
  <2>1. of[t] \in Conn /\ UNCHANGED <<published, relay, lost, heard>>
    BY <1>6 DEF Register, TypeOK
  <2>2. Reached' = Reached \/ (of[t] \notin Reached /\ Reached' = Reached \cup {of[t]})
    <3>1. sock' = sock /\ \A d \in Conn : d # of[t] => subs'[d] = subs[d]
      BY <1>6, <2>1 DEF Register, TypeOK
    <3>2. subs'[of[t]] = 1
      BY <1>6, <2>1 DEF Register, TypeOK
    <3>3. \A d \in Conn : d # of[t] => (d \in Reached' <=> d \in Reached)
      BY <3>1 DEF Reached
    <3>4. of[t] \in Reached' <=> sock[of[t]] = "open"
      BY <2>1, <3>1, <3>2 DEF Reached
    <3>5. of[t] \in Reached => sock[of[t]] = "open"
      BY DEF Reached
    <3>6. Reached \subseteq Conn /\ Reached' \subseteq Conn
      BY DEF Reached
    <3>7. QED
      BY <2>1, <3>3, <3>4, <3>5, <3>6
  <2>3. CASE of[t] \notin Reached /\ Reached' = Reached \cup {of[t]}
    <3>1. Promise!Join(of[t])
      BY <2>1, <2>3 DEF Promise!Join
    <3>2. QED
      BY <2>1, <3>1 DEF Promise!Next
  <2>4. QED
    BY <1>2, <2>1, <2>2, <2>3
<1>7. CASE PublishMessage
  <2>1. published' = published + 1 /\ Reached' = Reached
    BY <1>7 DEF PublishMessage, Reached
  <2>2. CASE ~redis
    <3>1. Broadcast(published + 1) /\ lost' = lost /\ relay' = relay /\ relay = <<>>
      BY <1>7, <2>2 DEF PublishMessage, Claimed
    <3>2. heard' = [c \in Conn |->
                      IF c \in Reached THEN Append(heard[c], published + 1) ELSE heard[c]]
      BY <1>1, <3>1, BroadcastSends
    <3>3. passed = published /\ passed' = published + 1
      BY <1>1, <2>1, <3>1
    <3>4. Promise!Send
      BY <2>1, <3>1, <3>2, <3>3 DEF Promise!Send
    <3>5. QED
      BY <3>4 DEF Promise!Next
  <2>3. CASE redis /\ listener = "on"
    <3>1. UNCHANGED <<heard, lost>> /\ relay' = Append(relay, published + 1)
      BY <1>7, <2>3 DEF PublishMessage
    <3>2. Len(relay') = Len(relay) + 1
      BY <1>1, <3>1 DEF TypeOK
    <3>3. passed' = passed
      BY <1>1, <2>1, <3>2
    <3>4. QED
      BY <2>1, <3>1, <3>3 DEF Promise!vars
  <2>4. CASE redis /\ listener # "on"
    <3>1. UNCHANGED <<heard, relay>> /\ lost' = lost \cup {published + 1} /\ relay = <<>>
      BY <1>7, <2>4 DEF PublishMessage, Claimed
    <3>2. passed = published /\ passed' = published + 1
      BY <1>1, <2>1, <3>1
    <3>3. {published + 1} = (passed + 1) .. passed'
      BY <1>1, <3>2
    <3>4. Promise!Lose
      BY <1>1, <2>1, <3>1, <3>2, <3>3 DEF Promise!Lose
    <3>5. QED
      BY <3>4 DEF Promise!Next
  <2>5. QED
    BY <2>2, <2>3, <2>4
<1>8. CASE RelayMessage
  <2>1. /\ relay # <<>> /\ relay' = Tail(relay) /\ Broadcast(Head(relay))
        /\ published' = published /\ lost' = lost /\ Reached' = Reached
    BY <1>8 DEF RelayMessage, Reached
  <2>2. Len(relay) > 0 /\ Len(relay') = Len(relay) - 1
    BY <2>1 DEF TypeOK
  <2>3. Head(relay) = passed + 1
    BY <1>1, <2>1, <2>2 DEF RelayIsLast
  <2>4. passed' = passed + 1 /\ Head(relay) \in Nat /\ Head(relay) \in 1 .. published
    BY <1>1, <2>1, <2>2, <2>3
  <2>5. heard' = [c \in Conn |->
                    IF c \in Reached THEN Append(heard[c], passed + 1) ELSE heard[c]]
    BY <1>1, <2>1, <2>3, <2>4, BroadcastSends
  <2>6. Promise!Send
    BY <2>1, <2>4, <2>5 DEF Promise!Send
  <2>7. QED
    BY <2>6 DEF Promise!Next
<1>9. CASE RedisDisconnected
  <2>1. /\ relay' = <<>> /\ published' = published /\ heard' = heard /\ Reached' = Reached
        /\ lost' = lost \cup {relay[i] : i \in 1 .. Len(relay)}
    BY <1>9 DEF RedisDisconnected, Reached
  <2>2. passed' = published
    BY <1>1, <2>1
  <2>3. CASE relay = <<>>
    BY <1>2, <2>1, <2>3
  <2>4. CASE relay # <<>>
    <3>1. Len(relay) > 0
      BY <2>4 DEF TypeOK
    <3>2. {relay[i] : i \in 1 .. Len(relay)} = (passed + 1) .. passed'
      <4>1. ASSUME NEW e \in (passed + 1) .. passed'
            PROVE  e \in {relay[i] : i \in 1 .. Len(relay)}
        <5>1. e - passed \in 1 .. Len(relay) /\ passed + (e - passed) = e
          BY <1>1, <2>2
        <5>2. relay[e - passed] = passed + (e - passed)
          BY <5>1 DEF RelayIsLast
        <5>3. QED
          BY <5>1, <5>2
      <4>2. ASSUME NEW i \in 1 .. Len(relay) PROVE relay[i] \in (passed + 1) .. passed'
        BY <1>1, <2>2 DEF RelayIsLast
      <4>3. QED
        BY <4>1, <4>2
    <3>3. Promise!Lose
      BY <1>1, <2>1, <2>2, <3>1, <3>2 DEF Promise!Lose
    <3>4. QED
      BY <3>3 DEF Promise!Next
  <2>5. QED
    BY <2>3, <2>4
<1>10. ASSUME NEW t \in Task, Listen(t) PROVE [Promise!Next]_(Promise!vars)
  <2>1. relay = <<>>
    BY <1>10 DEF Listen, Claimed, Listening
  <2>2. UNCHANGED <<published, relay, lost, heard>> /\ Reached' = Reached
    BY <1>10, <2>1 DEF Listen, Reached
  <2>3. QED
    BY <1>2, <2>2
<1>11. CASE UNCHANGED <<published, relay, lost, heard, sock, subs>>
  BY <1>2, <1>11 DEF Reached
<1>12. \/ \E c \in Conn : \/ HandleNewConnection(c) \/ Drop(c)
                          \/ HandleConnectionClosed(c)
       \/ \E t \in Task : Register(t) \/ Listen(t)
       \/ PublishMessage \/ RelayMessage \/ RedisDisconnected
       \/ UNCHANGED <<published, relay, lost, heard, sock, subs>>
  BY DEF Next, Callback, vars, Subscribe, Admit, Refuse, ClaimChannel, ListenFails, Unclaim,
         RedisSubscribed
<1>13. QED
  <2>1. ASSUME NEW c \in Conn, HandleNewConnection(c) \/ HandleConnectionClosed(c)
        PROVE  UNCHANGED <<published, relay, lost, heard>>
    BY <2>1 DEF HandleNewConnection, HandleConnectionClosed
  <2>2. QED
    BY <1>2, <1>3, <1>4, <1>5, <1>6, <1>7, <1>8, <1>9, <1>10, <1>11, <1>12, <2>1

\* The process keeps the promise of Channel.
THEOREM ImplementsChannel == Spec => ChannelKept
<1>1. Init => Promise!Init
  <2>1. Len(<<>>) = 0
    OBVIOUS
  <2>2. Init => Reached = {}
    <3>1. ASSUME Init, NEW c \in Conn PROVE c \notin Reached
      BY <3>1 DEF Init, Reached
    <3>2. QED
      BY <3>1 DEF Reached
  <2>3. Init => published - Len(relay) = 0
    <3>1. Init => published = 0 /\ relay = <<>>
      BY DEF Init
    <3>2. published = 0 /\ relay = <<>> => published - Len(relay) = 0
      <4>1. relay = <<>> => Len(relay) = 0
        BY <2>1, Zenon
      <4>2. published = 0 /\ Len(relay) = 0 => published - Len(relay) = 0
        OBVIOUS
      <4>3. QED
        BY <4>1, <4>2
    <3>3. QED
      BY <3>1, <3>2
  <2>4. QED
    BY <2>2, <2>3, Zenon DEF Init, Promise!Init
<1>2. Init => RelayIsLast
  BY DEF Init, RelayIsLast
<1>3. TypeOK /\ Claimed /\ RelayIsLast /\ [Next]_vars => RelayIsLast'
  BY RelayStep
<1>4. TypeOK /\ Registered /\ Claimed /\ RelayIsLast /\ [Next]_vars /\ TypeOK' /\ Registered'
      => [Promise!Next]_(Promise!vars)
  BY StepImplements
<1>5. QED
  BY <1>1, <1>2, <1>3, <1>4, TypeCorrect, RegisteredCorrect, ClaimedCorrect, PTL
  DEF Spec, ChannelKept, Promise!Spec

-------------------------------------------------------------------------------
\* What Channel promises, carried over to the process.

Passed == published - Len(relay)

\* What a connection was sent of the first n events, of which those in out are lost to
\* all: the body of OnceInOrder.
Complete(n, out, s) ==
  s # <<>> =>
    /\ \A i \in 2 .. Len(s) : s[i - 1] < s[i]
    /\ s[1] .. n \ out = {s[i] : i \in 1 .. Len(s)}

\* What an event appended to a list of earlier ones changes.
LEMMA AppendFacts ==
  ASSUME NEW n \in Nat, NEW s \in Seq(1 .. n), NEW e \in Nat \ {0}
  PROVE  /\ Append(s, e) # <<>>
         /\ Len(Append(s, e)) = Len(s) + 1
         /\ \A i \in 1 .. Len(s) : Append(s, e)[i] = s[i] /\ s[i] \in 1 .. n
         /\ Append(s, e)[Len(s) + 1] = e
         /\ Len(s) \in Nat
         /\ s # <<>> => Len(s) > 0
<1>1. Len(s) \in Nat /\ \A i \in 1 .. Len(s) : s[i] \in 1 .. n
  OBVIOUS
<1>2. s \in Seq(Nat) /\ e \in Nat
  BY <1>1
<1>3. /\ Len(Append(s, e)) = Len(s) + 1
      /\ \A i \in 1 .. Len(s) : Append(s, e)[i] = s[i]
      /\ Append(s, e)[Len(s) + 1] = e
  BY <1>2
<1>4. Len(<<>>) = 0
  OBVIOUS
<1>5. s # <<>> => Len(s) > 0
  BY <1>1
<1>6. QED
  BY <1>1, <1>3, <1>4, <1>5

\* A connection that was sent all is sent the next one.
LEMMA SendCompletes ==
  ASSUME NEW n \in Nat, NEW out \in SUBSET (1 .. n), NEW s \in Seq(1 .. n), Complete(n, out, s)
  PROVE  Append(s, n + 1) \in Seq(1 .. (n + 1)) /\ Complete(n + 1, out, Append(s, n + 1))
<1> DEFINE e == n + 1
           u == Append(s, e)
<1>1. /\ Len(u) = Len(s) + 1 /\ Len(s) \in Nat /\ (s # <<>> => Len(s) > 0)
      /\ u[Len(s) + 1] = e
      /\ \A i \in 1 .. Len(s) : u[i] = s[i] /\ s[i] \in 1 .. n
  BY AppendFacts
<1>2. u \in Seq(1 .. e)
  <2>1. s \in Seq(1 .. e) /\ e \in 1 .. e
    BY SeqGrows
  <2> QED
    BY <2>1
<1> HIDE DEF u
<1>3. \A i \in 2 .. Len(u) : u[i - 1] < u[i]
  <2> TAKE i \in 2 .. Len(u)
  <2>1. CASE i = Len(s) + 1
    BY <1>1, <2>1, SMTT(20)
  <2>2. CASE i # Len(s) + 1
    <3>1. i \in 2 .. Len(s) /\ i - 1 \in 1 .. Len(s) /\ i \in 1 .. Len(s) /\ s # <<>>
      BY <1>1, <2>2
    <3>2. s[i - 1] < s[i]
      BY <3>1 DEF Complete
    <3>3. QED
      BY <1>1, <3>1, <3>2
  <2>3. QED
    BY <2>1, <2>2
<1>4. u[1] .. e \ out = {u[i] : i \in 1 .. Len(u)}
  <2>1. {u[i] : i \in 1 .. Len(u)} = {s[i] : i \in 1 .. Len(s)} \cup {e}
    BY <1>1
  <2>2. CASE s = <<>>
    BY <1>1, <2>1, <2>2
  <2>3. CASE s # <<>>
    <3>1. u[1] = s[1] /\ s[1] \in 1 .. n
      BY <1>1, <2>3
    <3>2. s[1] .. n \ out = {s[i] : i \in 1 .. Len(s)}
      BY <2>3 DEF Complete
    <3>3. s[1] .. e \ out = (s[1] .. n \ out) \cup {e}
      BY <3>1
    <3>4. QED
      BY <2>1, <3>1, <3>2, <3>3
  <2>4. QED
    BY <2>2, <2>3
<1>5. QED
  BY <1>2, <1>3, <1>4 DEF Complete, u

\* Events lost to all are owed to nobody.
LEMMA LoseCompletes ==
  ASSUME NEW n \in Nat, NEW m \in Nat, n < m, NEW out \in SUBSET (1 .. n),
         NEW s \in Seq(1 .. n), Complete(n, out, s)
  PROVE  Complete(m, out \cup (n + 1) .. m, s)
<1> SUFFICES ASSUME s # <<>> PROVE Complete(m, out \cup (n + 1) .. m, s)
  BY DEF Complete
<1>1. s[1] \in 1 .. n
  OBVIOUS
<1>2. s[1] .. m \ (out \cup (n + 1) .. m) = s[1] .. n \ out
  BY <1>1
<1> QED
  BY <1>2 DEF Complete

\* Every connection was sent what it was owed, and only those are that events reach.
Delivered ==
  /\ Passed \in Nat /\ lost \subseteq 1 .. Passed
  /\ heard \in [Conn -> Seq(1 .. Passed)]
  /\ \A c \in Conn : /\ heard[c] # <<>> => c \in Reached
                     /\ Complete(Passed, lost, heard[c])

\* Send appends the next number to the lists of those it reaches, and no other list is
\* growing.
LEMMA PromiseDelivers == Delivered /\ [Promise!Next]_(Promise!vars) => Delivered'
<1> SUFFICES ASSUME Delivered, [Promise!Next]_(Promise!vars) PROVE Delivered'
  OBVIOUS
<1>1. ASSUME NEW d \in Conn, Promise!Join(d) PROVE Delivered'
  BY <1>1 DEF Promise!Join, Delivered, Passed
<1>2. ASSUME NEW d \in Conn, Promise!Leave(d) PROVE Delivered'
  <2>1. /\ Passed' = Passed /\ lost' = lost /\ Reached' = Reached \ {d}
        /\ heard' = [heard EXCEPT ![d] = <<>>]
    BY <1>2 DEF Promise!Leave, Passed
  <2>2. <<>> \in Seq(1 .. Passed) /\ Complete(Passed, lost, <<>>)
    BY DEF Complete
  <2> QED
    BY <2>1, <2>2 DEF Delivered
<1>3. CASE Promise!Send
  <2>1. /\ Passed' = Passed + 1 /\ lost' = lost /\ Reached' = Reached
        /\ heard' = [c \in Conn |->
             IF c \in Reached THEN Append(heard[c], Passed + 1) ELSE heard[c]]
    BY <1>3 DEF Promise!Send, Passed
  <2>2. Passed + 1 \in Nat /\ lost \subseteq 1 .. (Passed + 1)
    BY DEF Delivered
  <2>3. \A c \in Conn :
          /\ heard'[c] \in Seq(1 .. (Passed + 1)) /\ Complete(Passed + 1, lost, heard'[c])
          /\ heard'[c] # <<>> => c \in Reached
    <3> TAKE c \in Conn
    <3>1. CASE c \in Reached
      BY <2>1, <3>1, SendCompletes DEF Delivered
    <3>2. CASE c \notin Reached
      <4>1. heard'[c] = <<>>
        BY <2>1, <3>2 DEF Delivered
      <4> QED
        BY <4>1 DEF Complete
    <3> QED
      BY <3>1, <3>2
  <2> QED
    BY <2>1, <2>2, <2>3 DEF Delivered
<1>4. CASE Promise!Lose
  <2>1. /\ Passed' \in Nat /\ Passed' > Passed /\ lost' = lost \cup (Passed + 1) .. Passed'
        /\ Reached' = Reached /\ heard' = heard
    BY <1>4 DEF Promise!Lose, Passed
  <2>2. PICK m \in Nat : m = Passed'
    BY <2>1
  <2>3. \A c \in Conn : heard[c] \in Seq(1 .. m)
    BY <2>1, <2>2, SeqGrows DEF Delivered
  <2>4. \A c \in Conn : Complete(m, lost \cup (Passed + 1) .. m, heard[c])
    BY <2>1, <2>2, LoseCompletes DEF Delivered
  <2>5. lost' \subseteq 1 .. m
    BY <2>1, <2>2 DEF Delivered
  <2> QED
    BY <2>1, <2>2, <2>3, <2>4, <2>5 DEF Delivered
<1>5. CASE UNCHANGED Promise!vars
  BY <1>5 DEF Promise!vars, Delivered, Passed
<1> QED
  BY <1>1, <1>2, <1>3, <1>4, <1>5 DEF Promise!Next

\* No connection is sent an event twice or out of order, or misses one that is sent
\* to another.
THEOREM OnceInOrderCorrect == Spec => []OnceInOrder
<1>1. Promise!Init => Delivered
  <2>1. <<>> \in Seq(1 .. 0) /\ Complete(0, {}, <<>>)
    BY DEF Complete
  <2> QED
    BY <2>1 DEF Promise!Init, Delivered, Passed
<1>2. Delivered => OnceInOrder
  BY DEF Delivered, Complete, Passed, OnceInOrder, Promise!OnceInOrder
<1>3. QED
  BY <1>1, <1>2, PromiseDelivers, ImplementsChannel, PTL DEF ChannelKept, Promise!Spec
===============================================================================
