----------------------------- MODULE ClientProofs -----------------------------
(***************************************************************************)
(* What is proved of the messenger view, for any chats, users, loads,      *)
(* toggles and bounds.                                                     *)
(***************************************************************************)
EXTENDS Client, FiniteSetTheorems, TLAPS

-------------------------------------------------------------------------------
\* The openings.

FlowType == [op : {"dm", "newChat", "invite", "byName"}, chat : Chat,
             stage : {"call", "load", "loaded"}, heard : BOOLEAN, snap : SUBSET Chat]

\* What a list is about to be has the chat that will be opened with it.
FlowOK(f) ==
  /\ f \in FlowType
  /\ f.stage = "load" => f.chat \in mine
  /\ f.stage = "loaded" => f.chat \in f.snap /\ f.snap \subseteq mine

PollType == [stage : {"none", "load", "loaded"}, snap : SUBSET Chat, since : SUBSET Chat]

\* What a load that opens nothing was answered, and what was made since, is all there is.
PollOK(q) ==
  /\ q \in PollType
  /\ IF q.stage = "loaded" THEN q.snap \cup q.since = mine ELSE q.since = {}

PollsOK ==
  /\ polls \in [Poll -> PollType]
  /\ \A p \in Poll : PollOK(polls[p])
  /\ part # "openings" => \A p \in Poll : polls[p] = NoPoll

OpenInv ==
  /\ OpenedIsListed
  /\ mine \subseteq Chat
  /\ part # "openings" => flows = {}
  /\ part = "openings" => listed \cup outrun \subseteq mine
  /\ \A f \in flows : FlowOK(f)
  /\ PollsOK

\* The stages of one opening.
LEMMA FlowSteps ==
  ASSUME NEW f, FlowOK(f), mine \subseteq Chat
  PROVE  /\ FlowOK([f EXCEPT !.heard = FALSE])
         /\ f.chat \in mine => FlowOK([f EXCEPT !.stage = "load"])
         /\ f.chat \in mine => FlowOK([f EXCEPT !.stage = "loaded", !.snap = mine])
BY DEF FlowOK, FlowType

\* Where the openings stay what they are, and the list keeps the active chat.
LEMMA OpenStays ==
  ASSUME OpenInv, UNCHANGED <<part, mine, listed, pollVars>>,
         flows = {} => flows' = {}, part = "openings" => \A f \in flows' : FlowOK(f)',
         OpenedIsListed'
  PROVE  OpenInv'
<1>1. PollsOK'
  BY DEF OpenInv, PollsOK, PollOK, pollVars
<1> QED
  BY <1>1 DEF OpenInv, pollVars

\* The same of the steps of the openings that make no chat and take no list.
LEMMA PollsStay ==
  ASSUME PollsOK, UNCHANGED <<part, mine, polls>>
  PROVE  PollsOK'
BY DEF PollsOK, PollOK

\* A layer that closes leaves the openings what they were.
LEMMA DeafFlows ==
  ASSUME OpenInv, UNCHANGED mine, NEW layers, flows' = Deaf(layers)
  PROVE  (\A f \in flows' : FlowOK(f)') /\ (flows = {} => flows' = {})
<1>1. \A f \in flows' : FlowOK(f)
  BY FlowSteps DEF Deaf, OpenInv
<1> QED
  BY <1>1 DEF FlowOK, Deaf

\* A chat that is set active is the active one.
LEMMA SetActiveSets ==
  ASSUME NEW c, SetActive(c) PROVE active' = c
BY DEF SetActive, Activate, dialogOnly

\* The messenger's layers never touch the list.
LEMMA LayersOpen ==
  ASSUME OpenInv, UNCHANGED part, NEW layers, LayersNext(layers)
  PROVE  OpenInv'
<1>1. ASSUME NEW l \in layers, Open(l) PROVE OpenInv'
  BY <1>1, OpenStays
  DEF Open, storeVars, dialogOnly, OpenedIsListed, OpenInv, FlowOK, pollVars
<1>2. ASSUME NEW l \in layers, Close(l) PROVE OpenInv'
  BY <1>2, OpenStays, DeafFlows
  DEF Close, storeVars, dialogOnly, OpenedIsListed, OpenInv, pollVars
<1>3. CASE Escape
  <2>1. /\ UNCHANGED <<mine, listed, blind, pollVars>>
        /\ active' \in {active, NoChat}
        /\ flows' = flows \/ flows' = Deaf({FirstShown})
    BY <1>3 DEF Escape, storeVars
  <2>2. OpenedIsListed'
    BY <2>1 DEF OpenedIsListed, OpenInv, pollVars
  <2>3. (\A f \in flows' : FlowOK(f)') /\ (flows = {} => flows' = {})
    <3>1. CASE flows' = flows
      BY <2>1, <3>1 DEF OpenInv, FlowOK
    <3> QED
      BY <2>1, <3>1, DeafFlows
  <2> QED
    BY <2>1, <2>2, <2>3, OpenStays
<1>4. ASSUME NEW c \in Chat, handleSelectChat(c) PROVE OpenInv'
  <2>1. /\ UNCHANGED <<mine, listed, blind, pollVars, flows>>
        /\ active' = c /\ c \in listed
    BY <1>4, SetActiveSets DEF handleSelectChat, storeVars
  <2> QED
    BY <2>1, OpenStays DEF OpenedIsListed, OpenInv, FlowOK, pollVars
<1> QED
  BY <1>1, <1>2, <1>3, <1>4 DEF LayersNext

\* A load that opens nothing asks, is answered, comes or fails.  What comes has every
\* chat but those made since, and the active chat is one that was made.
LEMMA PollsOpen ==
  ASSUME OpenInv, part = "openings", UNCHANGED part, NEW p \in Poll,
         PollAsks(p) \/ PollRead(p) \/ PollArrives(p) \/ PollFails(p)
  PROVE  OpenInv'
<1>1. /\ UNCHANGED <<mine, active, flows, blind>>
      /\ \A q \in Poll \ {p} : polls'[q] = polls[q]
      /\ DOMAIN polls' = Poll
  BY DEF PollAsks, PollRead, PollArrives, PollFails, storeVars, dialogOnly, OpenInv, PollsOK
<1>2. polls[p] \in PollType /\ PollOK(polls[p]) /\ mine \subseteq Chat
  BY DEF OpenInv, PollsOK
<1>3. PollOK(polls[p])' /\ polls' \in [Poll -> PollType]
  <2>1. CASE PollAsks(p)
    BY <1>2, <2>1, <1>1 DEF PollAsks, PollOK, PollType, OpenInv, PollsOK, NoPoll
  <2>2. CASE PollRead(p)
    <3>1. /\ polls'[p] = [polls[p] EXCEPT !.stage = "loaded", !.snap = mine]
          /\ polls[p].stage = "load"
          /\ polls' = [polls EXCEPT ![p] = [@ EXCEPT !.stage = "loaded", !.snap = mine]]
      BY <2>2 DEF PollRead, OpenInv, PollsOK
    <3>2. polls'[p].since = polls[p].since /\ polls[p].since = {}
      BY <3>1, <1>2 DEF PollOK, PollType
    <3> QED
      BY <1>2, <1>1, <3>1, <3>2 DEF PollOK, PollType, OpenInv, PollsOK
  <2>3. CASE PollArrives(p) \/ PollFails(p)
    BY <2>3, <1>1 DEF PollArrives, PollFails, PollOK, PollType, OpenInv, PollsOK, NoPoll
  <2> QED
    BY <2>1, <2>2, <2>3
<1>4. PollsOK'
  <2>1. ASSUME NEW q \in Poll PROVE PollOK(polls[q])'
    BY <1>1, <1>3 DEF PollOK, OpenInv, PollsOK
  <2> QED
    BY <1>3, <2>1 DEF PollsOK
<1>5. (\A f \in flows' : FlowOK(f)')
  BY <1>1 DEF OpenInv, FlowOK
<1>6. CASE PollArrives(p)
  <2>1. listed' \cup outrun' = mine
    BY <1>6, <1>2 DEF PollArrives, PollOK
  <2> QED
    BY <1>1, <1>4, <1>5, <2>1 DEF OpenInv, OpenedIsListed
<1>7. CASE PollAsks(p) \/ PollRead(p) \/ PollFails(p)
  <2>1. UNCHANGED <<listed, outrun>>
    BY <1>7 DEF PollAsks, PollRead, PollFails, storeVars
  <2> QED
    BY <1>1, <1>4, <1>5, <2>1 DEF OpenInv, OpenedIsListed
<1> QED
  BY <1>6, <1>7

\* A step of one opening that neither makes a chat nor takes a list.
LEMMA FlowsOpen ==
  ASSUME OpenInv, part = "openings", UNCHANGED <<part, mine, listed, active, blind, pollVars>>,
         \A f \in flows' : FlowOK(f)
  PROVE  OpenInv'
<1>1. \A f \in flows' : FlowOK(f)'
  BY DEF FlowOK
<1> QED
  BY <1>1, PollsStay DEF OpenInv, OpenedIsListed, pollVars

\* An opening asks, is answered, reads the list and has it loaded.
LEMMA OpeningsOpen ==
  ASSUME OpenInv, part = "openings", UNCHANGED part, OpeningsNext
  PROVE  OpenInv'
<1>0. PollsOK /\ \A f \in flows : FlowOK(f)
  BY DEF OpenInv
<1>1. ASSUME NEW c \in Chat, FollowChatLink(c) PROVE OpenInv'
  BY <1>1, <1>0, SetActiveSets, PollsStay
  DEF FollowChatLink, storeVars, pollVars, OpenedIsListed, OpenInv, FlowOK
<1>2. ASSUME NEW op \in {"dm", "newChat", "invite", "byName"}, NEW c \in Chat,
             Begins(Flow(op, c)), UNCHANGED <<storeVars, dialogOnly, blind, pollVars>>
      PROVE  OpenInv'
  <2>1. FlowOK(Flow(op, c))
    BY DEF FlowOK, Flow, FlowType
  <2>2. \A f \in flows' : FlowOK(f)
    BY <1>0, <1>2, <2>1 DEF Begins
  <2> QED
    BY <1>2, <2>2, FlowsOpen DEF storeVars, dialogOnly
<1>3. ASSUME NEW f \in flows, ChatMade(f) PROVE OpenInv'
  <2>1. mine' = mine \cup {f.chat} /\ UNCHANGED <<active, listed, blind, outrun>> /\ f.chat \in Chat
    BY <1>3, <1>0 DEF ChatMade, dialogOnly, FlowOK, FlowType
  <2>2. ASSUME NEW g, FlowOK(g) PROVE FlowOK(g)'
    BY <2>1, <2>2 DEF FlowOK
  <2>3. FlowOK([f EXCEPT !.stage = "load"])'
    BY <2>1, <1>0 DEF FlowOK, FlowType
  <2>4. \A g \in flows : FlowOK(g) /\ FlowOK([g EXCEPT !.heard = FALSE])
    BY FlowSteps DEF OpenInv
  <2>5. \A g \in flows' : \/ g \in flows \/ g = [f EXCEPT !.stage = "load"]
                          \/ \E h \in flows : g = [h EXCEPT !.heard = FALSE]
    BY <1>3 DEF ChatMade, Others
  <2>6. \A g \in flows' : FlowOK(g)'
    BY <2>2, <2>3, <2>4, <2>5
  <2>7. PollsOK'
    <3> DEFINE New(q) == IF q.stage = "loaded" THEN [q EXCEPT !.since = @ \cup {f.chat}] ELSE q
    <3>1. ASSUME NEW q, PollOK(q) PROVE PollOK(New(q))' /\ New(q) \in PollType
      BY <2>1, <3>1 DEF PollOK, PollType
    <3>2. polls' = [p \in Poll |-> New(polls[p])]
      BY <1>3 DEF ChatMade
    <3> HIDE DEF New
    <3> QED
      BY <1>0, <3>1, <3>2 DEF PollsOK
  <2>8. OpenedIsListed'
    BY <2>1 DEF OpenInv, OpenedIsListed
  <2> QED
    BY <2>1, <2>6, <2>7, <2>8 DEF OpenInv
<1>4. ASSUME NEW f \in flows, CallFails(f) PROVE OpenInv'
  BY <1>4, <1>0, FlowsOpen DEF CallFails, Others, storeVars, dialogOnly
<1>5. ASSUME NEW f \in flows, NameFound(f) PROVE OpenInv'
  <2>1. /\ UNCHANGED <<mine, listed, blind, pollVars>>
        /\ flows' \subseteq flows /\ (active' = active \/ active' \in listed)
    BY <1>5, SetActiveSets DEF NameFound, Others, storeVars, dialogOnly
  <2> QED
    BY <2>1, <1>0, PollsStay DEF pollVars, OpenedIsListed, OpenInv, FlowOK
<1>6. ASSUME NEW f \in flows, ListRead(f) PROVE OpenInv'
  <2>1. FlowOK([f EXCEPT !.stage = "loaded", !.snap = mine])
    BY <1>6, <1>0, FlowSteps DEF ListRead, OpenInv, FlowOK
  <2> QED
    BY <1>6, <1>0, <2>1, FlowsOpen DEF ListRead, Step, Others, storeVars, dialogOnly
<1>7. ASSUME NEW f \in flows, ListLoaded(f) PROVE OpenInv'
  <2>1. UNCHANGED <<mine, polls>> /\ flows' \subseteq flows /\ active' = f.chat
    BY <1>7, SetActiveSets DEF ListLoaded, Others
  <2>2. PollsOK' /\ (\A g \in flows' : FlowOK(g)')
    BY <2>1, <1>0, PollsStay DEF FlowOK
  <2>3. CASE f.stage = "loaded" /\ listed' = f.snap /\ outrun' = {} /\ UNCHANGED blind
    BY <1>0, <2>1, <2>2, <2>3 DEF OpenInv, OpenedIsListed, FlowOK
  <2>4. CASE UNCHANGED <<listed, outrun>> /\ blind' = (IF f.chat \in listed THEN blind ELSE f.chat)
    BY <2>1, <2>2, <2>4 DEF OpenInv, OpenedIsListed
  <2> QED
    BY <1>7, <2>3, <2>4 DEF ListLoaded
<1> QED
  <2>1. ASSUME NEW c \in Chat, openDM(c) \/ openChannelByName(c)
                              \/ \E op \in {"newChat", "invite"} : AsksFor(op, c)
        PROVE  OpenInv'
    BY <2>1, <1>2 DEF openDM, openChannelByName, AsksFor
  <2> QED
    BY <1>1, <1>3, <1>4, <1>5, <1>6, <1>7, <2>1, PollsOpen DEF OpeningsNext

\* The info dialog leaves the list only with the chat that it closes.
LEMMA InfoOpen ==
  ASSUME NEW views, InfoNext(views)
  PROVE  /\ mine' \subseteq mine
         /\ OpenedIsListed /\ UNCHANGED <<blind, outrun>> => OpenedIsListed'
<1>1. CASE OpenChannelInfo \/ CloseInfo \/ Back \/ \E v \in views : ShowView(v)
  BY <1>1 DEF OpenChannelInfo, CloseInfo, Back, ShowView, OpenedIsListed
<1>2. CASE \/ save \/ handlePromote \/ handleDemote \/ handleCreate \/ handleLeave
           \/ handleDelete \/ \E l \in Link : handleRevoke(l)
  BY <1>2 DEF save, handlePromote, handleDemote, handleCreate, handleLeave, handleDelete,
              handleRevoke, Does, OpenedIsListed
<1>3. CASE handleBack \/ \E c \in Chat : SelectChat(c) \/ RemoveChatLocal(c)
  BY <1>3 DEF handleBack, SelectChat, RemoveChatLocal, Activate, Deactivate, OpenedIsListed
<1>4. ASSUME NEW k \in calls, Loaded(k) \/ Updated(k) \/ CallFailed(k) \/ PartRefused(k)
      PROVE  UNCHANGED <<mine, listed, active>>
  BY <1>4 DEF Loaded, Updated, CallFailed, PartRefused
<1>5. ASSUME NEW k \in calls, RoleChanged(k) \/ Invited(k) \/ Revoked(k)
      PROVE  UNCHANGED <<mine, listed, active>>
  BY <1>5 DEF RoleChanged, Invited, Revoked
<1>6. ASSUME NEW k \in calls, LetGo(k)
      PROVE  mine' \subseteq mine /\ UNCHANGED <<listed, active>>
  BY <1>6 DEF LetGo
<1>7. ASSUME NEW k \in calls, Left(k) \/ ChatDeleted(k)
      PROVE  /\ mine' = mine
             /\ OpenedIsListed /\ UNCHANGED <<blind, outrun>> => OpenedIsListed'
  BY <1>7 DEF Left, ChatDeleted, Deactivate, OpenedIsListed
<1> QED
  BY <1>1, <1>2, <1>3, <1>4, <1>5, <1>6, <1>7 DEF InfoNext, OpenedIsListed

\* Every step of the view keeps the openings what they are.
LEMMA OpenStep == OpenInv /\ [Next]_vars => OpenInv'
<1> SUFFICES ASSUME OpenInv, [Next]_vars PROVE OpenInv'
  OBVIOUS
<1>1. CASE UNCHANGED vars \/ (UNCHANGED part /\ ListNext)
  BY <1>1, PollsStay
  DEF vars, ListNext, infoVars, dialogVars, pollVars, OpenInv, OpenedIsListed, FlowOK
<1>2. CASE UNCHANGED part /\ DialogNext
  <2>1. ASSUME NEW layers, LayersNext(layers) PROVE OpenInv'
    BY <1>2, <2>1, LayersOpen
  <2>2. CASE PanelNext
    BY <1>2, <2>2, OpenStays
    DEF PanelNext, OpenPanel, storeVars, dialogOnly, pollVars, OpenInv, OpenedIsListed, FlowOK
  <2>3. CASE part = "openings" /\ OpeningsNext
    BY <1>2, <2>3, OpeningsOpen
  <2>4. CASE part \in InfoParts /\ Escape
    BY <2>1, <2>4 DEF LayersNext
  <2>5. CASE part \in InfoParts /\ InfoNext({part}) /\ UNCHANGED dialogVars
    <3>1. mine' \subseteq mine /\ OpenedIsListed' /\ flows' = {}
      BY <2>5, InfoOpen DEF OpenInv, InfoParts, dialogVars, pollVars
    <3>2. part # "openings" /\ UNCHANGED polls
      BY <2>5 DEF InfoParts, dialogVars, pollVars
    <3>3. PollsOK'
      BY <1>2, <3>2 DEF OpenInv, PollsOK, PollOK, NoPoll
    <3> QED
      BY <1>2, <3>1, <3>2, <3>3 DEF OpenInv
  <2> QED
    BY <1>2, <2>1, <2>2, <2>3, <2>4, <2>5 DEF DialogNext
<1> QED
  BY <1>1, <1>2 DEF Next

\* However openings overlap and whichever list arrives last, be it an opening's own or
\* one of a poll, an event or a send, the chat on screen is one of the list, unless a
\* link or a failed load brought one that it lacks, or the list that came was answered
\* before the chat was made (openDM, handleJoin and createChat of the messenger view,
\* loadChats of useWebSocket).
THEOREM OpenedCorrect == Spec => []OpenedIsListed
<1>1. Init => OpenInv
  BY DEF Init, InfoInit, DialogsInit, OpenInv, OpenedIsListed, PollsOK, PollOK, PollType, NoPoll
<1>2. OpenInv => OpenedIsListed
  BY DEF OpenInv
<1> QED
  BY <1>1, <1>2, OpenStep, PTL DEF Spec

-------------------------------------------------------------------------------
\* The types of the socket's part.

SocketTyped ==
  /\ view \in {"off", "on"} /\ sock \in {"none", "connecting", "open", "closed"}
  /\ reconnectDelay \in Delays

FlagsTyped ==
  /\ loading \in BOOLEAN /\ leftEarly \in BOOLEAN /\ token \in BOOLEAN
  /\ intentionalClose \in BOOLEAN /\ hasConnectedBefore \in BOOLEAN
  /\ reconnectTimer \in BOOLEAN /\ pingTimer \in BOOLEAN /\ fallbackPollTimer \in BOOLEAN
  /\ presenceSetup \in BOOLEAN /\ isPresenceActive \in BOOLEAN
  /\ awayGraceTimer \in BOOLEAN /\ windowHasFocus \in BOOLEAN /\ hidden \in BOOLEAN
  /\ recent \in BOOLEAN /\ told \in {"nothing", "active", "away"}

\* What a step of this view may do to its socket.
SocketStep ==
  \/ Mount /\ UNCHANGED token
  \/ Mounted \/ onopen \/ onclose \/ Reconnect \/ onWindowFocus \/ onWindowBlur
  \/ UNCHANGED wsVars

\* Every step of the client does one of these to the socket, or leaves it alone.
LEMMA StepOfSocket == [Next]_vars => SocketStep
<1> SUFFICES ASSUME [Next]_vars PROVE SocketStep
  OBVIOUS
<1>1. CASE UNCHANGED vars \/ DialogNext
  BY <1>1 DEF vars, clientVars, DialogNext, SocketStep
<1>2. CASE ListNext
  <2>1. CASE Lifecycle
    BY <2>1 DEF Lifecycle, OpenView, ListTaken, ListArrives, ListFails, Opens, Closes, Retries,
                SocketStep
  <2>2. CASE FocusReads \/ LoseFocus
    BY <2>2 DEF FocusReads, LoseFocus, SocketStep
  <2> QED
    BY <1>2, <2>1, <2>2 DEF ListNext, SocketStep
<1> QED
  BY <1>1, <1>2 DEF Next

\* The delay doubles up to its bound.
LEMMA DelayDoubles ==
  ASSUME reconnectDelay \in Delays
  PROVE  Min({2 * reconnectDelay, 30}) \in Delays
<1>1. 2 * reconnectDelay \in {2, 4, 8, 16, 32, 60}
  BY DEF Delays
<1>2. Min({2 * reconnectDelay, 30}) =
        IF 2 * reconnectDelay =< 30 THEN 2 * reconnectDelay ELSE 30
  BY <1>1 DEF Min
<1> QED
  BY <1>1, <1>2 DEF Delays

\* The types of the socket survive each of them, whatever the rest of the step does.
LEMMA SocketTypeStep == SocketTyped /\ SocketStep => SocketTyped'
<1> SUFFICES ASSUME SocketTyped, SocketStep PROVE SocketTyped'
  OBVIOUS
<1> USE DEF SocketTyped, socketVars, linkVars, presenceVars, wsVars
<1>1. CASE Mount
  BY <1>1 DEF Mount, Delays
<1>2. CASE Mounted
  BY <1>2 DEF Mounted, connect
<1>3. CASE onopen
  BY <1>3 DEF onopen, Delays
<1>4. CASE onclose
  BY <1>4 DEF onclose
<1>5. CASE Reconnect
  BY <1>5, DelayDoubles DEF Reconnect, connect
<1>6. CASE onWindowFocus \/ onWindowBlur
  BY <1>6 DEF onWindowFocus, onWindowBlur
<1> QED
  BY <1>1, <1>2, <1>3, <1>4, <1>5, <1>6 DEF SocketStep

\* A step that leaves the presence alone keeps its types.
LEMMA PresenceFlagsKept ==
  ASSUME FlagsTyped, UNCHANGED presenceVars
  PROVE  /\ presenceSetup' \in BOOLEAN /\ isPresenceActive' \in BOOLEAN
         /\ awayGraceTimer' \in BOOLEAN /\ windowHasFocus' \in BOOLEAN
         /\ hidden' \in BOOLEAN /\ recent' \in BOOLEAN
         /\ told' \in {"nothing", "active", "away"}
BY Zenon DEF FlagsTyped, presenceVars

\* So do those of its subscriptions, and of the view.
LEMMA FlagsTypeStep == FlagsTyped /\ SocketStep => FlagsTyped'
<1> SUFFICES ASSUME FlagsTyped, SocketStep PROVE FlagsTyped'
  OBVIOUS
<1> USE DEF FlagsTyped, socketVars, linkVars, presenceVars, wsVars
<1>1. CASE Mount /\ UNCHANGED token
  BY <1>1 DEF Mount
<1>2. CASE Mounted
  <2>1. intentionalClose' \in BOOLEAN
    BY <1>2 DEF Mounted, connect
  <2>2. loading' \in BOOLEAN /\ leftEarly' \in BOOLEAN /\ token' \in BOOLEAN
    BY <1>2, Zenon DEF Mounted
  <2>3. hasConnectedBefore' \in BOOLEAN /\ reconnectTimer' \in BOOLEAN
        /\ pingTimer' \in BOOLEAN /\ fallbackPollTimer' \in BOOLEAN
    BY <1>2, Zenon DEF Mounted
  <2>4. UNCHANGED presenceVars
    BY <1>2 DEF Mounted
  <2> QED
    BY <2>1, <2>2, <2>3, <2>4, PresenceFlagsKept, Zenon
<1>3. CASE onopen
  <2>1. isPresenceActive' \in BOOLEAN /\ told' \in {"nothing", "active", "away"}
    BY <1>3 DEF onopen, Status
  <2> QED
    BY <1>3, <2>1 DEF onopen
<1>4. CASE onclose
  <2>1. intentionalClose' \in BOOLEAN
    BY <1>4, Zenon DEF onclose
  <2>2. loading' \in BOOLEAN /\ leftEarly' \in BOOLEAN /\ token' \in BOOLEAN
    BY <1>4, Zenon DEF onclose
  <2>3. hasConnectedBefore' \in BOOLEAN /\ reconnectTimer' \in BOOLEAN
        /\ pingTimer' \in BOOLEAN /\ fallbackPollTimer' \in BOOLEAN
    BY <1>4, Zenon DEF onclose
  <2>4. UNCHANGED presenceVars
    BY <1>4 DEF onclose
  <2> QED
    BY <2>1, <2>2, <2>3, <2>4, PresenceFlagsKept, Zenon
<1>5. CASE Reconnect
  <2>1. intentionalClose' \in BOOLEAN
    BY <1>5 DEF Reconnect, connect
  <2>2. loading' \in BOOLEAN /\ leftEarly' \in BOOLEAN /\ token' \in BOOLEAN
    BY <1>5, Zenon DEF Reconnect
  <2>3. hasConnectedBefore' \in BOOLEAN /\ reconnectTimer' \in BOOLEAN
        /\ pingTimer' \in BOOLEAN /\ fallbackPollTimer' \in BOOLEAN
    BY <1>5, Zenon DEF Reconnect
  <2>4. UNCHANGED presenceVars
    BY <1>5 DEF Reconnect
  <2> QED
    BY <2>1, <2>2, <2>3, <2>4, PresenceFlagsKept, Zenon
<1>6. CASE onWindowFocus
  <2>1. isPresenceActive' \in BOOLEAN /\ told' \in {"nothing", "active", "away"}
    BY <1>6 DEF onWindowFocus, BecomesActive, sendPresenceUpdate
  <2> QED
    BY <1>6, <2>1 DEF onWindowFocus
<1>7. CASE onWindowBlur
  <2>1. awayGraceTimer' \in BOOLEAN
    BY <1>7, Zenon DEF onWindowBlur
  <2> QED
    BY <1>7, <2>1, ZenonT(30) DEF onWindowBlur
<1> QED
  BY <1>1, <1>2, <1>3, <1>4, <1>5, <1>6, <1>7 DEF SocketStep

-------------------------------------------------------------------------------
\* The types of the list's part.

ChatLists == UNION {[D -> Entry] : D \in SUBSET Chat}
AfterType == {Nothing, [op |-> "mount", chat |-> NoChat]}
             \cup [op : {"open", "subscribe"}, chat : Chat]
LoadType == [state : {"idle", "asked", "answered"}, list : ChatLists,
             since : SUBSET Chat, after : AfterType]
ToggleType == {q \in [chat : Chat \cup {NoChat}, on : BOOLEAN, done : BOOLEAN, live : BOOLEAN] :
                 q.done => q.chat # NoChat}
EventType == [type : Membership \cup {"message"}, chat : Chat]

LoadsTyped == loads \in [Load -> LoadType]

WireTyped == wire \in Seq(EventType) /\ Len(wire) <= MaxWire

ServerTyped ==
  /\ member \in [Chat -> {"none", "adding", "in", "out"}]
  /\ news \in [Chat -> 0..MaxNews]
  /\ pins \subseteq Chat /\ authed \in BOOLEAN /\ subs \subseteq Chat

StoreTyped ==
  /\ chats \in ChatLists
  /\ activeChatId \in Chat \cup {NoChat} /\ isNearBottom \in BOOLEAN
  /\ toggles \in [Toggle -> ToggleType]
  /\ leaving \subseteq Chat /\ stale \subseteq Chat
  /\ marks \in [Chat -> {"none", "asked", "overtaken"}]
  /\ pendingMarkReadChatId \in Chat \cup {NoChat}

ListTyped == LoadsTyped /\ WireTyped /\ ServerTyped /\ StoreTyped

\* The idle records are records of their type.
LEMMA IdleType == Idle \in LoadType /\ NoToggle \in ToggleType
<1>1. <<>> \in [{} -> Entry]
  OBVIOUS
<1>2. <<>> \in ChatLists
  BY <1>1 DEF ChatLists
<1> QED
  BY <1>2 DEF Idle, LoadType, AfterType, Nothing, NoToggle, ToggleType

\* A call of loadChats takes one free slot.
LEMMA AskTakes ==
  ASSUME NEW after, Ask(after), LoadsTyped
  PROVE  \E l \in Load : loads[l] = Idle /\ loads' = [loads EXCEPT ![l] = Asked(after)]
<1>1. Slot(loads, Idle) \in Free(loads, Idle)
  BY Zenon DEF Ask, Slot
<1> QED
  BY <1>1 DEF Ask, Free, LoadsTyped

\* A load that has just been asked is a load.
LEMMA AskedType ==
  ASSUME NEW after \in AfterType PROVE Asked(after) \in LoadType
BY IdleType DEF Asked, LoadType, Idle

\* `Ask` puts such a load in a free place.
LEMMA AskTyped ==
  ASSUME NEW after \in AfterType, Ask(after), LoadsTyped PROVE LoadsTyped'
BY AskTakes, AskedType DEF LoadsTyped

\* A change at the server leaves the calls what they were.
LEMMA ChangedTyped ==
  ASSUME NEW c \in Chat, Changed(c), LoadsTyped
  PROVE  LoadsTyped'
BY DEF Changed, LoadsTyped, LoadType

\* A list that is changed, or loses a chat, is a list.
LEMMA ListsTyped ==
  ASSUME NEW list \in ChatLists, NEW c
  PROVE  /\ NoUnread(list, c) \in ChatLists
         /\ [d \in DOMAIN list \ {c} |-> list[d]] \in ChatLists
         /\ c \in DOMAIN list => /\ [list EXCEPT ![c].pinned = ~@] \in ChatLists
                                 /\ [list EXCEPT ![c].unread = @ + 1] \in ChatLists
         /\ DOMAIN list \subseteq Chat /\ \A d \in DOMAIN list : list[d] \in Entry
<1>1. PICK D \in SUBSET Chat : list \in [D -> Entry]
  BY DEF ChatLists
<1>2. \A f, E : E \in SUBSET Chat /\ f \in [E -> Entry] => f \in ChatLists
  BY DEF ChatLists
<1>3. [d \in DOMAIN list \ {c} |-> list[d]] \in [D \ {c} -> Entry]
  BY <1>1
<1>4. ASSUME c \in D
      PROVE  /\ [list EXCEPT ![c].unread = 0] \in [D -> Entry]
             /\ [list EXCEPT ![c].pinned = ~@] \in [D -> Entry]
             /\ [list EXCEPT ![c].unread = @ + 1] \in [D -> Entry]
  <2>1. list[c] \in Entry
    BY <1>1, <1>4
  <2>2. (~list[c].pinned) \in BOOLEAN
    OBVIOUS
  <2>3. [list[c] EXCEPT !.pinned = ~@] \in Entry
    BY <2>1, <2>2 DEF Entry
  <2>4. [list[c] EXCEPT !.unread = 0] \in Entry /\ [list[c] EXCEPT !.unread = @ + 1] \in Entry
    BY <2>1 DEF Entry
  <2> QED
    BY <1>1, <1>4, <2>3, <2>4
<1>5. NoUnread(list, c) \in ChatLists
  BY <1>1, <1>2, <1>4 DEF NoUnread
<1> QED
  BY <1>1, <1>2, <1>3, <1>4, <1>5

\* An event that is sent, or handled, is one of the list's.
LEMMA PublishTyped ==
  ASSUME NEW type \in Membership \cup {"message"}, NEW c \in Chat, Publish(type, c), WireTyped
  PROVE  WireTyped'
<1>1. [type |-> type, chat |-> c] \in EventType
  BY DEF EventType
<1> QED
  BY <1>1, ListAssumption DEF Publish, WireTyped

\* The event taken from the wire has the type its handler asked for, and leaves a wire behind.
LEMMA ReceivedTyped ==
  ASSUME NEW type, Received(type), WireTyped
  PROVE  /\ Head(wire) \in EventType /\ Head(wire).type = type /\ Head(wire).chat \in Chat
         /\ wire' = Tail(wire) /\ Len(wire) > 0 /\ WireTyped'
<1>1. Head(wire) \in EventType /\ Tail(wire) \in Seq(EventType) /\ Len(wire) > 0
      /\ Len(Tail(wire)) = Len(wire) - 1
  BY DEF Received, WireTyped
<1> QED
  BY <1>1, ListAssumption DEF Received, WireTyped, EventType

\* A call that is over, or answered, is of the type.
LEMMA EndsTyped ==
  ASSUME NEW l, loads' = [loads EXCEPT ![l] = Idle], LoadsTyped PROVE LoadsTyped'
BY IdleType DEF LoadsTyped

\* The answer to a load is a list of chats the user is in.
LEMMA AnswerTyped ==
  ASSUME NEW l \in Load, Answer(l), LoadsTyped, ServerTyped PROVE LoadsTyped'
<1> DEFINE list == [c \in Members |-> [unread |-> news[c], pinned |-> c \in pins]]
           q == [loads[l] EXCEPT !.state = "answered", !.list = list, !.since = OnWire({"message"})]
<1>1. \A c \in Members : [unread |-> news[c], pinned |-> c \in pins] \in Entry
  <2> TAKE c \in Members
  <2>2. news[c] \in Nat
    BY ListAssumption DEF ServerTyped, Members
  <2>3. PICK on \in BOOLEAN : on <=> c \in pins
    OBVIOUS
  <2>4. [unread |-> news[c], pinned |-> on] \in Entry
    BY <2>2, <2>3 DEF Entry
  <2> QED
    BY <2>3, <2>4, Zenon
<1>2. list \in [Members -> Entry]
  BY <1>1
<1>3. list \in ChatLists
  BY <1>2 DEF ChatLists, Members
<1>4. loads[l] \in LoadType /\ OnWire({"message"}) \in SUBSET Chat
  BY DEF LoadsTyped, OnWire
<1> HIDE DEF list
<1>5. q \in LoadType
  BY <1>3, <1>4 DEF LoadType
<1>6. loads' = [loads EXCEPT ![l] = q]
  BY Zenon DEF Answer, list
<1> HIDE DEF q
<1> QED
  BY <1>5, <1>6 DEF LoadsTyped

\* So is the load that follows the creation of a chat.
LEMMA CreateOwnTyped ==
  ASSUME NEW c \in Chat, CreateOwn(c), LoadsTyped PROVE LoadsTyped'
<1>1. [op |-> "open", chat |-> c] \in AfterType
  BY DEF AfterType
<1>2. Asked([op |-> "open", chat |-> c]) \in LoadType
  BY <1>1, AskedType
<1>3. \A q \in LoadType : [q EXCEPT !.since = @ \cup {c}] \in LoadType
  BY DEF LoadType
<1> QED
  BY <1>2, <1>3 DEF CreateOwn, LoadsTyped

\* What comes after a load: the chat is subscribed to, or made active.
LEMMA AfterTyped ==
  ASSUME NEW after \in AfterType, After(after), ServerTyped, StoreTyped
  PROVE  /\ subs' \subseteq Chat /\ activeChatId' \in Chat \cup {NoChat}
         /\ marks' \in [Chat -> {"none", "asked", "overtaken"}]
<1>1. after.op \in {"open", "subscribe"} => after.chat \in Chat
  BY DEF AfterType, Nothing
<1>2. CASE after.op = "open"
  BY <1>1, <1>2 DEF After, AskMark, ServerTyped, StoreTyped
<1>3. CASE after.op # "open"
  BY <1>1, <1>3 DEF After, ServerTyped, StoreTyped
<1> QED
  BY <1>2, <1>3

\* Making a chat active clears one badge and keeps the list a list.
LEMMA OpenedTyped ==
  ASSUME NEW list \in ChatLists, NEW after PROVE Opened(list, after) \in ChatLists
BY ListsTyped DEF Opened

\* The part of a chat's toggles.
LEMMA TogglesTyped ==
  ASSUME NEW q \in ToggleType
  PROVE  /\ [q EXCEPT !.live = FALSE] \in ToggleType
         /\ q.chat # NoChat => [q EXCEPT !.done = TRUE] \in ToggleType
BY DEF ToggleType

\* `removeChatLocal` keeps the types of list, active chat and toggles.
LEMMA RemovedTyped ==
  ASSUME NEW c, removeChatLocal(c), StoreTyped
  PROVE  /\ chats' \in ChatLists /\ activeChatId' \in Chat \cup {NoChat}
         /\ toggles' \in [Toggle -> ToggleType]
<1>1. chats' \in ChatLists
  BY ListsTyped DEF removeChatLocal, StoreTyped
<1>2. toggles' \in [Toggle -> ToggleType]
  BY TogglesTyped DEF removeChatLocal, StoreTyped
<1> QED
  BY <1>1, <1>2 DEF removeChatLocal, StoreTyped

\* What the steps do to the list's part: the server's own, the answers, the events,
\* and those of the user.
LEMMA ServerTypeStep ==
  ASSUME ListTyped,
         \/ Auth
         \/ \E c \in Chat : \/ Created(c) \/ Added(c) \/ Deleted(c) \/ Posted(c) \/ Unposted(c)
                            \/ Marked(c) \/ MarkFails(c) \/ Leave(c) \/ CreateOwn(c)
  PROVE  ListTyped'
<1> USE DEF ListTyped
<1>1. CASE Auth
  BY <1>1 DEF Auth, LoadsTyped, WireTyped, ServerTyped, StoreTyped
<1>2. ASSUME NEW c \in Chat, Created(c) PROVE ListTyped'
  <2>1. WireTyped'
    BY <1>2, PublishTyped DEF Created, Membership
  <2> QED
    BY <1>2, <2>1 DEF Created, LoadsTyped, ServerTyped, StoreTyped
<1>3. ASSUME NEW c \in Chat, Added(c) PROVE ListTyped'
  <2>1. LoadsTyped'
    BY <1>3, ChangedTyped DEF Added
  <2> QED
    BY <1>3, <2>1 DEF Added, WireTyped, ServerTyped, StoreTyped
<1>4. ASSUME NEW c \in Chat, Deleted(c) PROVE ListTyped'
  <2>1. LoadsTyped' /\ WireTyped'
    BY <1>4, ChangedTyped, PublishTyped DEF Deleted, Membership
  <2> QED
    BY <1>4, <2>1 DEF Deleted, ServerTyped, StoreTyped
<1>5. ASSUME NEW c \in Chat, Posted(c) PROVE ListTyped'
  <2>1. LoadsTyped' /\ WireTyped'
    BY <1>5, ChangedTyped, PublishTyped DEF Posted
  <2>2. ServerTyped'
    BY <1>5, ListAssumption DEF Posted, ServerTyped
  <2> QED
    BY <1>5, <2>1, <2>2 DEF Posted, StoreTyped
<1>6. ASSUME NEW c \in Chat, Marked(c) PROVE ListTyped'
  <2>1. LoadsTyped'
    BY <1>6, ChangedTyped DEF Marked
  <2>2. ServerTyped'
    BY <1>6, ListAssumption DEF Marked, ServerTyped
  <2> QED
    BY <1>6, <2>1, <2>2 DEF Marked, WireTyped, StoreTyped
<1>7. ASSUME NEW c \in Chat, MarkFails(c) PROVE ListTyped'
  BY <1>7 DEF MarkFails, LoadsTyped, WireTyped, serverVars, ServerTyped, StoreTyped
<1>8. ASSUME NEW c \in Chat, Leave(c) PROVE ListTyped'
  <2>1. LoadsTyped' /\ WireTyped'
    BY <1>8, ChangedTyped, PublishTyped DEF Leave, Membership
  <2> QED
    BY <1>8, <2>1 DEF Leave, ServerTyped, StoreTyped
<1>9. ASSUME NEW c \in Chat, CreateOwn(c) PROVE ListTyped'
  <2>1. LoadsTyped'
    BY <1>9, CreateOwnTyped
  <2>2. WireTyped'
    BY <1>9, PublishTyped DEF CreateOwn, Membership
  <2> QED
    BY <1>9, <2>1, <2>2 DEF CreateOwn, ServerTyped, StoreTyped
<1>10. ASSUME NEW c \in Chat, Unposted(c) PROVE ListTyped'
  <2>1. LoadsTyped'
    BY <1>10, ChangedTyped DEF Unposted
  <2>2. PICK left \in {news[c] - 1, 0} : news' = [news EXCEPT ![c] = left]
    BY <1>10 DEF Unposted
  <2>3. left \in 0..MaxNews
    BY <1>10, ListAssumption DEF Unposted, ServerTyped
  <2>4. ServerTyped'
    BY <1>10, <2>2, <2>3 DEF Unposted, ServerTyped
  <2> QED
    BY <1>10, <2>1, <2>4 DEF Unposted, WireTyped, StoreTyped
<1> QED
  BY <1>1, <1>2, <1>3, <1>4, <1>5, <1>6, <1>7, <1>8, <1>9, <1>10

\* Types over the answer of a load and over its arrival.
LEMMA AnswersTypeStep ==
  ASSUME ListTyped, NEW l \in Load, Answer(l) \/ LoadArrives(l) \/ LoadFails(l)
  PROVE  ListTyped'
<1> USE DEF ListTyped
<1>0. loads[l] \in LoadType
  BY DEF LoadsTyped
<1>1. loads[l].list \in ChatLists /\ loads[l].after \in AfterType /\ loads[l].since \subseteq Chat
  BY <1>0 DEF LoadType
<1>2. CASE Answer(l)
  BY <1>2, AnswerTyped DEF Answer, serverVars, WireTyped, ServerTyped, StoreTyped
<1>3. CASE LoadArrives(l)
  <2>1. LoadsTyped'
    BY <1>3, EndsTyped DEF LoadArrives
  <2>2. chats' \in ChatLists
    BY <1>1, <1>3, OpenedTyped DEF LoadArrives
  <2>3. toggles' \in [Toggle -> ToggleType]
    BY <1>3, TogglesTyped DEF LoadArrives, StoreTyped
  <2>4. /\ subs' \subseteq Chat /\ activeChatId' \in Chat \cup {NoChat}
        /\ marks' \in [Chat -> {"none", "asked", "overtaken"}]
    BY <1>1, <1>3, AfterTyped DEF LoadArrives
  <2>5. stale' \subseteq Chat
    BY <1>1, <1>3 DEF LoadArrives
  <2>6. UNCHANGED <<member, news, pins, authed, wire, isNearBottom, leaving,
                    pendingMarkReadChatId>>
    BY <1>3 DEF LoadArrives
  <2> QED
    BY <2>1, <2>2, <2>3, <2>4, <2>5, <2>6 DEF WireTyped, ServerTyped, StoreTyped
<1>4. CASE LoadFails(l)
  <2>1. LoadsTyped'
    BY <1>4, EndsTyped DEF LoadFails
  <2>2. chats' \in ChatLists
    BY <1>4, OpenedTyped DEF LoadFails, StoreTyped
  <2>3. /\ subs' \subseteq Chat /\ activeChatId' \in Chat \cup {NoChat}
        /\ marks' \in [Chat -> {"none", "asked", "overtaken"}]
    BY <1>1, <1>4, AfterTyped DEF LoadFails
  <2>4. stale' \subseteq Chat
    BY <1>4 DEF LoadFails, StoreTyped
  <2>5. UNCHANGED <<member, news, pins, authed, wire, isNearBottom, toggles, leaving,
                    pendingMarkReadChatId>>
    BY <1>4 DEF LoadFails
  <2> QED
    BY <2>1, <2>2, <2>3, <2>4, <2>5 DEF WireTyped, ServerTyped, StoreTyped
<1> QED
  BY <1>2, <1>3, <1>4

\* Types over the handlers of the socket events that change the list.
LEMMA EventsTypeStep ==
  ASSUME ListTyped, HandleCreated \/ HandleRemoved \/ HandleMessage
  PROVE  ListTyped'
<1> USE DEF ListTyped
<1>1. CASE HandleCreated
  <2>1. WireTyped' /\ Head(wire).chat \in Chat
    BY <1>1, ReceivedTyped DEF HandleCreated
  <2>2. [op |-> "subscribe", chat |-> Head(wire).chat] \in AfterType
    BY <2>1 DEF AfterType
  <2>3. LoadsTyped'
    BY <1>1, <2>2, AskTyped DEF HandleCreated
  <2> QED
    BY <1>1, <2>1, <2>3 DEF HandleCreated, serverVars, ServerTyped, StoreTyped
<1>2. CASE HandleRemoved
  <2>1. WireTyped'
    BY <1>2, ReceivedTyped DEF HandleRemoved
  <2> QED
    BY <1>2, <2>1, RemovedTyped DEF HandleRemoved, serverVars, LoadsTyped, ServerTyped, StoreTyped
<1>3. CASE HandleMessage
  <2>1. WireTyped' /\ Head(wire).chat \in Chat
    BY <1>3, ReceivedTyped DEF HandleMessage
  <2>2. chats' \in ChatLists
    <3> DEFINE c == Head(wire).chat
    <3>1. \/ chats' = chats
          \/ c \in DOMAIN chats /\ chats' = [chats EXCEPT ![c].unread = @ + 1]
      BY <1>3, Zenon DEF HandleMessage
    <3>2. chats \in ChatLists
      BY DEF StoreTyped
    <3> HIDE DEF c
    <3> QED
      BY <3>1, <3>2, ListsTyped, Zenon
  <2>3. pendingMarkReadChatId' \in Chat \cup {NoChat} /\ stale' \subseteq Chat
    BY <1>3, <2>1 DEF HandleMessage, StoreTyped
  <2> QED
    BY <1>3, <2>1, <2>2, <2>3 DEF HandleMessage, serverVars, LoadsTyped, ServerTyped, StoreTyped
<1> QED
  BY <1>1, <1>2, <1>3

\* What is open is read.
LEMMA ReadTyped ==
  ASSUME NEW near, ReadActive(near), StoreTyped
  PROVE  chats' \in ChatLists /\ marks' \in [Chat -> {"none", "asked", "overtaken"}]
<1>1. NoUnread(chats, activeChatId) \in ChatLists
  BY ListsTyped DEF StoreTyped
<1> QED
  BY <1>1 DEF ReadActive, AskMark, StoreTyped

\* Types over what reads a chat: opening it, its scroll, the focus and the timer.
LEMMA ReadingTypeStep ==
  ASSUME ListTyped,
         \/ markReadTimer \/ onMsgListScroll \/ OnFocus \/ SendLoads
         \/ \E c \in DOMAIN chats \cup {NoChat} : setActiveChat(c)
  PROVE  ListTyped'
<1> USE DEF ListTyped
<1>1. CASE markReadTimer
  BY <1>1 DEF markReadTimer, AskMark, serverVars, LoadsTyped, WireTyped, ServerTyped, StoreTyped
<1>2. CASE onMsgListScroll
  BY <1>2, ReadTyped DEF onMsgListScroll, serverVars, LoadsTyped, WireTyped, ServerTyped, StoreTyped
<1>3. CASE OnFocus
  BY <1>3, ReadTyped DEF OnFocus, serverVars, LoadsTyped, WireTyped, ServerTyped, StoreTyped
<1>4. CASE SendLoads
  <2>1. LoadsTyped'
    BY <1>4, AskTyped DEF SendLoads, AfterType
  <2> QED
    BY <1>4, <2>1 DEF SendLoads, serverVars, WireTyped, ServerTyped, StoreTyped
<1>5. ASSUME NEW c \in DOMAIN chats \cup {NoChat}, setActiveChat(c) PROVE ListTyped'
  <2>1. c \in Chat \cup {NoChat}
    BY ListsTyped DEF StoreTyped
  <2>2. chats' \in ChatLists
    BY <1>5, OpenedTyped DEF setActiveChat, StoreTyped
  <2>3. marks' \in [Chat -> {"none", "asked", "overtaken"}]
    BY <1>5 DEF setActiveChat, AskMark, StoreTyped
  <2> QED
    BY <1>5, <2>1, <2>2, <2>3
    DEF setActiveChat, serverVars, LoadsTyped, WireTyped, ServerTyped, StoreTyped
<1> QED
  BY <1>1, <1>2, <1>3, <1>4, <1>5

\* Types over leaving a chat and over the toggles.
LEMMA UserTypeStep ==
  ASSUME ListTyped,
         \/ \E c \in Chat : LeaveAnswered(c) \/ AskToggle(c)
         \/ \E t \in Toggle : Toggled(t) \/ ToggleAnswered(t) \/ ToggleFails(t)
  PROVE  ListTyped'
<1> USE DEF ListTyped
<1>1. ASSUME NEW c \in Chat, LeaveAnswered(c) PROVE ListTyped'
  BY <1>1, RemovedTyped
  DEF LeaveAnswered, serverVars, LoadsTyped, WireTyped, ServerTyped, StoreTyped
<1>2. ASSUME NEW c \in Chat, AskToggle(c) PROVE ListTyped'
  <2> DEFINE q == [chat |-> c, on |-> ~chats[c].pinned, done |-> FALSE, live |-> TRUE]
  <2>1. (~chats[c].pinned) \in BOOLEAN
    OBVIOUS
  <2>2. q \in ToggleType
    BY <2>1 DEF ToggleType
  <2>3. toggles' = [toggles EXCEPT ![Slot(toggles, NoToggle)] = q]
    BY <1>2 DEF AskToggle
  <2> HIDE DEF q
  <2>4. toggles' \in [Toggle -> ToggleType]
    BY <2>2, <2>3 DEF StoreTyped
  <2> QED
    BY <1>2, <2>4 DEF AskToggle, serverVars, LoadsTyped, WireTyped, ServerTyped, StoreTyped
<1>3. ASSUME NEW t \in Toggle, Toggled(t) PROVE ListTyped'
  <2>1. toggles[t] \in ToggleType /\ toggles[t].chat \in Chat
    BY <1>3 DEF Toggled, StoreTyped, ToggleType
  <2>2. LoadsTyped'
    BY <1>3, <2>1, ChangedTyped DEF Toggled
  <2>3. toggles' \in [Toggle -> ToggleType]
    BY <1>3, <2>1, TogglesTyped DEF Toggled, StoreTyped
  <2>4. pins' \subseteq Chat
    BY <1>3, <2>1 DEF Toggled, ServerTyped
  <2> QED
    BY <1>3, <2>2, <2>3, <2>4 DEF Toggled, WireTyped, ServerTyped, StoreTyped
<1>4. ASSUME NEW t \in Toggle, ToggleAnswered(t) PROVE ListTyped'
  <2>1. toggles[t].chat \in Chat
    BY <1>4 DEF ToggleAnswered, StoreTyped, ToggleType
  <2>2. chats' \in ChatLists
    <3>1. CASE toggles[t].chat \in DOMAIN chats
      <4> DEFINE c == toggles[t].chat
      <4>1. chats' = chats \/ chats' = [chats EXCEPT ![c].pinned = ~@]
        BY <1>4, Zenon DEF ToggleAnswered
      <4> HIDE DEF c
      <4>2. c \in DOMAIN chats
        BY <3>1 DEF c
      <4>3. chats \in ChatLists
        BY DEF StoreTyped
      <4>4. [chats EXCEPT ![c].pinned = ~@] \in ChatLists
        BY <4>2, <4>3, ListsTyped
      <4> QED
        BY <4>1, <4>3, <4>4
    <3>2. CASE toggles[t].chat \notin DOMAIN chats
      <4>1. PICK D \in SUBSET Chat : chats \in [D -> Entry]
        BY DEF StoreTyped, ChatLists
      <4>2. chats' = chats
        BY <1>4, <3>2, <4>1 DEF ToggleAnswered
      <4> QED
        BY <4>2 DEF StoreTyped
    <3> QED
      BY <3>1, <3>2
  <2>3. toggles' \in [Toggle -> ToggleType]
    BY <1>4, IdleType DEF ToggleAnswered, StoreTyped
  <2>4. stale' \subseteq Chat
    BY <1>4, <2>1 DEF ToggleAnswered, StoreTyped
  <2> QED
    BY <1>4, <2>2, <2>3, <2>4
    DEF ToggleAnswered, serverVars, LoadsTyped, WireTyped, ServerTyped, StoreTyped
<1>5. ASSUME NEW t \in Toggle, ToggleFails(t) PROVE ListTyped'
  <2>1. toggles[t].chat \in Chat
    BY <1>5 DEF ToggleFails, StoreTyped, ToggleType
  <2>2. stale' \subseteq Chat
    BY <1>5, <2>1 DEF ToggleFails, StoreTyped
  <2> QED
    BY <1>5, <2>2, IdleType
    DEF ToggleFails, serverVars, LoadsTyped, WireTyped, ServerTyped, StoreTyped
<1> QED
  BY <1>1, <1>2, <1>3, <1>4, <1>5

\* Types over the steps of view and socket that load the list again.
LEMMA LinkTypeStep ==
  ASSUME ListTyped, OpenView \/ OnOpen \/ OnClose \/ PollTick
  PROVE  ListTyped'
<1> USE DEF ListTyped
<1>1. CASE OpenView
  <2>1. LoadsTyped'
    BY <1>1, AskTyped DEF OpenView, AfterType
  <2> QED
    BY <1>1, <2>1 DEF OpenView, serverVars, WireTyped, ServerTyped, StoreTyped
<1>2. CASE OnOpen
  <2>1. LoadsTyped'
    BY <1>2, AskTyped DEF OnOpen, AfterType, LoadsTyped
  <2>2. DOMAIN chats \subseteq Chat
    BY ListsTyped DEF StoreTyped
  <2> QED
    BY <1>2, <2>1, <2>2 DEF OnOpen, WireTyped, ServerTyped, StoreTyped
<1>3. CASE OnClose
  <2>1. <<>> \in Seq(EventType) /\ Len(<<>>) = 0
    OBVIOUS
  <2>2. WireTyped'
    BY <1>3, <2>1, ListAssumption DEF OnClose, WireTyped
  <2> QED
    BY <1>3, <2>2 DEF OnClose, OnWire, LoadsTyped, ServerTyped, StoreTyped
<1>4. CASE PollTick
  <2>1. LoadsTyped'
    BY <1>4, AskTyped DEF PollTick, AfterType
  <2> QED
    BY <1>4, <2>1 DEF PollTick, serverVars, WireTyped, ServerTyped, StoreTyped
<1> QED
  BY <1>1, <1>2, <1>3, <1>4

\* The types of the chat list survive every step of the client.
LEMMA ListTypeStep == ListTyped /\ [Next]_vars => ListTyped'
<1> SUFFICES ASSUME ListTyped, [Next]_vars PROVE ListTyped'
  OBVIOUS
<1>1. CASE UNCHANGED listVars
  BY <1>1 DEF listVars, serverVars, ListTyped, LoadsTyped, WireTyped, ServerTyped, StoreTyped
<1>2. CASE Lifecycle
  <2>1. ASSUME NEW l \in Load, ListTaken(l) \/ ListArrives(l) \/ ListFails(l) PROVE ListTyped'
    BY <2>1, AnswersTypeStep DEF ListTaken, ListArrives, ListFails
  <2> QED
    BY <1>1, <1>2, <2>1, LinkTypeStep, ServerTypeStep
    DEF Lifecycle, Opens, Closes, Retries
<1>3. CASE MembersNext
  BY <1>3, EventsTypeStep, ServerTypeStep, UserTypeStep, MovingAssumption DEF MembersNext
<1>4. CASE UnreadNext
  BY <1>4, EventsTypeStep, ReadingTypeStep, ServerTypeStep DEF UnreadNext
<1>5. CASE FlagsNext
  BY <1>5, UserTypeStep, MovingAssumption DEF FlagsNext
<1>6. CASE FocusReads \/ LoseFocus
  BY <1>1, <1>6, ReadingTypeStep DEF FocusReads, LoseFocus
<1> QED
  BY <1>1, <1>2, <1>3, <1>4, <1>5, <1>6 DEF Next, ListNext, DialogNext, vars, clientVars

-------------------------------------------------------------------------------
\* The socket, the first load, and what they bound.

\* The first load is still to come, or under way.
Unseeded == view = "off" \/ loading

\* Nothing reaches a view before its first load has ended, and only an authed socket.
LinkInv ==
  /\ authed => sock = "open"
  /\ ~authed => wire = <<>> /\ presenceWire = {}
  /\ Unseeded => sock = "none" /\ ~reconnectTimer /\ ~fallbackPollTimer
  /\ view = "off" => /\ ~loading /\ \A l \in Load : loads[l] = Idle
                     /\ DOMAIN chats = {} /\ activeChatId = NoChat
  /\ \A l \in Load : loads[l].state = "idle" => loads[l] = Idle
  /\ loading => \E l \in Load : loads[l].after.op = "mount"
  /\ \A l \in Load : loads[l].after.op = "mount" => loading
  /\ \A l, m \in Load : loads[l].after.op = "mount" /\ loads[m].after.op = "mount" => l = m

\* What the calls do while none is answered or arrives: they stay, an answer learns
\* of a change, and a mounted view calls once more.
Going(l) ==
  \/ loads'[l] = loads[l]
  \/ /\ loads[l].state = "answered" /\ loads'[l].state = "answered"
     /\ loads'[l].after = loads[l].after /\ loads'[l].list = loads[l].list
     /\ loads[l].since \subseteq loads'[l].since
  \/ /\ view = "on" /\ loads[l] = Idle
     /\ loads'[l].state = "asked" /\ loads'[l].after.op # "mount" /\ loads'[l].list = <<>>

\* A change at the server leaves every load going, and is noted by those answered before it.
LEMMA ChangedGoes ==
  ASSUME NEW c, Changed(c), LoadsTyped
  PROVE  \A l \in Load : Going(l) /\ (loads[l].state = "answered" => c \in loads'[l].since)
BY DEF Changed, LoadsTyped, LoadType, Going

\* A further load takes a free place, and disturbs none under way.
LEMMA AskGoes ==
  ASSUME NEW after, Ask(after), LoadsTyped, view = "on", after.op # "mount"
  PROVE  \A l \in Load : Going(l)
<1>1. PICK l \in Load : loads[l] = Idle /\ loads' = [loads EXCEPT ![l] = Asked(after)]
  BY AskTakes
<1>2. Asked(after).state = "asked" /\ Asked(after).after = after /\ Asked(after).list = <<>>
  BY DEF Asked, Idle
<1> QED
  BY <1>1, <1>2 DEF LoadsTyped, Going

\* The creation of a chat does both: it is noted, and asks for a load of its own.
LEMMA CreateGoes ==
  ASSUME NEW c, CreateOwn(c), LoadsTyped, view = "on"
  PROVE  /\ \A l \in Load : /\ Going(l)
                            /\ loads[l].state = "answered" => c \in loads'[l].since
         /\ \E l \in Load : loads'[l].state = "asked" /\ loads'[l].after.chat = c
<1> DEFINE k == Slot(loads, Idle)  q == Asked([op |-> "open", chat |-> c])
<1>1. k \in Load /\ loads[k] = Idle
  <2>1. k \in Free(loads, Idle)
    BY Zenon DEF CreateOwn, Slot
  <2> QED
    BY <2>1 DEF Free, LoadsTyped
<1>2. q.state = "asked" /\ q.after.op = "open" /\ q.after.chat = c /\ q.list = <<>>
  BY DEF Asked, Idle
<1>3. loads' = [l \in Load |->
        IF l = k THEN q ELSE IF loads[l].state = "answered"
                             THEN [loads[l] EXCEPT !.since = @ \cup {c}] ELSE loads[l]]
  BY DEF CreateOwn
<1> HIDE DEF k, q
<1>4. \A l \in Load : Going(l)
  BY <1>1, <1>2, <1>3 DEF LoadsTyped, LoadType, Going
<1>5. loads'[k] = q /\ loads[k].state = "idle"
  BY <1>1, <1>3 DEF Idle
<1>6. \A l \in Load : loads[l].state = "answered" => c \in loads'[l].since
  BY <1>3, <1>5 DEF LoadsTyped, LoadType
<1> QED
  BY <1>1, <1>2, <1>4, <1>5, <1>6

\* A step that leaves the link, and the first load, alone.
QuietStep ==
  /\ UNCHANGED <<view, loading, authed, sock, reconnectTimer, fallbackPollTimer>>
  /\ ~authed => UNCHANGED <<wire, presenceWire>>
  /\ \A l \in Load : Going(l)
  /\ view = "off" => DOMAIN chats' = {} /\ activeChatId' = NoChat

\* A step that touches neither socket nor subscriptions, and loses no load, keeps `LinkInv`.
LEMMA QuietLink ==
  ASSUME LinkInv, QuietStep PROVE LinkInv'
<1>1. Idle.state = "idle" /\ Idle.after.op = "none"
  BY DEF Idle, Nothing
<1>2. \A l \in Load : loads'[l].after.op = "mount" <=> loads[l].after.op = "mount"
  BY <1>1 DEF QuietStep, Going, LinkInv
<1>3. \A l \in Load : loads'[l].state = "idle" => loads'[l] = Idle
  BY <1>1 DEF QuietStep, Going, LinkInv
<1>4. view = "off" => \A l \in Load : loads'[l] = Idle
  BY <1>1 DEF QuietStep, Going, LinkInv
<1> QED
  BY <1>2, <1>3, <1>4 DEF QuietStep, LinkInv, Unseeded

\* While nothing is mounted nothing is listed, and nothing becomes active.
LEMMA NothingListed ==
  ASSUME DOMAIN chats = {}, activeChatId = NoChat
  PROVE  /\ \A c : removeChatLocal(c) => DOMAIN chats' = {} /\ activeChatId' = NoChat
         /\ \A c \in DOMAIN chats \cup {NoChat} :
              setActiveChat(c) => DOMAIN chats' = {} /\ activeChatId' = NoChat
         /\ \A near : ReadActive(near) => DOMAIN chats' = {}
BY DEF removeChatLocal, setActiveChat, Opened, NoUnread, ReadActive

\* Such are the steps about members,
LEMMA MembersQuiet ==
  ASSUME LinkInv, LoadsTyped, SocketTyped, MembersNext, UNCHANGED <<wsVars, peersVars>>
  PROVE  QuietStep
<1> USE DEF wsVars, linkVars, socketVars, peersVars, onlineVars, QuietStep
<1>0. wire # <<>> => view = "on"
  BY DEF LinkInv, Unseeded, SocketTyped
<1>1. CASE HandleCreated
  <2>1. \A l \in Load : Going(l)
    BY <1>0, <1>1, AskGoes DEF HandleCreated, Received
  <2> QED
    BY <1>0, <1>1, <2>1 DEF HandleCreated, serverVars, Received, LinkInv
<1>2. CASE HandleRemoved
  BY <1>0, <1>2, NothingListed DEF HandleRemoved, serverVars, Received, LinkInv, Going
<1>3. ASSUME NEW c \in Moving, Created(c) PROVE QuietStep
  BY <1>3 DEF Created, Publish, Reaches, LinkInv, Going
<1>4. ASSUME NEW c \in Moving, Added(c) PROVE QuietStep
  BY <1>4, ChangedGoes DEF Added, LinkInv
<1>5. ASSUME NEW c \in Moving, Deleted(c) \/ Leave(c) PROVE QuietStep
  BY <1>5, ChangedGoes DEF Deleted, Leave, Publish, Reaches, LinkInv
<1>6. ASSUME NEW c \in Moving, LeaveAnswered(c) PROVE QuietStep
  BY <1>6, NothingListed DEF LeaveAnswered, serverVars, LinkInv, Going
<1>7. ASSUME NEW c \in Moving, view = "on", CreateOwn(c) PROVE QuietStep
  <2>1. \A l \in Load : Going(l)
    BY <1>7, CreateGoes
  <2> QED
    BY <1>7, <2>1 DEF CreateOwn, Publish, Reaches
<1> QED
  BY <1>1, <1>2, <1>3, <1>4, <1>5, <1>6, <1>7 DEF MembersNext

\* those about unread messages,
LEMMA UnreadQuiet ==
  ASSUME LinkInv, LoadsTyped, SocketTyped, UNCHANGED peersVars,
         (UnreadNext /\ UNCHANGED wsVars) \/ FocusReads \/ LoseFocus
  PROVE  QuietStep
<1> USE DEF wsVars, linkVars, socketVars, peersVars, onlineVars, QuietStep
<1>0. wire # <<>> => view = "on"
  BY DEF LinkInv, Unseeded, SocketTyped
<1>1. CASE HandleMessage /\ UNCHANGED wsVars
  BY <1>0, <1>1 DEF HandleMessage, serverVars, Received, LinkInv, Going
<1>2. CASE (markReadTimer \/ onMsgListScroll) /\ UNCHANGED wsVars
  BY <1>2 DEF markReadTimer, onMsgListScroll, serverVars, LinkInv, Going
<1>3. CASE SendLoads /\ UNCHANGED wsVars
  <2>1. view = "on"
    BY <1>3 DEF SendLoads, LinkInv, SocketTyped
  <2>2. \A l \in Load : Going(l)
    BY <1>3, <2>1, AskGoes DEF SendLoads, Nothing
  <2> QED
    BY <1>3, <2>1, <2>2 DEF SendLoads, serverVars
<1>4. ASSUME NEW c \in Chat, Posted(c) \/ Unposted(c), UNCHANGED wsVars PROVE QuietStep
  BY <1>4, ChangedGoes DEF Posted, Unposted, Publish, Reaches, LinkInv
<1>5. ASSUME NEW c \in Chat, Marked(c) \/ MarkFails(c), UNCHANGED wsVars PROVE QuietStep
  BY <1>5, ChangedGoes DEF Marked, MarkFails, serverVars, LinkInv, Going
<1>6. ASSUME NEW c \in DOMAIN chats \cup {NoChat}, setActiveChat(c), UNCHANGED wsVars
      PROVE  QuietStep
  BY <1>6, NothingListed DEF setActiveChat, serverVars, LinkInv, Going
<1>7. CASE FocusReads
  BY <1>7, NothingListed DEF FocusReads, OnFocus, onWindowFocus, serverVars, LinkInv, Going
<1>8. CASE LoseFocus
  BY <1>8 DEF LoseFocus, onWindowBlur, listVars, serverVars, LinkInv, Going
<1> QED
  BY <1>1, <1>2, <1>3, <1>4, <1>5, <1>6, <1>7, <1>8 DEF UnreadNext

\* those about the flags,
LEMMA FlagsQuiet ==
  ASSUME LinkInv, LoadsTyped, FlagsNext, UNCHANGED <<wsVars, peersVars>>
  PROVE  QuietStep
<1> USE DEF wsVars, linkVars, socketVars, peersVars, onlineVars, QuietStep
<1>1. ASSUME NEW c \in Moving, AskToggle(c) PROVE QuietStep
  BY <1>1 DEF AskToggle, serverVars, LinkInv, Going
<1>2. ASSUME NEW t \in Toggle, Toggled(t) PROVE QuietStep
  BY <1>2, ChangedGoes DEF Toggled, LinkInv
<1>3. ASSUME NEW t \in Toggle, ToggleAnswered(t) \/ ToggleFails(t) PROVE QuietStep
  BY <1>3 DEF ToggleAnswered, ToggleFails, serverVars, LinkInv, Going
<1> QED
  BY <1>1, <1>2, <1>3 DEF FlagsNext

\* and those about presence and typing.
LEMMA PeersQuiet ==
  ASSUME LinkInv, OnlineNext \/ TypingNext, UNCHANGED <<wsVars, listVars>>
  PROVE  QuietStep
<1> USE DEF wsVars, linkVars, socketVars, listVars, serverVars, QuietStep
<1>1. ASSUME NEW e \in presenceWire, HandlePresence(e) PROVE QuietStep
  BY <1>1 DEF HandlePresence, LinkInv, Going
<1>2. ASSUME NEW u \in User, PresenceChanges(u) PROVE QuietStep
  BY <1>2 DEF PresenceChanges, LinkInv, Going
<1>3. CASE TypingNext
  BY <1>3 DEF TypingNext, setTyping, clearTyping, TypingExpires, onlineVars, LinkInv, Going
<1> QED
  BY <1>1, <1>2, <1>3 DEF OnlineNext

\* The poll needs its timer, so that a view is mounted.
LEMMA PollQuiet ==
  ASSUME LinkInv, LoadsTyped, SocketTyped, PollTick, UNCHANGED <<wsVars, peersVars>>
  PROVE  QuietStep
<1>1. view = "on"
  BY DEF LinkInv, Unseeded, SocketTyped, PollTick
<1>2. \A l \in Load : Going(l)
  BY <1>1, AskGoes DEF PollTick, Nothing
<1> QED
  BY <1>1, <1>2 DEF PollTick, wsVars, linkVars, socketVars, peersVars, onlineVars, serverVars,
                    QuietStep

\* Nothing of what the others do mounts the view, ends its first load, or opens it.
LEMMA StepIsQuiet ==
  ASSUME LinkInv, LoadsTyped, SocketTyped, [Next]_vars
  PROVE  \/ QuietStep
         \/ /\ part \in ListParts /\ part' = part
            /\ \/ OpenView \/ Opens \/ Retries \/ Closes
               \/ Auth /\ UNCHANGED <<wsVars, peersVars>>
               \/ \E l \in Load : ListTaken(l) \/ ListArrives(l) \/ ListFails(l)
<1>1. CASE UNCHANGED clientVars
  BY <1>1 DEF clientVars, wsVars, linkVars, socketVars, listVars, serverVars, peersVars,
              onlineVars, QuietStep, LinkInv, Going
<1>2. CASE ListNext /\ UNCHANGED part
  BY <1>2, MembersQuiet, UnreadQuiet, FlagsQuiet, PeersQuiet, PollQuiet
  DEF ListNext, Lifecycle, FocusReads, LoseFocus
<1> QED
  BY <1>1, <1>2 DEF Next, DialogNext, vars, clientVars

\* `LinkInv` survives every step: the quiet ones, and one case per step of view and socket.
LEMMA LinkStep ==
  ASSUME LinkInv, LoadsTyped, SocketTyped, FlagsTyped, [Next]_vars
  PROVE  LinkInv'
<1>0. Idle.state = "idle" /\ Idle.after.op = "none"
  BY DEF Idle, Nothing
<1>1. CASE QuietStep
  BY <1>1, QuietLink
<1>2. CASE OpenView
  <2>1. PICK l \in Load : loads' = [loads EXCEPT ![l] = Asked([op |-> "mount", chat |-> NoChat])]
    BY <1>2, AskTakes DEF OpenView
  <2>2. \A m \in Load : loads[m] = Idle
    BY <1>2 DEF OpenView, Mount, LinkInv
  <2>3. LET q == Asked([op |-> "mount", chat |-> NoChat])
        IN  q.state = "asked" /\ q.after.op = "mount"
    BY DEF Asked, Idle
  <2>4. \A m \in Load : /\ m = l => loads'[m].state = "asked" /\ loads'[m].after.op = "mount"
                        /\ m # l => loads'[m] = Idle
    BY <2>1, <2>2, <2>3 DEF LoadsTyped
  <2>5. /\ view' = "on" /\ loading' = TRUE /\ view = "off"
        /\ UNCHANGED <<authed, sock, reconnectTimer, fallbackPollTimer, wire>>
        /\ UNCHANGED presenceWire
    BY <1>2 DEF OpenView, Mount, serverVars, peersVars, onlineVars
  <2> QED
    BY <1>0, <2>4, <2>5 DEF LinkInv, Unseeded
<1>3. CASE Opens
  <2>1. view = "on" /\ loading = FALSE
    BY <1>3 DEF Opens, onopen, LinkInv, Unseeded, SocketTyped, FlagsTyped
  <2>2. \A l \in Load : Going(l)
    BY <1>3, <2>1, AskGoes DEF Opens, OnOpen, Nothing, Going
  <2>3. \A l \in Load : /\ loads'[l].after.op = "mount" <=> loads[l].after.op = "mount"
                        /\ loads'[l].state = "idle" => loads'[l] = Idle
    BY <1>0, <2>2 DEF Going, LinkInv
  <2>4. /\ view' = "on" /\ loading' = FALSE /\ sock' = "open"
        /\ UNCHANGED <<authed, wire, presenceWire>>
    BY <1>3, <2>1 DEF Opens, onopen, OnOpen, peersVars, onlineVars
  <2> QED
    BY <2>1, <2>3, <2>4 DEF LinkInv, Unseeded
<1>4. CASE Retries
  <2>1. view = "on" /\ loading = FALSE
    BY <1>4 DEF Retries, Reconnect, LinkInv, Unseeded, SocketTyped, FlagsTyped
  <2>2. /\ view' = "on" /\ loading' = FALSE /\ (sock = "open" => sock' = "open")
        /\ UNCHANGED listVars /\ UNCHANGED presenceWire
    BY <1>4, <2>1 DEF Retries, Reconnect, connect, peersVars, onlineVars
  <2> QED
    BY <2>1, <2>2 DEF LinkInv, Unseeded, listVars, serverVars
<1>5. CASE Closes
  <2>1. view = "on" /\ loading = FALSE
    BY <1>5 DEF Closes, LinkInv, Unseeded, SocketTyped, FlagsTyped
  <2>2. /\ view' = "on" /\ loading' = FALSE /\ authed' = FALSE
        /\ wire' = <<>> /\ presenceWire' = {}
        /\ UNCHANGED loads
    BY <1>5, <2>1 DEF Closes, onclose, OnClose, PresenceLost
  <2> QED
    BY <2>1, <2>2 DEF LinkInv, Unseeded
<1>6. CASE Auth /\ UNCHANGED <<wsVars, peersVars>>
  BY <1>6 DEF Auth, wsVars, linkVars, socketVars, peersVars, onlineVars, LinkInv, Unseeded
<1>7. ASSUME NEW l \in Load, ListTaken(l) PROVE LinkInv'
  <2>1. \A m \in Load : loads'[m].after = loads[m].after
                        /\ (loads'[m] = loads[m] \/ loads'[m].state = "answered")
    BY <1>7 DEF ListTaken, Answer, LoadsTyped, LoadType
  <2>2. loads[l] # Idle
    BY <1>0, <1>7 DEF ListTaken, Answer
  <2> QED
    BY <1>7, <2>1, <2>2, ZenonT(30)
    DEF ListTaken, Answer, SeedTaken, serverVars, wsVars, linkVars, socketVars, LinkInv, Unseeded
<1>8. ASSUME NEW l \in Load, ListArrives(l) \/ ListFails(l) PROVE LinkInv'
  <2>1. /\ loads' = [loads EXCEPT ![l] = Idle] /\ loads[l].state # "idle"
        /\ UNCHANGED <<authed, wire, presenceWire>>
    BY <1>8 DEF ListArrives, ListFails, LoadArrives, LoadFails, SeedApplied, SeedFails
  <2>2. view = "on"
    BY <1>0, <2>1 DEF LinkInv, SocketTyped
  <2>3. \A m \in Load : /\ m = l => loads'[m] = Idle
                        /\ m # l => loads'[m] = loads[m]
    BY <2>1 DEF LoadsTyped
  <2>4. CASE loads[l].after.op = "mount"
    <3>1. Mounted
      BY <1>8, <2>4 DEF ListArrives, ListFails
    <3>2. /\ view' = "on" /\ loading' = FALSE /\ (sock = "open" => sock' = "open")
          /\ UNCHANGED <<reconnectTimer, fallbackPollTimer>>
      BY <3>1, <2>2 DEF Mounted, connect
    <3> QED
      BY <1>0, <2>1, <2>3, <2>4, <3>2 DEF LinkInv, Unseeded
  <2>5. CASE loads[l].after.op # "mount"
    <3>1. UNCHANGED <<view, loading, sock, reconnectTimer, fallbackPollTimer>>
      BY <1>8, <2>5 DEF ListArrives, ListFails, wsVars, linkVars, socketVars
    <3> QED
      BY <1>0, <2>1, <2>2, <2>3, <2>5, <3>1 DEF LinkInv, Unseeded
  <2> QED
    BY <2>4, <2>5
<1> QED
  BY <1>1, <1>2, <1>3, <1>4, <1>5, <1>6, <1>7, <1>8, StepIsQuiet

-------------------------------------------------------------------------------
\* The others: who is online, who is typing.

PresenceEvent == [user : User, status : {"online", "offline"}]

OnlineTyped ==
  /\ onlineAtServer \subseteq User /\ onlineUsers \subseteq User /\ unsure \subseteq User
  /\ presenceCache \in [User -> {"none", "online", "offline"}]
  /\ presenceWire \subseteq PresenceEvent
  /\ seeds \in [Load -> SUBSET User]

TypingTyped ==
  /\ typingUsers \in [User -> Timer \cup {NoTimer}]
  /\ timers \subseteq Timer \X User

\* Each user's entry has the one timer that runs for him.
TypingInv ==
  \A u \in User :
    Running(u) = IF typingUsers[u] = NoTimer THEN {} ELSE {<<typingUsers[u], u>>}

ServerStatus(u) == IF u \in onlineAtServer THEN "online" ELSE "offline"
Of(u) == {e \in presenceWire : e.user = u}

\* What holds of a user whose changes all went over the wire, one at a time, and crossed
\* no answer: the cache and what is shown agree, an event on its way has the server's
\* status, without one the cache and, once loaded, the list have it, and an answer
\* under way has it too.
OnlineOf(u) ==
  /\ presenceCache[u] # "none" => (u \in onlineUsers <=> presenceCache[u] = "online")
  /\ \A e \in Of(u) : e.status = ServerStatus(u)
  /\ Of(u) = {} => presenceCache[u] \in {"none", ServerStatus(u)}
  /\ Of(u) = {} /\ ~Unseeded => (u \in onlineUsers <=> u \in onlineAtServer)
  /\ Unseeded => (u \in onlineUsers => u \in onlineAtServer)
  /\ \A l \in Load : loads[l].state = "answered" =>
       Of(u) = {} /\ (u \in seeds[l] <=> u \in onlineAtServer)

OnlineInv == \A u \in Sharing \ unsure : OnlineOf(u)

\* A step does one of this to the others' status, and leaves the rest of it.
LEMMA StepOfOnline ==
  ASSUME LinkInv, LoadsTyped, SocketTyped, [Next]_vars
  PROVE  \/ /\ UNCHANGED onlineVars
            /\ QuietStep \/ OpenView \/ Opens \/ Retries \/ (Auth /\ UNCHANGED wsVars)
         \/ OnlineNext /\ UNCHANGED <<wsVars, listVars>>
         \/ Closes
         \/ \E l \in Load : ListTaken(l) \/ ListArrives(l) \/ ListFails(l)
<1>1. \/ UNCHANGED onlineVars
      \/ OnlineNext /\ UNCHANGED <<wsVars, listVars>>
      \/ Closes
      \/ \E l \in Load : ListTaken(l) \/ ListArrives(l) \/ ListFails(l)
  <2>1. CASE UNCHANGED clientVars
    BY <2>1 DEF clientVars, peersVars
  <2>2. CASE Lifecycle
    BY <2>2 DEF Lifecycle, OpenView, Opens, Retries, peersVars
  <2>3. CASE TypingNext
    BY <2>3 DEF TypingNext, setTyping, clearTyping, TypingExpires
  <2>4. CASE FocusReads \/ LoseFocus
    BY <2>4 DEF FocusReads, LoseFocus, peersVars
  <2> QED
    BY <2>1, <2>2, <2>3, <2>4 DEF Next, ListNext, DialogNext, peersVars, vars, clientVars
<1> QED
  BY <1>1, StepIsQuiet

\* Only the actions of `TypingNext` touch the typing indicators.
LEMMA StepOfTyping == [Next]_vars => UNCHANGED typingVars \/ TypingNext
<1> SUFFICES ASSUME [Next]_vars PROVE UNCHANGED typingVars \/ TypingNext
  OBVIOUS
<1>1. CASE UNCHANGED clientVars
  BY <1>1 DEF clientVars, peersVars
<1>2. CASE Lifecycle
  BY <1>2 DEF Lifecycle, OpenView, Opens, Retries, Closes, PresenceLost, ListTaken, SeedTaken,
              ListArrives, SeedApplied, ListFails, SeedFails, peersVars
<1>3. CASE OnlineNext
  BY <1>3 DEF OnlineNext, HandlePresence, PresenceChanges
<1>4. CASE FocusReads \/ LoseFocus
  BY <1>4 DEF FocusReads, LoseFocus, peersVars
<1> QED
  BY <1>1, <1>2, <1>3, <1>4 DEF Next, ListNext, DialogNext, peersVars, vars, clientVars

\* Each of them keeps every indicator with the one timer that ends it.
LEMMA TypingStep ==
  ASSUME TypingTyped, TypingInv, [Next]_vars
  PROVE  TypingTyped' /\ TypingInv'
<1> USE DEF TypingTyped, TypingInv, Running
<1>1. CASE UNCHANGED typingVars
  BY <1>1 DEF typingVars
<1>2. ASSUME NEW u \in User, setTyping(u) PROVE TypingTyped' /\ TypingInv'
  <2>1. PICK t \in Timer \ {x[1] : x \in timers} :
          /\ typingUsers' = [typingUsers EXCEPT ![u] = t]
          /\ timers' = (timers \ {<<typingUsers[u], u>>}) \cup {<<t, u>>}
    BY <1>2 DEF setTyping
  <2>2. TypingTyped'
    BY <2>1
  <2>3. ASSUME NEW v \in User
        PROVE  Running(v)' = IF typingUsers'[v] = NoTimer THEN {} ELSE {<<typingUsers'[v], v>>}
    <3>1. CASE v = u
      <4>1. Running(u) \subseteq {<<typingUsers[u], u>>}
        OBVIOUS
      <4>2. Running(u)' = {<<t, u>>}
        BY <2>1, <4>1
      <4> QED
        BY <2>1, <3>1, <4>2, PeersAssumption
    <3>2. CASE v # u
      <4>1. Running(v)' = Running(v)
        BY <2>1, <3>2
      <4> QED
        BY <2>1, <3>2, <4>1
    <3> QED
      BY <3>1, <3>2
  <2> QED
    BY <2>2, <2>3
<1>3. ASSUME NEW u \in User, NEW gone \in SUBSET {<<t, u>> : t \in Timer},
             typingUsers' = [typingUsers EXCEPT ![u] = NoTimer],
             timers' = timers \ (gone \cup {<<typingUsers[u], u>>})
      PROVE  TypingTyped' /\ TypingInv'
  <2>1. ASSUME NEW v \in User
        PROVE  Running(v)' = IF typingUsers'[v] = NoTimer THEN {} ELSE {<<typingUsers'[v], v>>}
    <3>1. CASE v = u
      <4>1. Running(u) \subseteq {<<typingUsers[u], u>>}
        OBVIOUS
      <4>2. Running(u)' = {}
        BY <1>3, <4>1
      <4> QED
        BY <1>3, <3>1, <4>2
    <3>2. CASE v # u
      <4>1. Running(v)' = Running(v)
        BY <1>3, <3>2
      <4> QED
        BY <1>3, <3>2, <4>1
    <3> QED
      BY <3>1, <3>2
  <2>2. TypingTyped'
    BY <1>3
  <2> QED
    BY <2>1, <2>2
<1>4. ASSUME NEW u \in User, clearTyping(u) PROVE TypingTyped' /\ TypingInv'
  BY <1>3, <1>4 DEF clearTyping
<1>5. ASSUME NEW u \in User, NEW t \in Timer, TypingExpires(t, u)
      PROVE  TypingTyped' /\ TypingInv'
  <2>1. timers' = timers \ ({<<t, u>>} \cup {<<typingUsers[u], u>>})
    BY <1>5 DEF TypingExpires
  <2> QED
    BY <1>3, <1>5, <2>1 DEF TypingExpires
<1> QED
  BY <1>1, <1>2, <1>4, <1>5, StepOfTyping DEF TypingNext

\* A step that leaves the others' status alone leaves what is known of it true.
LEMMA OnlineStays ==
  ASSUME OnlineInv, UNCHANGED onlineVars, Unseeded' <=> Unseeded,
         \A l \in Load : loads'[l].state = "answered" => loads[l].state = "answered"
  PROVE  OnlineInv'
BY DEF OnlineInv, OnlineOf, onlineVars, ServerStatus, Of

\* A change at the server is the only event on its way about that user, or misses the
\* client, or overtakes another.
LEMMA ChangeSent ==
  ASSUME OnlineTyped, LinkInv, OnlineInv, NEW u \in User, PresenceChanges(u),
         UNCHANGED <<wsVars, listVars>>
  PROVE  OnlineTyped' /\ OnlineInv'
<1> DEFINE comes == u \notin onlineAtServer
           e == [user |-> u, status |-> IF comes THEN "online" ELSE "offline"]
<1>0. UNCHANGED <<view, loading, authed, loads, onlineUsers, presenceCache, seeds>>
  BY DEF PresenceChanges, wsVars, linkVars, socketVars, listVars, serverVars
<1>1. onlineAtServer' = IF comes THEN onlineAtServer \cup {u} ELSE onlineAtServer \ {u}
  BY DEF PresenceChanges
<1>2. /\ e \in PresenceEvent /\ e.user = u /\ e.status = ServerStatus(u)'
      /\ onlineAtServer' \subseteq User
  BY <1>1 DEF PresenceEvent, OnlineTyped, ServerStatus
<1>3. CASE ~(authed /\ u \in Sharing)
  <2>1. unsure' = unsure \cup {u} /\ presenceWire' = presenceWire
    BY <1>3 DEF PresenceChanges
  <2>2. OnlineTyped'
    BY <1>0, <1>2, <2>1 DEF OnlineTyped
  <2>3. ASSUME NEW v \in Sharing \ unsure' PROVE OnlineOf(v)'
    BY <1>0, <1>1, <2>1, <2>3 DEF OnlineInv, OnlineOf, Of, ServerStatus, Unseeded
  <2> QED
    BY <2>2, <2>3 DEF OnlineInv
<1>4. CASE authed /\ u \in Sharing
  <2>1. /\ presenceWire' = presenceWire \cup {e}
        /\ unsure' = IF InAnswer \/ InFlight(u) THEN unsure \cup {u} ELSE unsure
    BY <1>4 DEF PresenceChanges
  <2> HIDE DEF e
  <2>2. OnlineTyped'
    BY <1>0, <1>2, <2>1 DEF OnlineTyped
  <2>3. Of(u)' = Of(u) \cup {e} /\ \A v : v # u => Of(v)' = Of(v)
    BY <1>2, <2>1 DEF Of
  <2>4. ~Unseeded
    BY <1>4 DEF LinkInv
  <2>5. ASSUME NEW v \in Sharing \ unsure', v # u PROVE OnlineOf(v)'
    <3>1. /\ ServerStatus(v)' = ServerStatus(v) /\ Of(v)' = Of(v)
          /\ v \in onlineAtServer' <=> v \in onlineAtServer
      BY <1>1, <2>3, <2>5 DEF ServerStatus
    <3>2. OnlineOf(v)
      BY <2>1, <2>5 DEF OnlineInv
    <3> QED
      BY <1>0, <3>1, <3>2 DEF OnlineOf, Unseeded
  <2>6. ASSUME u \notin unsure' PROVE OnlineOf(u)'
    <3>1. ~InAnswer /\ ~InFlight(u) /\ OnlineOf(u)
      BY <1>4, <2>1, <2>6 DEF OnlineInv
    <3>2. Of(u)' = {e}
      BY <2>3, <3>1 DEF InFlight, Of
    <3> QED
      BY <1>0, <1>2, <2>4, <3>1, <3>2 DEF OnlineOf, InAnswer, Unseeded
  <2> QED
    BY <2>2, <2>5, <2>6 DEF OnlineInv
<1> QED
  BY <1>3, <1>4

\* An event that is handled was the only one about its user, or its user is unsure.
LEMMA ChangeHandled ==
  ASSUME OnlineTyped, LinkInv, OnlineInv, NEW e \in presenceWire, HandlePresence(e),
         UNCHANGED <<wsVars, listVars>>
  PROVE  OnlineTyped' /\ OnlineInv'
<1>0. /\ UNCHANGED <<view, loading, authed, loads, onlineAtServer, seeds, unsure>>
      /\ presenceWire' = presenceWire \ {e} /\ ~Unseeded
  BY DEF HandlePresence, wsVars, linkVars, socketVars, listVars, serverVars, LinkInv
<1>2. PICK u \in User : u = e.user /\ e.status \in {"online", "offline"}
  BY DEF PresenceEvent, OnlineTyped
<1>3. \/ /\ presenceCache[u] = e.status /\ UNCHANGED <<presenceCache, onlineUsers>>
      \/ /\ presenceCache[u] # e.status /\ presenceCache' = [presenceCache EXCEPT ![u] = e.status]
         /\ onlineUsers' = IF e.status = "online" THEN onlineUsers \cup {u} ELSE onlineUsers \ {u}
  BY <1>2, Zenon DEF HandlePresence
<1>4. OnlineTyped'
  BY <1>0, <1>2, <1>3 DEF OnlineTyped
<1>5. e \in Of(u) /\ \A v : Of(v)' = Of(v) \ {e} /\ (v # u => Of(v)' = Of(v))
  BY <1>0, <1>2 DEF Of
<1>6. ASSUME NEW v \in Sharing \ unsure, v # u PROVE OnlineOf(v)'
  <2>1. OnlineOf(v) /\ v \in User
    BY PeersAssumption DEF OnlineInv
  <2>2. presenceCache'[v] = presenceCache[v] /\ (v \in onlineUsers' <=> v \in onlineUsers)
    BY <1>2, <1>3, <1>6, <2>1 DEF OnlineTyped
  <2> QED
    BY <1>0, <1>5, <1>6, <2>1, <2>2 DEF OnlineOf, ServerStatus, Unseeded
<1>7. ASSUME u \in Sharing, u \notin unsure PROVE OnlineOf(u)'
  <2>1. OnlineOf(u)
    BY <1>7 DEF OnlineInv
  <2>2. \A l \in Load : loads[l].state # "answered"
    BY <1>5, <2>1 DEF OnlineOf
  <2>3. presenceCache'[u] = e.status /\ (u \in onlineUsers' <=> e.status = "online")
    <3>1. CASE presenceCache[u] = e.status /\ UNCHANGED <<presenceCache, onlineUsers>>
      BY <1>2, <2>1, <3>1 DEF OnlineOf
    <3>2. CASE /\ presenceCache' = [presenceCache EXCEPT ![u] = e.status]
               /\ onlineUsers' = IF e.status = "online" THEN onlineUsers \cup {u}
                                                        ELSE onlineUsers \ {u}
      BY <1>2, <3>2 DEF OnlineTyped
    <3> QED
      BY <1>3, <3>1, <3>2
  <2>4. e.status = ServerStatus(u)
    BY <1>5, <2>1 DEF OnlineOf
  <2>5. ServerStatus(u)' = ServerStatus(u) /\ (ServerStatus(u) = "online" <=> u \in onlineAtServer)
    BY <1>0 DEF ServerStatus
  <2>6. \A g \in Of(u)' : g.status = ServerStatus(u)
    BY <1>5, <2>1 DEF OnlineOf
  <2> QED
    BY <1>0, <1>2, <2>2, <2>3, <2>4, <2>5, <2>6 DEF OnlineOf, Unseeded
<1> QED
  BY <1>0, <1>4, <1>6, <1>7 DEF OnlineInv

\* An answer, its arrival or failure, and the loss of the connection.
LEMMA AnswerSeeds ==
  ASSUME OnlineTyped, LinkInv, OnlineInv, SocketTyped, FlagsTyped, LoadsTyped,
         NEW l \in Load, ListTaken(l) \/ ListArrives(l) \/ ListFails(l)
  PROVE  OnlineTyped' /\ OnlineInv'
<1>1. CASE ListTaken(l)
  <2>1. /\ UNCHANGED <<view, loading, onlineAtServer, onlineUsers, presenceCache, presenceWire>>
        /\ seeds' = [seeds EXCEPT ![l] = onlineAtServer]
        /\ unsure' = unsure \cup {u \in User : InFlight(u)}
    BY <1>1 DEF ListTaken, SeedTaken, wsVars, linkVars, socketVars
  <2>2. \A m \in Load : m # l => loads'[m] = loads[m] /\ seeds'[m] = seeds[m]
    BY <1>1, <2>1 DEF ListTaken, Answer, LoadsTyped, OnlineTyped
  <2>3. OnlineTyped'
    BY <2>1 DEF OnlineTyped
  <2>4. \A u \in Sharing \ unsure' : Of(u) = {} /\ OnlineOf(u)
    BY <2>1, PeersAssumption DEF OnlineInv, InFlight, Of
  <2>5. seeds'[l] = onlineAtServer
    BY <2>1 DEF OnlineTyped
  <2> QED
    BY <2>1, <2>2, <2>3, <2>4, <2>5 DEF OnlineInv, OnlineOf, Of, ServerStatus, Unseeded
<1>2. CASE ListArrives(l)
  <2>1. /\ UNCHANGED <<onlineAtServer, presenceCache, presenceWire, unsure>>
        /\ onlineUsers' = onlineUsers \cup seeds[l] /\ seeds' = [seeds EXCEPT ![l] = {}]
        /\ loads[l].state = "answered" /\ loads' = [loads EXCEPT ![l] = Idle]
    BY <1>2 DEF ListArrives, SeedApplied, LoadArrives
  <2>0. view' = view /\ (loading' = loading \/ (loads[l].after.op = "mount" /\ loading' = FALSE))
    <3>1. CASE loads[l].after.op = "mount"
      BY <1>2, <3>1 DEF ListArrives, Mounted
    <3>2. CASE loads[l].after.op # "mount"
      BY <1>2, <3>2 DEF ListArrives, wsVars, linkVars, socketVars
    <3> QED
      BY <3>1, <3>2
  <2>2. OnlineTyped'
    BY <2>1 DEF OnlineTyped
  <2>3. Idle.state = "idle"
    BY DEF Idle
  <2>4. \A m \in Load : loads'[m].state = "answered" =>
          m # l /\ loads[m].state = "answered" /\ seeds'[m] = seeds[m]
    BY <2>1, <2>3 DEF LoadsTyped, OnlineTyped
  <2>5. ASSUME NEW u \in Sharing \ unsure PROVE OnlineOf(u)'
    <3>1. OnlineOf(u) /\ Of(u) = {} /\ (u \in seeds[l] <=> u \in onlineAtServer)
      BY <2>1 DEF OnlineInv, OnlineOf
    <3>2. presenceCache[u] \in {"none", ServerStatus(u)}
      BY <3>1 DEF OnlineOf
    <3>3. Of(u)' = {} /\ ServerStatus(u)' = ServerStatus(u)
      BY <2>1, <3>1 DEF Of, ServerStatus
    <3>4. (u \in onlineUsers' <=> u \in onlineUsers \/ u \in onlineAtServer)
          /\ (u \in onlineUsers => u \in onlineAtServer)
      BY <2>1, <3>1 DEF OnlineOf
    <3> QED
      BY <2>0, <2>1, <2>4, <3>1, <3>2, <3>3, <3>4 DEF OnlineOf, ServerStatus, Unseeded
  <2> QED
    BY <2>1, <2>2, <2>5 DEF OnlineInv
<1>3. CASE ListFails(l)
  <2>1. /\ UNCHANGED <<onlineAtServer, onlineUsers, presenceCache, presenceWire, seeds>>
        /\ unsure' = unsure \cup (IF loads[l].after.op = "mount" THEN User ELSE {})
        /\ loads' = [loads EXCEPT ![l] = Idle]
        /\ loads[l].after.op # "mount" => UNCHANGED <<view, loading>>
    BY <1>3 DEF ListFails, SeedFails, LoadFails, wsVars, linkVars, socketVars
  <2>2. OnlineTyped'
    BY <2>1 DEF OnlineTyped
  <2>3. \A m \in Load : loads'[m].state = "answered" => loads[m].state = "answered"
    BY <2>1 DEF LoadsTyped, Idle
  <2>4. CASE loads[l].after.op = "mount"
    BY <2>1, <2>2, <2>4, PeersAssumption DEF OnlineInv
  <2>5. CASE loads[l].after.op # "mount"
    BY <2>1, <2>2, <2>3, <2>5, OnlineStays DEF onlineVars, Unseeded
  <2> QED
    BY <2>4, <2>5
<1> QED
  BY <1>1, <1>2, <1>3

\* `OnlineInv` survives every step of the client.
LEMMA OnlineStep ==
  ASSUME OnlineTyped, LinkInv, OnlineInv, SocketTyped, FlagsTyped, LoadsTyped, [Next]_vars
  PROVE  OnlineTyped' /\ OnlineInv'
<1>0. Idle.state = "idle"
  BY DEF Idle
<1>1. CASE /\ UNCHANGED onlineVars
           /\ QuietStep \/ OpenView \/ Opens \/ Retries \/ (Auth /\ UNCHANGED wsVars)
  <2>1. OnlineTyped'
    BY <1>1 DEF onlineVars, OnlineTyped
  <2>2. CASE QuietStep
    <3>1. \A l \in Load : loads'[l].state = "answered" => loads[l].state = "answered"
      BY <2>2 DEF QuietStep, Going
    <3> QED
      BY <1>1, <2>1, <2>2, <3>1, OnlineStays DEF QuietStep, Unseeded
  <2>3. CASE OpenView \/ Opens
    <3>1. \/ UNCHANGED loads
          \/ \E l \in Load : \E after : loads' = [loads EXCEPT ![l] = Asked(after)]
      BY <2>3, AskTakes DEF OpenView, Opens, OnOpen
    <3>2. \A after : Asked(after).state = "asked"
      BY DEF Asked, Idle
    <3>3. \A l \in Load : loads'[l].state = "answered" => loads[l].state = "answered"
      BY <3>1, <3>2 DEF LoadsTyped
    <3>4. Unseeded' <=> Unseeded
      BY <2>3 DEF OpenView, Mount, Opens, onopen, Unseeded
    <3> QED
      BY <1>1, <2>1, <3>3, <3>4, OnlineStays
  <2>4. CASE Retries \/ (Auth /\ UNCHANGED wsVars)
    <3>1. UNCHANGED <<view, loading, loads>>
      BY <2>4 DEF Retries, Reconnect, Auth, listVars, wsVars, linkVars, socketVars
    <3> QED
      BY <1>1, <2>1, <3>1, OnlineStays DEF Unseeded
  <2> QED
    BY <1>1, <2>2, <2>3, <2>4
<1>2. CASE OnlineNext /\ UNCHANGED <<wsVars, listVars>>
  BY <1>2, ChangeSent, ChangeHandled DEF OnlineNext
<1>3. CASE Closes
  <2>1. /\ UNCHANGED <<view, loading, loads, onlineAtServer, onlineUsers, presenceCache, seeds>>
        /\ presenceWire' = {}
        /\ unsure' = unsure \cup {u \in User : InFlight(u)}
    BY <1>3 DEF Closes, onclose, OnClose, PresenceLost
  <2>3. OnlineTyped'
    BY <2>1 DEF OnlineTyped
  <2>4. \A u \in Sharing \ unsure' : Of(u) = {} /\ Of(u)' = {} /\ OnlineOf(u)
    BY <2>1, PeersAssumption DEF OnlineInv, InFlight, Of
  <2> QED
    BY <2>1, <2>3, <2>4 DEF OnlineInv, OnlineOf, ServerStatus, Unseeded
<1>4. ASSUME NEW l \in Load, ListTaken(l) \/ ListArrives(l) \/ ListFails(l)
      PROVE  OnlineTyped' /\ OnlineInv'
  BY <1>4, AnswerSeeds
<1> QED
  BY <1>1, <1>2, <1>3, <1>4, StepOfOnline

-------------------------------------------------------------------------------
\* Which chats are listed.

Removal == {"chat_deleted", "chat_member_left"}
Announced(c) == c \in OnWire({"chat_created"})
Removed(c) == c \in OnWire(Removal)

\* A creation on the wire is undone by a removal behind it.
Ordered(c) ==
  \A i \in DOMAIN wire : wire[i].chat = c /\ wire[i].type = "chat_created" =>
    \E j \in DOMAIN wire : j > i /\ wire[j].chat = c /\ wire[j].type \in Removal

\* Nobody is removed before he is out, and what was announced of a chat that he is out
\* of is on the wire before the removal; a chat to come is in no list yet.
MembershipInv ==
  \A c \in Chat :
    /\ Removed(c) \/ c \in leaving => member[c] = "out"
    /\ member[c] = "out" => Ordered(c)
    /\ member[c] \in {"none", "adding"} =>
         c \notin DOMAIN chats /\ \A l \in Load : c \notin DOMAIN loads[l].list

\* An answer under way is right about each chat that it does not know as changed.
AnswersInv ==
  \A l \in Load, c \in Chat :
    loads[l].state = "answered" /\ c \notin loads[l].since
      => (c \in DOMAIN loads[l].list <=> c \in Members)

\* The load that brings c is under way.
Brought(c) ==
  \E l \in Load : /\ loads[l].state # "idle"
                  /\ loads[l].after.chat = c \/ loads[l].after.op = "mount"

\* A chat that is missing in the list, or too much in it, is about to be put right.
ShownInv ==
  \A c \in Chat \ stale :
    /\ c \in Members \ DOMAIN chats => Announced(c) \/ view = "off" \/ Brought(c)
    /\ c \in DOMAIN chats \ Members => Removed(c) \/ c \in leaving

MineInv == MembershipInv /\ AnswersInv /\ ShownInv

\* What a step does to what the wire says of a chat: an event is put at its end, or
\* taken from its head.
LEMMA AppendWire ==
  ASSUME NEW type \in Membership \cup {"message"}, NEW d \in Chat, Publish(type, d), WireTyped
  PROVE  \A c \in Chat :
           /\ Announced(c)' <=> Announced(c) \/ (authed /\ c = d /\ type = "chat_created")
           /\ Removed(c)' <=> Removed(c) \/ (authed /\ c = d /\ type \in Removal)
           /\ Ordered(c) /\ (c # d \/ type # "chat_created") => Ordered(c)'
           /\ authed /\ c = d /\ type \in Removal => Ordered(c)'
<1> DEFINE e == [type |-> type, chat |-> d]  n == Len(wire)
<1>0. e.type = type /\ e.chat = d /\ "chat_created" \notin Removal /\ "message" \notin Removal
  BY DEF Removal
<1>1. CASE ~Reaches(type, d)
  <2>1. wire' = wire /\ (authed => type = "message")
    BY <1>1 DEF Publish, Reaches
  <2> QED
    BY <1>0, <2>1 DEF Announced, Removed, Ordered, OnWire
<1>2. CASE Reaches(type, d)
  <2>1. wire' = Append(wire, e) /\ authed
    BY <1>2 DEF Publish, Reaches
  <2> HIDE DEF e
  <2>2. /\ n \in Nat /\ DOMAIN wire = 1..n /\ DOMAIN wire' = 1..(n + 1)
        /\ wire'[n + 1] = e /\ \A i \in 1..n : wire'[i] = wire[i]
    BY <2>1 DEF WireTyped
  <2> HIDE DEF n
  <2>3. \A types : \A c \in Chat :
          c \in OnWire(types)' <=> c \in OnWire(types) \/ (c = d /\ type \in types)
    BY <1>0, <2>2 DEF OnWire
  <2>4. ASSUME NEW c \in Chat, Ordered(c), c # d \/ type # "chat_created" PROVE Ordered(c)'
    BY <1>0, <2>2, <2>4 DEF Ordered
  <2>5. ASSUME NEW c \in Chat, c = d, type \in Removal PROVE Ordered(c)'
    BY <1>0, <2>2, <2>5 DEF Ordered
  <2> QED
    BY <2>1, <2>3, <2>4, <2>5 DEF Announced, Removed
<1> QED
  BY <1>1, <1>2

\* Taking an event off the wire ends at most the news of that kind about that chat.
LEMMA TailWire ==
  ASSUME NEW type, Received(type), WireTyped
  PROVE  \A c \in Chat :
           /\ Announced(c)' => Announced(c)
           /\ Removed(c)' => Removed(c)
           /\ Announced(c) => Announced(c)' \/ (c = Head(wire).chat /\ type = "chat_created")
           /\ Removed(c) => Removed(c)' \/ (c = Head(wire).chat /\ type \in Removal)
           /\ type = "chat_created" => Announced(Head(wire).chat)
           /\ type \in Removal => Removed(Head(wire).chat)
           /\ Ordered(c) => Ordered(c)'
<1> DEFINE n == Len(wire)
<1>1. /\ n \in Nat /\ n > 0 /\ DOMAIN wire = 1..n /\ DOMAIN wire' = 1..(n - 1)
      /\ Head(wire) = wire[1] /\ Head(wire).type = type /\ Head(wire).chat \in Chat
      /\ \A i \in 1..(n - 1) : wire'[i] = wire[i + 1]
  <2>1. wire \in Seq(EventType) /\ wire # <<>> /\ wire' = Tail(wire)
    BY DEF Received, WireTyped
  <2> QED
    BY <2>1, ReceivedTyped
<1> HIDE DEF n
<1>2. \A i \in 1..(n - 1) : i + 1 \in 1..n
  BY <1>1
<1>3. \A i \in 1..n : i = 1 \/ (i - 1 \in 1..(n - 1) /\ wire'[i - 1] = wire[i])
  BY <1>1
<1>4. \A types : \A c \in Chat :
        /\ c \in OnWire(types)' => c \in OnWire(types)
        /\ c \in OnWire(types) => c \in OnWire(types)' \/ (c = Head(wire).chat /\ type \in types)
        /\ type \in types => Head(wire).chat \in OnWire(types)
  <2> TAKE types
  <2> TAKE c \in Chat
  <2>1. ASSUME c \in OnWire(types)' PROVE c \in OnWire(types)
    <3>1. PICK i \in 1..(n - 1) : wire'[i].chat = c /\ wire'[i].type \in types
      BY <1>1, <2>1 DEF OnWire
    <3> QED
      BY <1>1, <1>2, <3>1 DEF OnWire
  <2>2. ASSUME c \in OnWire(types)
        PROVE  c \in OnWire(types)' \/ (c = Head(wire).chat /\ type \in types)
    <3>1. PICK i \in 1..n : wire[i].chat = c /\ wire[i].type \in types
      BY <1>1, <2>2 DEF OnWire
    <3> QED
      BY <1>1, <1>3, <3>1 DEF OnWire
  <2>3. type \in types => Head(wire).chat \in OnWire(types)
    BY <1>1 DEF OnWire
  <2> QED
    BY <2>1, <2>2, <2>3
<1>5. ASSUME NEW c \in Chat, Ordered(c) PROVE Ordered(c)'
  <2> SUFFICES ASSUME NEW i \in 1..(n - 1), wire'[i].chat = c, wire'[i].type = "chat_created"
               PROVE  \E j \in 1..(n - 1) : /\ j > i /\ wire'[j].chat = c
                                            /\ wire'[j].type \in Removal
    BY <1>1 DEF Ordered
  <2>1. PICK j \in 1..n : j > i + 1 /\ wire[j].chat = c /\ wire[j].type \in Removal
    BY <1>1, <1>2, <1>5 DEF Ordered
  <2>2. j - 1 \in 1..(n - 1) /\ j - 1 > i /\ wire'[j - 1] = wire[j]
    BY <1>1, <1>3, <2>1
  <2> QED
    BY <2>1, <2>2
<1> QED
  BY <1>4, <1>5 DEF Announced, Removed

\* The events about membership are announcements and removals.
LEMMA OnWireMembership ==
  \A c : c \in OnWire(Membership) => Announced(c) \/ Removed(c)
BY DEF OnWire, Membership, Announced, Removed, Removal

\* A step that changes neither the chats of the user, nor the list's, nor what the wire
\* says of them.
WireSame ==
  \A c \in Chat : /\ Announced(c)' <=> Announced(c)
                  /\ Removed(c)' <=> Removed(c)
                  /\ Ordered(c) => Ordered(c)'

\* A wire that is left alone says the same of every chat.
LEMMA WireStays == UNCHANGED wire => WireSame
BY DEF WireSame, Announced, Removed, Ordered, OnWire

\* A step that leaves members, wire and the listed chats alone keeps `MineInv`.
LEMMA MineQuiet ==
  ASSUME MineInv, UNCHANGED <<member, leaving>>, DOMAIN chats' = DOMAIN chats,
         stale \subseteq stale', WireSame, UNCHANGED view, \A l \in Load : Going(l)
  PROVE  MineInv'
<1>1. Idle.state = "idle" /\ Idle.list = <<>> /\ DOMAIN <<>> = {}
  BY DEF Idle
<1>2. Members' = Members
  BY DEF Members
<1>3. MembershipInv'
  BY <1>1 DEF MineInv, MembershipInv, WireSame, Going
<1>4. AnswersInv'
  BY <1>1, <1>2 DEF MineInv, AnswersInv, Going
<1>5. \A c : Brought(c) => Brought(c)'
  BY <1>1 DEF Brought, Going
<1>6. ShownInv'
  BY <1>2, <1>5 DEF MineInv, ShownInv, WireSame
<1> QED
  BY <1>3, <1>4, <1>6 DEF MineInv

\* What changes at the server is announced on the wire, or makes the chat stale.
LEMMA ServerMine ==
  ASSUME MineInv, LinkInv, LoadsTyped, WireTyped, ServerTyped, UNCHANGED view, NEW c \in Chat,
         \/ Created(c) \/ Added(c) \/ Deleted(c) \/ Leave(c)
         \/ Posted(c) \/ Unposted(c) \/ Marked(c)
         \/ (view = "on" /\ CreateOwn(c))
  PROVE  MineInv'
<1> USE DEF MineInv
<1>0. /\ Idle.state = "idle" /\ DOMAIN <<>> = {}
      /\ "chat_created" \notin Removal /\ "message" \notin Removal
      /\ {"chat_created", "chat_deleted", "chat_member_left"} = Membership
  BY DEF Idle, Removal, Membership
<1>1. CASE Created(c)
  <2>1. /\ Publish("chat_created", c) /\ member[c] = "none"
        /\ member' = [member EXCEPT ![c] = "adding"]
        /\ UNCHANGED <<authed, chats, loads, leaving, stale>>
    BY <1>1 DEF Created
  <2>2. \A d \in Chat : /\ member'[d] = IF d = c THEN "adding" ELSE member[d]
                        /\ Announced(d) => Announced(d)'
                        /\ Removed(d)' <=> Removed(d)
                        /\ Ordered(d) /\ c # d => Ordered(d)'
    BY <1>0, <2>1, AppendWire DEF ServerTyped
  <2>3. Members' = Members
    BY <2>1, <2>2 DEF Members
  <2>4. MembershipInv'
    BY <2>1, <2>2 DEF MembershipInv
  <2>5. AnswersInv' /\ ShownInv'
    BY <2>1, <2>2, <2>3 DEF AnswersInv, ShownInv, Brought
  <2> QED
    BY <2>4, <2>5
<1>2. CASE Added(c)
  <2>1. /\ Changed(c) /\ member[c] = "adding" /\ member' = [member EXCEPT ![c] = "in"]
        /\ stale' = stale \cup ({c} \ OnWire(Membership))
        /\ UNCHANGED <<wire, chats, leaving>>
    BY <1>2 DEF Added
  <2>2. \A l \in Load : Going(l) /\ (loads[l].state = "answered" => c \in loads'[l].since)
    BY <2>1, ChangedGoes
  <2>3. \A d \in Chat : member'[d] = IF d = c THEN "in" ELSE member[d]
    BY <2>1 DEF ServerTyped
  <2>4. Members' = Members \cup {c}
    BY <2>3 DEF Members
  <2>5. WireSame
    BY <2>1, WireStays
  <2>6. MembershipInv'
    BY <1>0, <2>1, <2>2, <2>3, <2>5 DEF MembershipInv, WireSame, Going
  <2>7. AnswersInv'
    BY <1>0, <2>2, <2>4 DEF AnswersInv, Going
  <2>8. \A d : Brought(d) => Brought(d)'
    BY <1>0, <2>2 DEF Brought, Going
  <2>9. c \notin stale' => Announced(c)
    BY <2>1, OnWireMembership DEF MembershipInv
  <2>10. ShownInv'
    BY <2>1, <2>4, <2>5, <2>8, <2>9 DEF ShownInv, WireSame
  <2> QED
    BY <2>6, <2>7, <2>10
<1>3. CASE Deleted(c) \/ Leave(c)
  <2>1. /\ Changed(c) /\ member[c] = "in" /\ member' = [member EXCEPT ![c] = "out"]
        /\ UNCHANGED <<authed, chats>>
    BY <1>3 DEF Deleted, Leave
  <2>2. PICK type \in Removal : Publish(type, c)
    BY <1>3 DEF Deleted, Leave, Removal
  <2>3. /\ \/ stale' = stale \cup (IF authed THEN {} ELSE {c}) /\ leaving' = leaving
           \/ stale' = stale /\ leaving' = leaving \cup {c}
    BY <1>3 DEF Deleted, Leave
  <2>4. \A l \in Load : Going(l) /\ (loads[l].state = "answered" => c \in loads'[l].since)
    BY <2>1, ChangedGoes
  <2>5. \A d \in Chat : member'[d] = IF d = c THEN "out" ELSE member[d]
    BY <2>1 DEF ServerTyped
  <2>6. Members' = Members \ {c}
    BY <2>5 DEF Members
  <2>7. \A d \in Chat : /\ Announced(d)' <=> Announced(d)
                        /\ Removed(d)' <=> Removed(d) \/ (authed /\ c = d)
                        /\ Ordered(d) => Ordered(d)'
                        /\ authed /\ c = d => Ordered(d)'
    <3>1. type \in Membership \cup {"message"} /\ type # "chat_created"
      BY <1>0 DEF Removal
    <3> QED
      BY <2>2, <3>1, AppendWire
  <2>8. Ordered(c)'
    <3>1. CASE ~authed
      <4>1. wire = <<>>
        BY <3>1 DEF LinkInv
      <4>2. Ordered(c)
        BY <4>1 DEF Ordered
      <4> QED
        BY <2>7, <4>2
    <3> QED
      BY <2>7, <3>1
  <2>9. MembershipInv'
    BY <1>0, <2>1, <2>3, <2>4, <2>5, <2>7, <2>8 DEF MembershipInv, Going
  <2>10. AnswersInv'
    BY <1>0, <2>4, <2>6 DEF AnswersInv, Going
  <2>11. \A d : Brought(d) => Brought(d)'
    BY <1>0, <2>4 DEF Brought, Going
  <2>12. ShownInv'
    BY <2>1, <2>3, <2>6, <2>7, <2>11 DEF ShownInv
  <2> QED
    BY <2>9, <2>10, <2>12
<1>4. CASE Posted(c)
  <2>1. /\ Changed(c) /\ Publish("message", c) /\ stale \subseteq stale'
        /\ UNCHANGED <<member, leaving, chats>>
    BY <1>4 DEF Posted
  <2>2. \A l \in Load : Going(l)
    BY <2>1, ChangedGoes
  <2>3. WireSame
    BY <1>0, <2>1, AppendWire DEF WireSame
  <2> QED
    BY <2>1, <2>2, <2>3, MineQuiet
<1>5. CASE Marked(c) \/ Unposted(c)
  BY <1>5, ChangedGoes, WireStays, MineQuiet DEF Marked, Unposted
<1>6. CASE view = "on" /\ CreateOwn(c)
  <2>1. /\ Publish("chat_created", c) /\ member[c] = "none"
        /\ member' = [member EXCEPT ![c] = "in"] /\ stale \subseteq stale'
        /\ UNCHANGED <<authed, chats, leaving>>
    BY <1>6 DEF CreateOwn
  <2>2. \A l \in Load : Going(l) /\ (loads[l].state = "answered" => c \in loads'[l].since)
    BY <1>6, CreateGoes
  <2>3. Brought(c)'
    BY <1>6, CreateGoes DEF Brought
  <2>4. \A d \in Chat : /\ member'[d] = IF d = c THEN "in" ELSE member[d]
                        /\ Announced(d) => Announced(d)'
                        /\ Removed(d)' <=> Removed(d)
                        /\ Ordered(d) /\ c # d => Ordered(d)'
    BY <1>0, <2>1, AppendWire DEF ServerTyped
  <2>5. Members' = Members \cup {c}
    BY <2>4 DEF Members
  <2>6. MembershipInv'
    BY <1>0, <2>1, <2>2, <2>4 DEF MembershipInv, Going
  <2>7. AnswersInv'
    BY <1>0, <2>2, <2>5 DEF AnswersInv, Going
  <2>8. \A d : Brought(d) => Brought(d)'
    BY <1>0, <2>2 DEF Brought, Going
  <2>9. ShownInv'
    BY <2>1, <2>3, <2>4, <2>5, <2>8 DEF ShownInv
  <2> QED
    BY <2>6, <2>7, <2>9
<1> QED
  BY <1>1, <1>2, <1>3, <1>4, <1>5, <1>6

\* The handler of an event makes the list right about the chat it names.
LEMMA EventsMine ==
  ASSUME MineInv, LinkInv, LoadsTyped, WireTyped, SocketTyped, UNCHANGED view,
         HandleCreated \/ HandleRemoved \/ HandleMessage
  PROVE  MineInv'
<1> USE DEF MineInv
<1>0. /\ Idle.state = "idle" /\ DOMAIN <<>> = {}
      /\ "chat_created" \notin Removal /\ "message" \notin Removal
  BY DEF Idle, Removal
<1>1. view = "on"
  BY DEF HandleCreated, HandleRemoved, HandleMessage, Received, LinkInv, Unseeded, SocketTyped
<1>2. PICK c \in Chat : c = Head(wire).chat
  BY ReceivedTyped DEF HandleCreated, HandleRemoved, HandleMessage
<1>3. CASE HandleCreated
  <2>1. /\ Received("chat_created") /\ Ask([op |-> "subscribe", chat |-> c])
        /\ UNCHANGED <<member, chats, leaving, stale>>
    BY <1>2, <1>3 DEF HandleCreated, serverVars
  <2>2. \A l \in Load : Going(l)
    BY <1>1, <2>1, AskGoes
  <2>3. Brought(c)'
    <3>1. PICK l \in Load : loads' = [loads EXCEPT ![l] = Asked([op |-> "subscribe", chat |-> c])]
      BY <2>1, AskTakes
    <3>2. loads'[l] = Asked([op |-> "subscribe", chat |-> c])
      BY <3>1 DEF LoadsTyped
    <3>3. \A x : Asked(x).state = "asked" /\ Asked(x).after = x
      BY DEF Asked, Idle
    <3>4. loads'[l].state = "asked" /\ loads'[l].after.chat = c
      BY <3>2, <3>3
    <3> QED
      BY <3>4 DEF Brought
  <2>4. \A d \in Chat : /\ Announced(d) => Announced(d)' \/ d = c
                        /\ Removed(d)' <=> Removed(d)
                        /\ Ordered(d) => Ordered(d)'
    BY <1>0, <1>2, <2>1, TailWire
  <2>5. Members' = Members
    BY <2>1 DEF Members
  <2>6. MembershipInv'
    BY <1>0, <2>1, <2>2, <2>4 DEF MembershipInv, Going
  <2>7. AnswersInv'
    BY <1>0, <2>2, <2>5 DEF AnswersInv, Going
  <2>8. \A d : Brought(d) => Brought(d)'
    BY <1>0, <2>2 DEF Brought, Going
  <2>9. ShownInv'
    BY <2>1, <2>3, <2>4, <2>5, <2>8 DEF ShownInv
  <2> QED
    BY <2>6, <2>7, <2>9
<1>4. CASE HandleRemoved
  <2>1. /\ removeChatLocal(c) /\ UNCHANGED <<member, loads, leaving, stale>>
    BY <1>2, <1>4 DEF HandleRemoved, serverVars
  <2>2. PICK type \in Removal : Received(type)
    BY <1>4 DEF HandleRemoved, Removal
  <2>3. /\ Removed(c)
        /\ \A d \in Chat : /\ Announced(d)' <=> Announced(d)
                           /\ Removed(d) => Removed(d)' \/ d = c
                           /\ Removed(d)' => Removed(d)
                           /\ Ordered(d) => Ordered(d)'
    BY <1>0, <1>2, <2>2, TailWire
  <2>4. DOMAIN chats' = DOMAIN chats \ {c}
    BY <2>1 DEF removeChatLocal
  <2>5. Members' = Members /\ c \notin Members
    BY <2>1, <2>3 DEF Members, MembershipInv
  <2>6. MembershipInv'
    BY <2>1, <2>3, <2>4 DEF MembershipInv
  <2>7. AnswersInv'
    BY <2>1, <2>5 DEF AnswersInv
  <2>8. ShownInv'
    BY <1>1, <2>1, <2>3, <2>4, <2>5 DEF ShownInv, Brought
  <2> QED
    BY <2>6, <2>7, <2>8
<1>5. CASE HandleMessage
  <2>1. /\ Received("message") /\ stale \subseteq stale'
        /\ UNCHANGED <<member, leaving, loads>>
    BY <1>5 DEF HandleMessage, serverVars
  <2>2. DOMAIN chats' = DOMAIN chats
    BY <1>5 DEF HandleMessage
  <2>3. WireSame
    BY <1>0, <2>1, TailWire DEF WireSame
  <2> QED
    BY <2>1, <2>2, <2>3, MineQuiet DEF Going
<1> QED
  BY <1>3, <1>4, <1>5

\* A load that arrives makes the list right about every chat that did not change since.
LEMMA AnswersMine ==
  ASSUME MineInv, LinkInv, LoadsTyped, ServerTyped, SocketTyped, NEW l \in Load,
         Answer(l) \/ LoadArrives(l) \/ LoadFails(l), UNCHANGED view
  PROVE  MineInv'
<1> USE DEF MineInv
<1>0. Idle.state = "idle" /\ Idle.list = <<>> /\ DOMAIN <<>> = {}
  BY DEF Idle
<1>1. view = "on"
  BY <1>0 DEF Answer, LoadArrives, LoadFails, LinkInv, SocketTyped
<1>2. \A list, after : DOMAIN Opened(list, after) = DOMAIN list
  BY DEF Opened, NoUnread
<1>3. UNCHANGED <<member, leaving, wire>> /\ WireSame /\ Members' = Members
  BY WireStays DEF Answer, LoadArrives, LoadFails, serverVars, Members
<1>4. \A m \in Load : m # l => loads'[m] = loads[m]
  BY DEF Answer, LoadArrives, LoadFails, LoadsTyped
<1>5. loads[l].after.chat \in Chat \cup {NoChat}
  BY DEF LoadsTyped, LoadType, AfterType, Nothing
<1>6. CASE Answer(l)
  <2>1. /\ loads'[l].state = "answered" /\ DOMAIN loads'[l].list = Members
        /\ loads'[l].after = loads[l].after /\ loads[l].state = "asked"
        /\ UNCHANGED <<chats, stale>>
    BY <1>6 DEF Answer, LoadsTyped, LoadType
  <2>2. MembershipInv'
    BY <1>3, <1>4, <2>1 DEF MembershipInv, WireSame, Members
  <2>3. AnswersInv'
    BY <1>3, <1>4, <2>1 DEF AnswersInv
  <2>4. \A d : Brought(d) => Brought(d)'
    BY <1>4, <2>1 DEF Brought
  <2>5. ShownInv'
    BY <1>1, <1>3, <2>1, <2>4 DEF ShownInv, WireSame
  <2> QED
    BY <2>2, <2>3, <2>5
<1>7. CASE LoadArrives(l)
  <2>1. /\ loads'[l] = Idle /\ loads[l].state = "answered"
        /\ DOMAIN chats' = DOMAIN loads[l].list
    BY <1>2, <1>7 DEF LoadArrives, LoadsTyped
  <2>2. \A c \in Chat \ stale' :
          c \in loads[l].since => Announced(c) \/ Removed(c) \/ c \in leaving
    BY <1>7, OnWireMembership DEF LoadArrives
  <2>3. MembershipInv'
    BY <1>0, <1>3, <1>4, <2>1 DEF MembershipInv, WireSame
  <2>4. AnswersInv'
    BY <1>0, <1>3, <1>4, <2>1 DEF AnswersInv
  <2>5. ASSUME NEW c \in Chat \ stale'
        PROVE  /\ c \in Members \ DOMAIN loads[l].list => Announced(c)
               /\ c \in DOMAIN loads[l].list \ Members => Removed(c) \/ c \in leaving
    <3>1. CASE c \notin loads[l].since
      BY <2>1, <3>1 DEF AnswersInv
    <3>2. CASE c \in loads[l].since
      <4>1. c \in Members => ~Removed(c) /\ c \notin leaving
        BY DEF Members, MembershipInv
      <4>2. ASSUME c \in DOMAIN loads[l].list \ Members PROVE member[c] = "out"
        BY <4>2 DEF Members, MembershipInv, ServerTyped
      <4>3. member[c] = "out" /\ Announced(c) => Removed(c)
        BY DEF MembershipInv, Ordered, Announced, Removed, OnWire
      <4> QED
        BY <2>2, <3>2, <4>1, <4>2, <4>3
    <3> QED
      BY <3>1, <3>2
  <2>6. ShownInv'
    BY <1>3, <2>1, <2>5 DEF ShownInv, WireSame
  <2> QED
    BY <2>3, <2>4, <2>6
<1>8. CASE LoadFails(l)
  <2>1. /\ loads'[l] = Idle /\ loads[l].state = "asked"
        /\ DOMAIN chats' = DOMAIN chats
        /\ stale' = stale \cup (IF loads[l].after.op = "mount" THEN Chat
                                ELSE {loads[l].after.chat} \cap Chat)
    BY <1>2, <1>8 DEF LoadFails, LoadsTyped
  <2>2. MembershipInv'
    BY <1>0, <1>3, <1>4, <2>1 DEF MembershipInv, WireSame
  <2>3. AnswersInv'
    BY <1>0, <1>3, <1>4, <2>1 DEF AnswersInv
  <2>4. \A c \in Chat \ stale' : Brought(c) => Brought(c)'
    BY <1>4, <2>1 DEF Brought
  <2>5. ShownInv'
    BY <1>1, <1>3, <2>1, <2>4 DEF ShownInv, WireSame
  <2> QED
    BY <2>2, <2>3, <2>5
<1> QED
  BY <1>6, <1>7, <1>8

\* The view is mounted: the load that brings every chat is under way.
LEMMA OpenMine ==
  ASSUME MineInv, LinkInv, LoadsTyped, OpenView PROVE MineInv'
<1> USE DEF MineInv
<1> DEFINE a == [op |-> "mount", chat |-> NoChat]
<1>1. PICK l \in Load : loads' = [loads EXCEPT ![l] = Asked(a)]
  BY AskTakes DEF OpenView
<1>2. /\ Asked(a).state = "asked" /\ Asked(a).list = <<>> /\ Asked(a).after.op = "mount"
      /\ DOMAIN <<>> = {}
  BY DEF Asked, Idle
<1> HIDE DEF a
<1>3. \A m \in Load : loads'[m] = IF m = l THEN Asked(a) ELSE loads[m]
  BY <1>1 DEF LoadsTyped
<1>4. WireSame /\ Members' = Members /\ UNCHANGED <<member, leaving, chats, stale>>
  BY WireStays DEF OpenView, serverVars, Members
<1>5. MembershipInv'
  BY <1>2, <1>3, <1>4 DEF MembershipInv, WireSame
<1>6. AnswersInv'
  BY <1>2, <1>3, <1>4 DEF AnswersInv
<1>7. \A c : Brought(c)'
  BY <1>2, <1>3 DEF Brought
<1>8. ShownInv'
  BY <1>4, <1>7 DEF ShownInv, WireSame
<1> QED
  BY <1>5, <1>6, <1>8

\* What the socket closes on is lost, and noted.
LEMMA CloseMine ==
  ASSUME MineInv, OnClose, UNCHANGED view PROVE MineInv'
<1> USE DEF MineInv
<1>1. /\ wire' = <<>> /\ stale' = stale \cup OnWire(Membership \cup {"message"})
      /\ UNCHANGED <<member, chats, loads, leaving>>
  BY DEF OnClose
<1>2. \A c : ~Announced(c)' /\ ~Removed(c)' /\ Ordered(c)'
  BY <1>1 DEF Announced, Removed, Ordered, OnWire
<1>3. \A c : Announced(c) \/ Removed(c) => c \in OnWire(Membership \cup {"message"})
  BY DEF Announced, Removed, OnWire, Removal, Membership
<1>4. Members' = Members
  BY <1>1 DEF Members
<1>5. MembershipInv'
  BY <1>1, <1>2 DEF MembershipInv
<1>6. AnswersInv'
  BY <1>1, <1>4 DEF AnswersInv
<1>7. ShownInv'
  BY <1>1, <1>2, <1>3, <1>4 DEF ShownInv, Brought
<1> QED
  BY <1>5, <1>6, <1>7

\* The answer to a call to leave takes the chat out of the list.
LEMMA LeftMine ==
  ASSUME MineInv, NEW c \in Chat, LeaveAnswered(c), UNCHANGED view PROVE MineInv'
<1> USE DEF MineInv
<1>1. /\ c \in leaving /\ leaving' = leaving \ {c} /\ DOMAIN chats' = DOMAIN chats \ {c}
      /\ UNCHANGED <<member, wire, loads, stale>>
  BY DEF LeaveAnswered, removeChatLocal, serverVars
<1>2. WireSame
  BY <1>1, WireStays
<1>3. Members' = Members /\ c \notin Members
  BY <1>1 DEF Members, MembershipInv
<1>4. MembershipInv'
  BY <1>1, <1>2 DEF MembershipInv, WireSame
<1>5. AnswersInv'
  BY <1>1, <1>3 DEF AnswersInv
<1>6. ShownInv'
  BY <1>1, <1>2, <1>3 DEF ShownInv, WireSame, Brought
<1> QED
  BY <1>4, <1>5, <1>6

\* Reading, toggling, and what is seen of the peers lists no chat and drops none.
LEMMA ReadingMine ==
  ASSUME MineInv, LoadsTyped, UNCHANGED view,
         \/ markReadTimer \/ onMsgListScroll \/ OnFocus
         \/ SendLoads /\ view = "on"
         \/ PollTick /\ view = "on"
         \/ Auth
         \/ \E c \in Chat : MarkFails(c) \/ AskToggle(c)
         \/ \E c \in DOMAIN chats \cup {NoChat} : setActiveChat(c)
         \/ \E t \in Toggle : Toggled(t) \/ ToggleAnswered(t) \/ ToggleFails(t)
         \/ OnOpen /\ view = "on"
  PROVE  MineInv'
<1>0. \A list, after, c : DOMAIN Opened(list, after) = DOMAIN list
                          /\ DOMAIN NoUnread(list, c) = DOMAIN list
  BY DEF Opened, NoUnread
<1>1. UNCHANGED <<member, leaving, wire>> /\ stale \subseteq stale'
  BY DEF markReadTimer, onMsgListScroll, OnFocus, SendLoads, PollTick, Auth, MarkFails,
         AskToggle, setActiveChat, Toggled, ToggleAnswered, ToggleFails, OnOpen, serverVars
<1>2. DOMAIN chats' = DOMAIN chats
  BY <1>0
  DEF markReadTimer, onMsgListScroll, OnFocus, SendLoads, PollTick, Auth, MarkFails,
      AskToggle, setActiveChat, Toggled, ToggleAnswered, ToggleFails, OnOpen, serverVars, ReadActive
<1>3. ASSUME UNCHANGED loads PROVE \A l \in Load : Going(l)
  BY <1>3 DEF Going
<1>4. ASSUME NEW t \in Toggle, Toggled(t) PROVE \A l \in Load : Going(l)
  BY <1>4, ChangedGoes DEF Toggled
<1>5. ASSUME view = "on", Ask(Nothing) PROVE \A l \in Load : Going(l)
  BY <1>5, AskGoes DEF Nothing
<1>6. \/ UNCHANGED loads
      \/ \E t \in Toggle : Toggled(t)
      \/ view = "on" /\ Ask(Nothing)
  BY DEF markReadTimer, onMsgListScroll, OnFocus, SendLoads, PollTick, Auth, MarkFails,
         AskToggle, setActiveChat, ToggleAnswered, ToggleFails, OnOpen, serverVars
<1>7. \A l \in Load : Going(l)
  BY <1>3, <1>4, <1>5, <1>6
<1> QED
  BY <1>1, <1>2, <1>7, WireStays, MineQuiet

\* Steps that leave the whole list alone keep it.
LEMMA MineStays ==
  ASSUME MineInv, UNCHANGED listVars, UNCHANGED view PROVE MineInv'
BY MineQuiet, WireStays DEF listVars, serverVars, Going

\* `MineInv` survives every step of the client.
LEMMA MineStep ==
  ASSUME MineInv, LinkInv, ListTyped, SocketTyped, FlagsTyped, [Next]_vars
  PROVE  MineInv'
<1> USE DEF ListTyped
<1>1. CASE UNCHANGED clientVars
  BY <1>1, MineStays DEF clientVars, wsVars, linkVars, socketVars
<1>2. CASE ListNext /\ UNCHANGED part
  <2>0. UNCHANGED wsVars => UNCHANGED view
    BY DEF wsVars, linkVars, socketVars
  <2>1. CASE OpenView
    BY <2>1, OpenMine
  <2>2. CASE Opens \/ Retries
    <3>1. view = "on" /\ UNCHANGED view
      BY <2>2 DEF Opens, Retries, onopen, Reconnect, LinkInv, Unseeded, SocketTyped
    <3> QED
      BY <2>2, <3>1, ReadingMine, MineStays DEF Opens, Retries
  <2>3. CASE Closes
    BY <2>3, CloseMine DEF Closes, onclose
  <2>4. CASE (Auth \/ PollTick) /\ UNCHANGED <<wsVars, peersVars>>
    <3>1. PollTick => view = "on"
      BY DEF LinkInv, Unseeded, SocketTyped, PollTick
    <3> QED
      BY <2>0, <2>4, <3>1, ReadingMine
  <2>5. ASSUME NEW l \in Load, ListTaken(l) \/ ListArrives(l) \/ ListFails(l) PROVE MineInv'
    <3>1. UNCHANGED view /\ (Answer(l) \/ LoadArrives(l) \/ LoadFails(l))
      BY <2>0, <2>5 DEF ListTaken, ListArrives, ListFails, Mounted
    <3> QED
      BY <3>1, AnswersMine
  <2>6. CASE MembersNext /\ UNCHANGED <<wsVars, peersVars>>
    <3>1. ASSUME NEW c \in Moving,
                 Created(c) \/ Added(c) \/ Deleted(c) \/ Leave(c) \/ (view = "on" /\ CreateOwn(c))
          PROVE  MineInv'
      BY <2>0, <2>6, <3>1, ServerMine, MovingAssumption
    <3>2. ASSUME NEW c \in Moving, LeaveAnswered(c) PROVE MineInv'
      BY <2>0, <2>6, <3>2, LeftMine, MovingAssumption
    <3>3. CASE HandleCreated \/ HandleRemoved
      BY <2>0, <2>6, <3>3, EventsMine
    <3> QED
      BY <2>6, <3>1, <3>2, <3>3 DEF MembersNext
  <2>7. CASE UnreadNext /\ UNCHANGED <<wsVars, peersVars>>
    <3>1. SendLoads => view = "on"
      BY DEF SendLoads, LinkInv, SocketTyped
    <3>2. ASSUME NEW c \in Chat, Posted(c) \/ Unposted(c) \/ Marked(c) PROVE MineInv'
      BY <2>0, <2>7, <3>2, ServerMine
    <3>3. CASE HandleMessage
      BY <2>0, <2>7, <3>3, EventsMine
    <3> QED
      BY <2>0, <2>7, <3>1, <3>2, <3>3, ReadingMine DEF UnreadNext
  <2>8. CASE FocusReads \/ LoseFocus
    <3>1. UNCHANGED view
      BY <2>8 DEF FocusReads, LoseFocus, onWindowFocus, onWindowBlur, linkVars, socketVars
    <3> QED
      BY <2>8, <3>1, ReadingMine, MineStays DEF FocusReads, LoseFocus
  <2>9. CASE FlagsNext /\ UNCHANGED <<wsVars, peersVars>>
    BY <2>0, <2>9, ReadingMine, MovingAssumption DEF FlagsNext
  <2>10. CASE UNCHANGED <<wsVars, listVars>>
    BY <2>0, <2>10, MineStays
  <2> QED
    BY <1>2, <2>1, <2>2, <2>3, <2>4, <2>5, <2>6, <2>7, <2>8, <2>9, <2>10 DEF ListNext, Lifecycle
<1> QED
  BY <1>1, <1>2 DEF Next, DialogNext, vars, clientVars

\* Nobody is connected at the start, so nothing is claimed yet.
LEMMA MineStart == Init => MineInv
<1> SUFFICES ASSUME Init PROVE MineInv
  OBVIOUS
<1>1. /\ wire = <<>> /\ leaving = {} /\ stale = {} /\ view = "off" /\ chats = <<>>
      /\ member \in [Chat -> {"none", "in"}] /\ \A l \in Load : loads[l] = Idle
  BY DEF Init, WsInit, ListInit
<1>2. /\ Idle.state = "idle" /\ Idle.list = <<>> /\ DOMAIN <<>> = {}
  BY DEF Idle
<1>3. \A c : ~Announced(c) /\ ~Removed(c) /\ Ordered(c)
  BY <1>1 DEF Announced, Removed, Ordered, OnWire
<1> QED
  BY <1>1, <1>2, <1>3 DEF MineInv, MembershipInv, AnswersInv, ShownInv

-------------------------------------------------------------------------------
\* Badges and flags.

\* The messages of c that are on the wire.
Coming(c) == {i \in DOMAIN wire : wire[i].chat = c /\ wire[i].type = "message"}
Waiting(c) == Cardinality(Coming(c))

\* A message of c that waits is on the wire, and the wire is finite.
LEMMA ComingFinite ==
  ASSUME WireTyped, NEW c
  PROVE  /\ IsFiniteSet(Coming(c)) /\ Waiting(c) \in Nat
         /\ Waiting(c) = 0 <=> Coming(c) = {}
<1>1. DOMAIN wire = 1..Len(wire) /\ Len(wire) \in Nat
  BY DEF WireTyped
<1>2. IsFiniteSet(1..Len(wire))
  BY <1>1, FS_Interval
<1>3. Coming(c) \in SUBSET (1..Len(wire))
  BY <1>1 DEF Coming
<1>4. IsFiniteSet(Coming(c))
  BY <1>2, <1>3, FS_Subset
<1> QED
  BY <1>4, FS_CardinalityType, FS_EmptySet DEF Waiting

\* A message event is on the wire exactly when some are counted.
LEMMA NoneComing ==
  ASSUME WireTyped, NEW c \in Chat PROVE c \in OnWire({"message"}) <=> Waiting(c) # 0
BY ComingFinite DEF Coming, OnWire

\* A message that is sent waits, unless this socket does not receive it.
LEMMA PublishWaits ==
  ASSUME NEW d \in Chat, Publish("message", d), WireTyped
  PROVE  \A c \in Chat : Waiting(c)' = IF c = d /\ Reaches("message", d) THEN Waiting(c) + 1
                                                                      ELSE Waiting(c)
<1> DEFINE e == [type |-> "message", chat |-> d]  n == Len(wire)
<1>1. CASE ~Reaches("message", d)
  BY <1>1 DEF Publish, Waiting, Coming
<1>2. CASE Reaches("message", d)
  <2>1. wire' = Append(wire, e) /\ e.type = "message" /\ e.chat = d
    BY <1>2 DEF Publish
  <2> HIDE DEF e
  <2>2. /\ n \in Nat /\ DOMAIN wire = 1..n /\ DOMAIN wire' = (1..n) \cup {n + 1}
        /\ n + 1 \notin 1..n /\ wire'[n + 1] = e /\ \A i \in 1..n : wire'[i] = wire[i]
    BY <2>1 DEF WireTyped
  <2> HIDE DEF n
  <2> SUFFICES ASSUME NEW c \in Chat
               PROVE  Waiting(c)' = IF c = d THEN Waiting(c) + 1 ELSE Waiting(c)
    BY <1>2
  <2>3. IsFiniteSet(Coming(c))
    BY ComingFinite
  <2>4. CASE c = d
    <3>1. Coming(c)' = Coming(c) \cup {n + 1} /\ n + 1 \notin Coming(c)
      BY <2>1, <2>2, <2>4 DEF Coming
    <3>2. Cardinality(Coming(c)') = Cardinality(Coming(c)) + 1
      BY <2>3, <3>1, FS_AddElement
    <3> QED
      BY <2>4, <3>2 DEF Waiting
  <2>5. CASE c # d
    <3>1. Coming(c)' = Coming(c)
      BY <2>1, <2>2, <2>5 DEF Coming
    <3> QED
      BY <2>5, <3>1 DEF Waiting
  <2> QED
    BY <2>4, <2>5
<1> QED
  BY <1>1, <1>2

\* The message at the head waits no longer.
LEMMA ReceivedWaits ==
  ASSUME Received("message"), WireTyped
  PROVE  \A c \in Chat : Waiting(c)' = IF c = Head(wire).chat THEN Waiting(c) - 1 ELSE Waiting(c)
<1> DEFINE n == Len(wire)
<1>1. /\ n \in Nat /\ n > 0 /\ DOMAIN wire = 1..n /\ DOMAIN wire' = 1..(n - 1)
      /\ Head(wire) = wire[1] /\ Head(wire).type = "message" /\ Head(wire).chat \in Chat
      /\ \A i \in 1..(n - 1) : wire'[i] = wire[i + 1]
  <2>1. wire \in Seq(EventType) /\ wire # <<>> /\ wire' = Tail(wire)
    BY DEF Received, WireTyped
  <2> QED
    BY <2>1, ReceivedTyped
<1> HIDE DEF n
<1> SUFFICES ASSUME NEW c \in Chat
             PROVE  Waiting(c)' = IF c = Head(wire).chat THEN Waiting(c) - 1 ELSE Waiting(c)
  OBVIOUS
<1> DEFINE S == Coming(c) \ {1}  T == Coming(c)'  f == [i \in S |-> i - 1]
<1>2. IsFiniteSet(Coming(c)) /\ Waiting(c) \in Nat
  BY ComingFinite
<1>3. 1 \in Coming(c) <=> c = Head(wire).chat
  BY <1>1 DEF Coming
<1>4. IsFiniteSet(S) /\ Cardinality(S) = IF c = Head(wire).chat THEN Waiting(c) - 1 ELSE Waiting(c)
  BY <1>2, <1>3, FS_RemoveElement DEF Waiting
<1>5. S \subseteq 2..n /\ T \subseteq 1..(n - 1)
  BY <1>1 DEF Coming
<1>6. \A i \in S : i - 1 \in T
  <2> TAKE i \in S
  <2>1. i - 1 \in 1..(n - 1) /\ wire'[i - 1] = wire[i]
    BY <1>1, <1>5
  <2> QED
    BY <1>1, <2>1 DEF Coming
<1>7. \A j \in T : j + 1 \in S
  <2> TAKE j \in T
  <2>1. j \in 1..(n - 1) /\ j + 1 \in 1..n /\ j + 1 # 1 /\ wire'[j] = wire[j + 1]
    BY <1>1, <1>5
  <2> QED
    BY <1>1, <2>1 DEF Coming
<1> HIDE DEF S, T
<1>8. f \in [S -> T] /\ \A i, j \in S : f[i] = f[j] => i = j
  BY <1>5, <1>6
<1>9. \A j \in T : j + 1 \in S /\ f[j + 1] = j
  BY <1>5, <1>7
<1> HIDE DEF f
<1>10. f \in Bijection(S, T)
  BY <1>8, <1>9 DEF Bijection, Injection, IsInjective, Surjection
<1>11. ExistsBijection(S, T)
  BY <1>10 DEF ExistsBijection
<1>12. Cardinality(T) = Cardinality(S)
  BY <1>4, <1>11, FS_Bijection
<1> QED
  BY <1>4, <1>12 DEF T, Waiting

\* In the part of another there are no messages, and no flags.
Unread0(list) == \A c \in DOMAIN list : list[c].unread = 0
Unpinned(list) == \A c \in DOMAIN list : ~list[c].pinned

NewsRest ==
  /\ \A c \in Chat : news[c] = 0
  /\ Unread0(chats)
  /\ \A l \in Load : Unread0(loads[l].list)
PinsRest == pins = {} /\ Unpinned(chats) /\ \A l \in Load : Unpinned(loads[l].list)

\* Nor does a chat come or go in the part of the badges or the flags.
RestInv ==
  /\ part # "unread" => NewsRest
  /\ part # "flags" => PinsRest
  /\ part \in {"unread", "flags"} => OnWire(Membership) = {} /\ leaving = {}

\* What is opened or taken from the list leaves the other entries and the flags.
LEMMA OpenedRests ==
  ASSUME NEW list \in ChatLists, NEW after, NEW c
  PROVE  /\ Unread0(list) => Unread0(Opened(list, after)) /\ Unread0(NoUnread(list, c))
         /\ Unpinned(list) => Unpinned(Opened(list, after)) /\ Unpinned(NoUnread(list, c))
         /\ Unread0(list) => Unread0([d \in DOMAIN list \ {c} |-> list[d]])
         /\ Unpinned(list) => Unpinned([d \in DOMAIN list \ {c} |-> list[d]])
<1>1. \A d \in DOMAIN list : list[d] \in Entry
  BY ListsTyped
<1>2. \A d : \A e \in DOMAIN list :
        /\ DOMAIN NoUnread(list, d) = DOMAIN list
        /\ NoUnread(list, d)[e].pinned = list[e].pinned
        /\ NoUnread(list, d)[e].unread = IF e = d THEN 0 ELSE list[e].unread
  BY <1>1 DEF NoUnread, Entry
<1>3. \A d : /\ Unread0(list) => Unread0(NoUnread(list, d))
             /\ Unpinned(list) => Unpinned(NoUnread(list, d))
  <2> TAKE d
  <2>1. PICK n : n = NoUnread(list, d)
    OBVIOUS
  <2>2. \A e \in DOMAIN list : /\ DOMAIN n = DOMAIN list
                               /\ n[e].pinned = list[e].pinned
                               /\ n[e].unread = IF e = d THEN 0 ELSE list[e].unread
    BY <1>2, <2>1
  <2>3. DOMAIN n = DOMAIN list
    BY <2>1 DEF NoUnread
  <2>4. /\ Unread0(list) => Unread0(n)
        /\ Unpinned(list) => Unpinned(n)
    BY <2>2, <2>3 DEF Unread0, Unpinned
  <2> QED
    BY <2>1, <2>4
<1>4. /\ Unread0(list) => Unread0(Opened(list, after))
      /\ Unpinned(list) => Unpinned(Opened(list, after))
  BY <1>3 DEF Opened
<1> DEFINE less == [d \in DOMAIN list \ {c} |-> list[d]]
<1>5. DOMAIN less = DOMAIN list \ {c} /\ \A d \in DOMAIN list \ {c} : less[d] = list[d]
  OBVIOUS
<1> HIDE DEF less
<1>6. /\ Unread0(list) => Unread0(less)
      /\ Unpinned(list) => Unpinned(less)
  BY <1>5 DEF Unread0, Unpinned
<1> QED
  BY <1>3, <1>4, <1>6 DEF less

\* The lists on their way stay, become empty, or are what the server has.
ListsFrom(l) == loads'[l].list = loads[l].list \/ loads'[l].list = <<>>

\* A load that is asked,
LEMMA AskLists ==
  ASSUME NEW after, Ask(after), LoadsTyped PROVE \A l \in Load : ListsFrom(l)
<1>1. PICK l \in Load : loads' = [loads EXCEPT ![l] = Asked(after)]
  BY AskTakes
<1>2. Asked(after).list = <<>>
  BY DEF Asked, Idle
<1> QED
  BY <1>1, <1>2 DEF LoadsTyped, ListsFrom

\* a change that loads note,
LEMMA ChangedLists ==
  ASSUME NEW c, Changed(c), LoadsTyped PROVE \A l \in Load : ListsFrom(l)
BY DEF Changed, LoadsTyped, LoadType, ListsFrom

\* and a load that ends: the lists in flight come from those before.
LEMMA EndedLists ==
  ASSUME NEW l, loads' = [loads EXCEPT ![l] = Idle], LoadsTyped PROVE \A m \in Load : ListsFrom(m)
BY DEF Idle, LoadsTyped, ListsFrom

\* A list that is not of the part keeps no badge, and no flag.
LEMMA NewsRests ==
  ASSUME NewsRest, UNCHANGED news, Unread0(chats'), \A l \in Load : ListsFrom(l) PROVE NewsRest'
<1>1. Unread0(<<>>)
  BY DEF Unread0
<1> QED
  BY <1>1 DEF NewsRest, ListsFrom, Unread0

\* As long as nobody sets a flag, no flag is shown.
LEMMA PinsRests ==
  ASSUME PinsRest, UNCHANGED pins, Unpinned(chats'), \A l \in Load : ListsFrom(l) PROVE PinsRest'
<1>1. Unpinned(<<>>)
  BY DEF Unpinned
<1> QED
  BY <1>1 DEF PinsRest, ListsFrom, Unpinned

\* An answer is the server's list.
LEMMA AnswerRests ==
  ASSUME NEW l \in Load, Answer(l), LoadsTyped, ServerTyped
  PROVE  /\ NewsRest => NewsRest'
         /\ PinsRest => PinsRest'
         /\ \A c \in DOMAIN loads'[l].list : /\ c \in Chat
                                             /\ loads'[l].list[c].unread = news[c]
                                             /\ loads'[l].list[c].pinned <=> c \in pins
         /\ loads'[l].since = OnWire({"message"})
<1>1. /\ loads'[l].list = [c \in Members |-> [unread |-> news[c], pinned |-> c \in pins]]
      /\ loads'[l].since = OnWire({"message"})
      /\ \A m \in Load : m # l => loads'[m] = loads[m]
      /\ UNCHANGED <<news, pins, chats>>
  BY DEF Answer, LoadsTyped, LoadType, serverVars
<1>2. \A c \in DOMAIN loads'[l].list : /\ c \in Chat
                                       /\ loads'[l].list[c].unread = news[c]
                                       /\ loads'[l].list[c].pinned <=> c \in pins
  <2> TAKE c \in DOMAIN loads'[l].list
  <2> DEFINE e == [d \in Members |-> [unread |-> news[d], pinned |-> d \in pins]]
  <2>0. loads'[l].list = e /\ c \in Members /\ c \in Chat
    BY <1>1 DEF Members
  <2>1. PICK on \in BOOLEAN : on <=> c \in pins
    OBVIOUS
  <2>2. e[c] = [unread |-> news[c], pinned |-> on]
    BY <2>0, <2>1, Zenon
  <2> HIDE DEF e
  <2>3. e[c].unread = news[c] /\ e[c].pinned = on
    BY <2>2
  <2> QED
    BY <2>0, <2>1, <2>3
<1>3. NewsRest => NewsRest'
  BY <1>1, <1>2 DEF NewsRest, Unread0
<1>4. PinsRest => PinsRest'
  BY <1>1, <1>2 DEF PinsRest, Unpinned
<1> QED
  BY <1>1, <1>2, <1>3, <1>4

\* What a step may do to the entries of the list.
EntriesStep ==
  /\ UNCHANGED part
  /\ part # "unread" => UNCHANGED news
  /\ part # "flags" => UNCHANGED pins
  /\ \/ UNCHANGED chats
     \/ \E l \in Load : \E after : chats' = Opened(loads[l].list, after)
     \/ \E after : chats' = Opened(chats, after)
     \/ \E c : chats' = NoUnread(chats, c)
     \/ \E c : chats' = [d \in DOMAIN chats \ {c} |-> chats[d]]
     \/ part = "flags" /\ \E c \in Chat : chats' = [chats EXCEPT ![c].pinned = ~@]
     \/ part = "unread" /\ \E c \in Chat : chats' = [chats EXCEPT ![c].unread = @ + 1]
  /\ (\A l \in Load : ListsFrom(l)) \/ \E l \in Load : Answer(l)

\* What the steps of the client can do to badges and flags: one of the cases of `EntriesStep`.
LEMMA StepOfEntries == ListTyped /\ [Next]_vars => EntriesStep
<1> SUFFICES ASSUME ListTyped, [Next]_vars PROVE EntriesStep
  OBVIOUS
<1> USE DEF ListTyped
<1>0. UNCHANGED loads => \A l \in Load : ListsFrom(l)
  BY DEF ListsFrom
<1>1. CASE UNCHANGED vars \/ DialogNext
  BY <1>0, <1>1 DEF vars, clientVars, listVars, serverVars, DialogNext, Next, EntriesStep
<1>2. CASE ListNext /\ UNCHANGED part
  <2>1. CASE OpenView
    BY <1>2, <2>1, AskLists DEF OpenView, serverVars, EntriesStep
  <2>2. CASE Opens \/ Retries \/ Closes
    <3>1. \A l \in Load : ListsFrom(l)
      BY <1>0, <2>2, AskLists DEF Opens, Retries, Closes, OnOpen, OnClose, listVars
    <3> QED
      BY <1>2, <2>2, <3>1
      DEF Opens, Retries, Closes, OnOpen, OnClose, listVars, serverVars, EntriesStep
  <2>3. CASE Auth \/ PollTick
    <3>1. \A l \in Load : ListsFrom(l)
      BY <1>0, <2>3, AskLists DEF Auth, PollTick
    <3> QED
      BY <1>2, <2>3, <3>1 DEF Auth, PollTick, serverVars, EntriesStep
  <2>4. ASSUME NEW l \in Load, ListTaken(l) PROVE EntriesStep
    BY <1>2, <2>4 DEF ListTaken, Answer, serverVars, EntriesStep
  <2>5. ASSUME NEW l \in Load, ListArrives(l) PROVE EntriesStep
    <3>1. \A m \in Load : ListsFrom(m)
      BY <2>5, EndedLists DEF ListArrives, LoadArrives
    <3>2. PICK after : after = loads[l].after
      OBVIOUS
    <3>3. chats' = Opened(loads[l].list, after) /\ UNCHANGED <<news, pins>>
      BY <2>5, <3>2 DEF ListArrives, LoadArrives
    <3> QED
      BY <1>2, <3>1, <3>3 DEF EntriesStep
  <2>6. ASSUME NEW l \in Load, ListFails(l) PROVE EntriesStep
    <3>1. \A m \in Load : ListsFrom(m)
      BY <2>6, EndedLists DEF ListFails, LoadFails
    <3>2. PICK after : after = loads[l].after
      OBVIOUS
    <3>3. chats' = Opened(chats, after) /\ UNCHANGED <<news, pins>>
      BY <2>6, <3>2 DEF ListFails, LoadFails
    <3> QED
      BY <1>2, <3>1, <3>3 DEF EntriesStep
  <2>7. CASE MembersNext
    <3>1. \A l \in Load : ListsFrom(l)
      <4>1. CASE HandleCreated
        BY <4>1, AskLists DEF HandleCreated
      <4>2. ASSUME NEW c \in Moving, CreateOwn(c) PROVE \A l \in Load : ListsFrom(l)
        <5>1. loads' = [l \in Load |->
                IF l = Slot(loads, Idle) THEN Asked([op |-> "open", chat |-> c])
                ELSE IF loads[l].state = "answered"
                     THEN [loads[l] EXCEPT !.since = @ \cup {c}] ELSE loads[l]]
          BY <4>2 DEF CreateOwn
        <5>0. Asked([op |-> "open", chat |-> c]).list = <<>>
          BY DEF Asked, Idle
        <5>2. PICK q : q = Asked([op |-> "open", chat |-> c]) /\ q.list = <<>>
          BY <5>0, Zenon
        <5>3. PICK k : k = Slot(loads, Idle)
          OBVIOUS
        <5> QED
          BY <5>1, <5>2, <5>3 DEF LoadsTyped, LoadType, ListsFrom
      <4>3. CASE HandleRemoved \/ \E c \in Moving : Created(c) \/ LeaveAnswered(c)
        BY <1>0, <4>3 DEF HandleRemoved, Created, LeaveAnswered
      <4>4. CASE \E c \in Moving : Added(c) \/ Deleted(c) \/ Leave(c)
        BY <4>4, ChangedLists DEF Added, Deleted, Leave
      <4> QED
        BY <2>7, <4>1, <4>2, <4>3, <4>4 DEF MembersNext
    <3>2. UNCHANGED <<news, pins>>
      BY <2>7 DEF MembersNext, HandleCreated, HandleRemoved, Created, Added, Deleted, Leave,
                  LeaveAnswered, CreateOwn, serverVars
    <3>3. \/ UNCHANGED chats
          \/ \E c : chats' = [d \in DOMAIN chats \ {c} |-> chats[d]]
      BY <2>7 DEF MembersNext, HandleCreated, HandleRemoved, Created, Added, Deleted, Leave,
                  LeaveAnswered, CreateOwn, removeChatLocal
    <3> QED
      BY <1>2, <3>1, <3>2, <3>3 DEF EntriesStep
  <2>8. CASE UnreadNext /\ part = "unread"
    <3>1. \A l \in Load : ListsFrom(l)
      <4>1. CASE SendLoads
        BY <4>1, AskLists DEF SendLoads
      <4>2. CASE \E c \in Chat : Posted(c) \/ Unposted(c) \/ Marked(c)
        BY <4>2, ChangedLists DEF Posted, Unposted, Marked
      <4> QED
        BY <1>0, <2>8, <4>1, <4>2
        DEF UnreadNext, HandleMessage, markReadTimer, onMsgListScroll, MarkFails, setActiveChat
    <3>2. UNCHANGED pins
      BY <2>8 DEF UnreadNext, HandleMessage, markReadTimer, onMsgListScroll, SendLoads, Posted,
                  Unposted, Marked, MarkFails, setActiveChat, serverVars
    <3>3. CASE HandleMessage
      <4>1. \/ UNCHANGED chats
            \/ \E c \in Chat : chats' = [chats EXCEPT ![c].unread = @ + 1]
        <5>1. PICK c : c = Head(wire).chat
          OBVIOUS
        <5>2. c \in Chat
          BY <3>3, <5>1, ReceivedTyped DEF HandleMessage
        <5>3. UNCHANGED chats \/ chats' = [chats EXCEPT ![c].unread = @ + 1]
          BY <3>3, <5>1, Zenon DEF HandleMessage
        <5> QED
          BY <5>2, <5>3
      <4> QED
        BY <1>2, <2>8, <3>1, <3>2, <4>1 DEF EntriesStep
    <3>4. CASE \/ markReadTimer \/ SendLoads
               \/ \E c \in Chat : Posted(c) \/ Unposted(c) \/ Marked(c) \/ MarkFails(c)
      BY <1>2, <2>8, <3>1, <3>2, <3>4
      DEF markReadTimer, SendLoads, Posted, Unposted, Marked, MarkFails, EntriesStep
    <3>5. ASSUME NEW c, setActiveChat(c) PROVE EntriesStep
      <4>1. PICK after : chats' = Opened(chats, after)
        BY <3>5 DEF setActiveChat
      <4> QED
        BY <1>2, <2>8, <3>1, <3>2, <4>1 DEF EntriesStep
    <3>6. CASE onMsgListScroll
      <4>1. UNCHANGED chats \/ \E c : chats' = NoUnread(chats, c)
        BY <3>6 DEF onMsgListScroll, ReadActive
      <4> QED
        BY <1>2, <2>8, <3>1, <3>2, <4>1 DEF EntriesStep
    <3> QED
      BY <2>8, <3>3, <3>4, <3>5, <3>6 DEF UnreadNext
  <2>9. CASE FocusReads \/ LoseFocus
    <3>1. /\ UNCHANGED <<news, pins, loads>>
          /\ UNCHANGED chats \/ \E c : chats' = NoUnread(chats, c)
      BY <2>9 DEF FocusReads, LoseFocus, OnFocus, ReadActive, listVars, serverVars
    <3> QED
      BY <1>0, <1>2, <3>1 DEF EntriesStep
  <2>10. CASE FlagsNext /\ part = "flags"
    <3>1. \A l \in Load : ListsFrom(l)
      <4>1. CASE \E t \in Toggle : Toggled(t)
        BY <4>1, ChangedLists DEF Toggled
      <4> QED
        BY <1>0, <2>10, <4>1 DEF FlagsNext, AskToggle, ToggleAnswered, ToggleFails
    <3>2. UNCHANGED news
      BY <2>10 DEF FlagsNext, AskToggle, Toggled, ToggleAnswered, ToggleFails, serverVars
    <3>3. UNCHANGED chats \/ \E c \in Chat : chats' = [chats EXCEPT ![c].pinned = ~@]
      <4>1. ASSUME NEW t \in Toggle, ToggleAnswered(t)
            PROVE  UNCHANGED chats \/ \E c \in Chat : chats' = [chats EXCEPT ![c].pinned = ~@]
        <5>1. PICK c : c = toggles[t].chat
          OBVIOUS
        <5>2. c \in Chat
          BY <4>1, <5>1 DEF ToggleAnswered, StoreTyped, ToggleType
        <5>3. UNCHANGED chats \/ chats' = [chats EXCEPT ![c].pinned = ~@]
          BY <4>1, <5>1, Zenon DEF ToggleAnswered
        <5> QED
          BY <5>2, <5>3
      <4> QED
        BY <2>10, <4>1 DEF FlagsNext, AskToggle, Toggled, ToggleFails
    <3> QED
      BY <1>2, <2>10, <3>1, <3>2, <3>3 DEF EntriesStep
  <2>11. CASE UNCHANGED listVars
    BY <1>0, <1>2, <2>11 DEF listVars, serverVars, EntriesStep
  <2> QED
    BY <1>2, <2>1, <2>2, <2>3, <2>4, <2>5, <2>6, <2>7, <2>8, <2>9, <2>10, <2>11
    DEF ListNext, Lifecycle
<1> QED
  BY <1>1, <1>2 DEF Next, vars

\* What is outside the part of the badges, or of the flags, stays as it was.
LEMMA RestStep ==
  ASSUME RestInv, ListTyped, [Next]_vars PROVE RestInv'
<1> USE DEF ListTyped
<1>1. EntriesStep
  BY StepOfEntries
<1>2. chats \in ChatLists /\ \A l \in Load : loads[l].list \in ChatLists
  BY DEF StoreTyped, LoadsTyped, LoadType
<1>3. ASSUME part # "unread" PROVE NewsRest'
  <2>1. NewsRest /\ UNCHANGED news
    BY <1>1, <1>3 DEF RestInv, EntriesStep
  <2>2. Unread0(chats')
    <3>1. \A l \in Load : Unread0(loads[l].list)
      BY <2>1 DEF NewsRest
    <3>2. Unread0(chats)
      BY <2>1 DEF NewsRest
    <3>3. ASSUME NEW c \in Chat, chats' = [chats EXCEPT ![c].pinned = ~@] PROVE Unread0(chats')
      <4>1. \A d \in DOMAIN chats : chats[d] \in Entry
        BY <1>2, ListsTyped
      <4>2. \A d \in DOMAIN chats' : d \in DOMAIN chats /\ chats'[d].unread = chats[d].unread
        BY <3>3, <4>1 DEF Entry
      <4> QED
        BY <3>2, <4>2 DEF Unread0
    <3>4. CASE UNCHANGED chats
      BY <3>2, <3>4 DEF Unread0
    <3>5. ASSUME NEW list \in ChatLists, Unread0(list), NEW after, chats' = Opened(list, after)
          PROVE  Unread0(chats')
      BY <3>5, OpenedRests
    <3>6. ASSUME NEW c, \/ chats' = NoUnread(chats, c)
                        \/ chats' = [d \in DOMAIN chats \ {c} |-> chats[d]]
          PROVE  Unread0(chats')
      <4>1. /\ Unread0(NoUnread(chats, c))
            /\ Unread0([d \in DOMAIN chats \ {c} |-> chats[d]])
        BY <1>2, <3>2, OpenedRests
      <4> QED
        BY <3>6, <4>1, Zenon
    <3> QED
      BY <1>1, <1>2, <1>3, <3>1, <3>2, <3>3, <3>4, <3>5, <3>6, Zenon DEF EntriesStep
  <2>3. CASE \A l \in Load : ListsFrom(l)
    BY <2>1, <2>2, <2>3, NewsRests
  <2>4. CASE \E l \in Load : Answer(l)
    BY <2>1, <2>4, AnswerRests
  <2> QED
    BY <1>1, <2>3, <2>4 DEF EntriesStep
<1>4. ASSUME part # "flags" PROVE PinsRest'
  <2>1. PinsRest /\ UNCHANGED pins
    BY <1>1, <1>4 DEF RestInv, EntriesStep
  <2>2. Unpinned(chats')
    <3>1. \A l \in Load : Unpinned(loads[l].list)
      BY <2>1 DEF PinsRest
    <3>2. Unpinned(chats)
      BY <2>1 DEF PinsRest
    <3>3. ASSUME NEW c \in Chat, chats' = [chats EXCEPT ![c].unread = @ + 1] PROVE Unpinned(chats')
      <4>1. \A d \in DOMAIN chats : chats[d] \in Entry
        BY <1>2, ListsTyped
      <4>2. \A d \in DOMAIN chats' : d \in DOMAIN chats /\ chats'[d].pinned = chats[d].pinned
        BY <3>3, <4>1 DEF Entry
      <4> QED
        BY <3>2, <4>2 DEF Unpinned
    <3>4. CASE UNCHANGED chats
      BY <3>2, <3>4 DEF Unpinned
    <3>5. ASSUME NEW list \in ChatLists, Unpinned(list), NEW after, chats' = Opened(list, after)
          PROVE  Unpinned(chats')
      BY <3>5, OpenedRests
    <3>6. ASSUME NEW c, \/ chats' = NoUnread(chats, c)
                        \/ chats' = [d \in DOMAIN chats \ {c} |-> chats[d]]
          PROVE  Unpinned(chats')
      <4>1. /\ Unpinned(NoUnread(chats, c))
            /\ Unpinned([d \in DOMAIN chats \ {c} |-> chats[d]])
        BY <1>2, <3>2, OpenedRests
      <4> QED
        BY <3>6, <4>1, Zenon
    <3> QED
      BY <1>1, <1>2, <1>4, <3>1, <3>2, <3>3, <3>4, <3>5, <3>6, Zenon DEF EntriesStep
  <2>3. CASE \A l \in Load : ListsFrom(l)
    BY <2>1, <2>2, <2>3, PinsRests
  <2>4. CASE \E l \in Load : Answer(l)
    BY <2>1, <2>4, AnswerRests
  <2> QED
    BY <1>1, <2>3, <2>4 DEF EntriesStep
<1>5. ASSUME part \in {"unread", "flags"}
      PROVE  OnWire(Membership)' = {} /\ leaving' = {}
  <2>1. OnWire(Membership) = {} /\ leaving = {}
    BY <1>5 DEF RestInv
  <2>2. \/ UNCHANGED wire \/ wire' = <<>>
        \/ Received("message")
        \/ \E c \in Chat : Publish("message", c)
    BY <1>5
    DEF Next, vars, clientVars, listVars, ListNext, ListParts, Lifecycle, OpenView, Opens, OnOpen,
        Retries, Closes, OnClose, Auth, PollTick, ListTaken, Answer, ListArrives, LoadArrives,
        ListFails, LoadFails, UnreadNext, HandleMessage, markReadTimer, onMsgListScroll, SendLoads,
        Posted, Unposted, Marked, MarkFails, setActiveChat, FocusReads, OnFocus, LoseFocus, FlagsNext,
        AskToggle, Toggled, ToggleAnswered, ToggleFails, DialogNext
  <2>3. UNCHANGED leaving
    BY <1>5
    DEF Next, vars, clientVars, listVars, ListNext, ListParts, Lifecycle, OpenView, Opens, OnOpen,
        Retries, Closes, OnClose, Auth, PollTick, ListTaken, Answer, ListArrives, LoadArrives,
        ListFails, LoadFails, UnreadNext, HandleMessage, markReadTimer, onMsgListScroll, SendLoads,
        Posted, Unposted, Marked, MarkFails, setActiveChat, FocusReads, OnFocus, LoseFocus, FlagsNext,
        AskToggle, Toggled, ToggleAnswered, ToggleFails, DialogNext
  <2>4. \A i \in DOMAIN wire : wire[i].chat \in Chat => wire[i].type \notin Membership
    BY <2>1 DEF OnWire
  <2>5. \A i \in DOMAIN wire' : wire'[i].chat \in Chat => wire'[i].type \notin Membership
    <3>1. "message" \notin Membership
      BY DEF Membership
    <3>2. CASE UNCHANGED wire \/ wire' = <<>>
      BY <2>4, <3>2
    <3>3. CASE Received("message")
      <4>1. wire \in Seq(EventType) /\ wire # <<>> /\ wire' = Tail(wire)
        BY <3>3 DEF Received, WireTyped
      <4>2. \A i \in DOMAIN wire' : i + 1 \in DOMAIN wire /\ wire'[i] = wire[i + 1]
        BY <4>1
      <4> QED
        BY <2>4, <4>2
    <3>4. ASSUME NEW c \in Chat, Publish("message", c)
          PROVE  \A i \in DOMAIN wire' : wire'[i].chat \in Chat => wire'[i].type \notin Membership
      <4> DEFINE e == [type |-> "message", chat |-> c]
      <4>1. e.type = "message"
        OBVIOUS
      <4>2. wire' = wire \/ wire' = Append(wire, e)
        BY <3>4 DEF Publish
      <4> HIDE DEF e
      <4>3. \A i \in DOMAIN wire' : (i \in DOMAIN wire /\ wire'[i] = wire[i]) \/ wire'[i] = e
        BY <4>2 DEF WireTyped
      <4> QED
        BY <2>4, <3>1, <4>1, <4>3
    <3> QED
      BY <2>2, <3>2, <3>3, <3>4
  <2> QED
    BY <2>1, <2>3, <2>5 DEF OnWire
<1> QED
  BY <1>1, <1>3, <1>4, <1>5 DEF RestInv, EntriesStep

\* n is the right badge of c: with the messages on the wire it is what the server counts,
\* unless the chat is being marked as read; then it is zero.
BadgeRight(c, n) ==
  /\ marks[c] = "asked" => n = 0 /\ Waiting(c) = 0
  /\ pendingMarkReadChatId = c => n = 0
  /\ marks[c] = "none" /\ pendingMarkReadChatId # c => n + Waiting(c) = news[c]

BadgeOf(c) == BadgeRight(c, chats[c].unread)

\* An answer under way counts what the server counts, unless it knows of a change.
CountOf(l) ==
  \A c \in DOMAIN loads[l].list \ loads[l].since :
    loads[l].list[c].unread = news[c] /\ Waiting(c) = 0

BadgeInv ==
  /\ \A c \in DOMAIN chats \ stale : BadgeOf(c)
  /\ \A l \in Load : loads[l].state = "answered" => CountOf(l)

\* What neither sends, receives, counts nor marks leaves the badges right.
CallsCount == \A l \in Load : loads'[l].state = "answered" => CountOf(l)'

\* The counts of the loads under way stay right when news and wire are left alone,
LEMMA CountGoes ==
  ASSUME BadgeInv, UNCHANGED <<news, wire>>, \A l \in Load : Going(l) PROVE CallsCount
<1>1. \A c : Waiting(c)' = Waiting(c)
  BY DEF Waiting, Coming
<1> QED
  BY <1>1 DEF BadgeInv, CallsCount, CountOf, Going, Idle

\* and with them the badges.
LEMMA BadgeQuiet ==
  ASSUME BadgeInv, UNCHANGED <<news, wire, chats, marks, pendingMarkReadChatId>>,
         stale \subseteq stale', CallsCount
  PROVE  BadgeInv'
<1>1. \A c : Waiting(c)' = Waiting(c)
  BY DEF Waiting, Coming
<1> QED
  BY <1>1 DEF BadgeInv, BadgeOf, BadgeRight, CallsCount

\* The chat that is opened or read shows no badge, and is being marked.
LEMMA OpenBadges ==
  ASSUME ListTyped, NEW list \in ChatLists, NEW after, after.op = "open" => after.chat \in Chat,
         IF after.op = "open" THEN AskMark(after.chat) ELSE UNCHANGED marks,
         UNCHANGED <<news, wire, pendingMarkReadChatId>>, chats' = Opened(list, after),
         \A d \in DOMAIN list \ stale' : BadgeRight(d, list[d].unread)
  PROVE  \A d \in DOMAIN chats' \ stale' : BadgeOf(d)'
<1> USE DEF ListTyped
<1>1. \A d \in DOMAIN list : d \in Chat /\ list[d] \in Entry
  BY ListsTyped
<1>2. \A d : Waiting(d)' = Waiting(d)
  BY DEF Waiting, Coming
<1>3. CASE after.op = "open"
  <2>1. PICK c \in Chat : c = after.chat
    BY <1>3
  <2>2. chats' = NoUnread(list, c) /\ AskMark(c)
    BY <1>3, <2>1 DEF Opened
  <2>3. /\ DOMAIN chats' = DOMAIN list
        /\ \A d \in DOMAIN list : chats'[d].unread = IF d = c THEN 0 ELSE list[d].unread
    BY <1>1, <2>2 DEF NoUnread, Entry
  <2>4. /\ marks'[c] # "none"
        /\ marks'[c] = "asked" => Waiting(c) = 0
        /\ \A d \in Chat : d # c => marks'[d] = marks[d]
    BY <2>2, NoneComing DEF AskMark, StoreTyped
  <2>5. ASSUME NEW d \in DOMAIN list \ stale' PROVE BadgeOf(d)'
    <3>1. d \in Chat /\ pendingMarkReadChatId' = pendingMarkReadChatId /\ news' = news
      BY <1>1
    <3>2. CASE d = c
      <4>1. chats'[d].unread = 0
        BY <2>3, <3>2
      <4> QED
        BY <1>2, <2>4, <3>1, <3>2, <4>1 DEF BadgeOf, BadgeRight
    <3>3. CASE d # c
      <4>1. chats'[d].unread = list[d].unread /\ marks'[d] = marks[d]
        BY <2>3, <2>4, <3>1, <3>3
      <4>2. BadgeRight(d, list[d].unread)
        OBVIOUS
      <4> QED
        BY <1>2, <3>1, <4>1, <4>2 DEF BadgeOf, BadgeRight
    <3> QED
      BY <3>2, <3>3
  <2> QED
    BY <2>3, <2>5
<1>4. CASE after.op # "open"
  <2>1. chats' = list /\ marks' = marks
    BY <1>4 DEF Opened
  <2> QED
    BY <1>2, <2>1 DEF BadgeOf, BadgeRight
<1> QED
  BY <1>3, <1>4

\* What the server and the socket do to the badges.
LEMMA PostedBadge ==
  ASSUME BadgeInv, ListTyped, NEW c \in Chat, Posted(c) PROVE BadgeInv'
<1> USE DEF ListTyped
<1>1. /\ Changed(c) /\ news' = [news EXCEPT ![c] = @ + 1]
      /\ stale' = stale \cup (IF Reaches("message", c) THEN {} ELSE {c})
      /\ marks' = [marks EXCEPT ![c] = IF @ = "none" THEN @ ELSE "overtaken"]
      /\ UNCHANGED <<chats, pendingMarkReadChatId>>
  BY DEF Posted
<1>2. \A d \in Chat : /\ Waiting(d) \in Nat /\ news[d] \in Nat
                      /\ news'[d] = IF d = c THEN news[d] + 1 ELSE news[d]
                      /\ marks'[d] = IF d = c /\ marks[d] # "none" THEN "overtaken" ELSE marks[d]
  BY <1>1, ComingFinite, ListAssumption DEF ServerTyped, StoreTyped
<1>3. \A d \in Chat : Waiting(d)' = IF d = c /\ Reaches("message", c) THEN Waiting(d) + 1
                                                                    ELSE Waiting(d)
  BY PublishWaits DEF Posted
<1>4. \A d \in DOMAIN chats : d \in Chat /\ chats[d].unread \in Nat
  BY ListsTyped DEF StoreTyped, Entry
<1>5. ASSUME NEW d \in DOMAIN chats' \ stale' PROVE BadgeOf(d)'
  <2>1. d \in Chat /\ d \in DOMAIN chats \ stale /\ (d = c => Reaches("message", c))
    BY <1>1, <1>4
  <2>2. BadgeRight(d, chats[d].unread)
    BY <2>1 DEF BadgeInv, BadgeOf
  <2>3. CASE d = c
    BY <1>1, <1>2, <1>3, <1>4, <2>1, <2>2, <2>3 DEF BadgeOf, BadgeRight
  <2>4. CASE d # c
    BY <1>1, <1>2, <1>3, <2>1, <2>2, <2>4 DEF BadgeOf, BadgeRight
  <2> QED
    BY <2>3, <2>4
<1>6. ASSUME NEW l \in Load, loads'[l].state = "answered" PROVE CountOf(l)'
  <2>1. Going(l) /\ (loads[l].state = "answered" => c \in loads'[l].since)
    BY <1>1, ChangedGoes
  <2>2. loads[l].state = "answered" /\ loads'[l].list = loads[l].list
        /\ loads[l].since \subseteq loads'[l].since /\ c \in loads'[l].since
    BY <1>6, <2>1 DEF Going
  <2>3. DOMAIN loads[l].list \subseteq Chat
    BY ListsTyped DEF LoadsTyped, LoadType
  <2> QED
    BY <1>2, <1>3, <2>2, <2>3 DEF BadgeInv, CountOf
<1> QED
  BY <1>5, <1>6 DEF BadgeInv

\* Badges over a read mark that reaches the server,
LEMMA MarkedBadge ==
  ASSUME BadgeInv, ListTyped, NEW c \in Chat, Marked(c) PROVE BadgeInv'
<1> USE DEF ListTyped
<1>1. /\ Changed(c) /\ marks[c] # "none"
      /\ stale' = stale \cup (IF marks[c] = "overtaken" THEN {c} ELSE {})
      /\ UNCHANGED <<chats, wire, pendingMarkReadChatId>>
  BY DEF Marked
<1>2. \A d \in Chat : /\ news'[d] = IF d = c THEN 0 ELSE news[d]
                      /\ marks'[d] = IF d = c THEN "none" ELSE marks[d]
                      /\ marks[d] \in {"none", "asked", "overtaken"}
  BY DEF Marked, ServerTyped, StoreTyped
<1>3. \A d : Waiting(d)' = Waiting(d)
  BY <1>1 DEF Waiting, Coming
<1>4. \A d \in DOMAIN chats : d \in Chat
  BY ListsTyped DEF StoreTyped
<1>5. ASSUME NEW d \in DOMAIN chats' \ stale' PROVE BadgeOf(d)'
  <2>1. d \in Chat /\ d \in DOMAIN chats \ stale /\ (d = c => marks[c] = "asked")
    BY <1>1, <1>2, <1>4
  <2>2. BadgeRight(d, chats[d].unread)
    BY <2>1 DEF BadgeInv, BadgeOf
  <2>3. CASE d = c
    BY <1>1, <1>2, <1>3, <2>1, <2>2, <2>3 DEF BadgeOf, BadgeRight
  <2>4. CASE d # c
    BY <1>1, <1>2, <1>3, <2>1, <2>2, <2>4 DEF BadgeOf, BadgeRight
  <2> QED
    BY <2>3, <2>4
<1>6. ASSUME NEW l \in Load, loads'[l].state = "answered" PROVE CountOf(l)'
  <2>1. Going(l) /\ (loads[l].state = "answered" => c \in loads'[l].since)
    BY <1>1, ChangedGoes
  <2>2. loads[l].state = "answered" /\ loads'[l].list = loads[l].list
        /\ loads[l].since \subseteq loads'[l].since /\ c \in loads'[l].since
    BY <1>6, <2>1 DEF Going
  <2>3. DOMAIN loads[l].list \subseteq Chat
    BY ListsTyped DEF LoadsTyped, LoadType
  <2> QED
    BY <1>2, <1>3, <2>2, <2>3 DEF BadgeInv, CountOf
<1> QED
  BY <1>5, <1>6 DEF BadgeInv

\* over messages that are deleted or read elsewhere, which make the chat stale,
LEMMA UnpostedBadge ==
  ASSUME BadgeInv, ListTyped, NEW c \in Chat, Unposted(c) PROVE BadgeInv'
<1> USE DEF ListTyped
<1>1. /\ Changed(c) /\ stale' = stale \cup {c}
      /\ UNCHANGED <<chats, wire, marks, pendingMarkReadChatId>>
  BY DEF Unposted
<1>2. \A d \in Chat : d # c => news'[d] = news[d]
  BY DEF Unposted, ServerTyped
<1>3. \A d : Waiting(d)' = Waiting(d)
  BY <1>1 DEF Waiting, Coming
<1>4. \A d \in DOMAIN chats : d \in Chat
  BY ListsTyped DEF StoreTyped
<1>5. ASSUME NEW d \in DOMAIN chats' \ stale' PROVE BadgeOf(d)'
  BY <1>1, <1>2, <1>3, <1>4 DEF BadgeInv, BadgeOf, BadgeRight
<1>6. ASSUME NEW l \in Load, loads'[l].state = "answered" PROVE CountOf(l)'
  <2>1. Going(l) /\ (loads[l].state = "answered" => c \in loads'[l].since)
    BY <1>1, ChangedGoes
  <2>2. loads[l].state = "answered" /\ loads'[l].list = loads[l].list
        /\ loads[l].since \subseteq loads'[l].since /\ c \in loads'[l].since
    BY <1>6, <2>1 DEF Going
  <2>3. DOMAIN loads[l].list \subseteq Chat
    BY ListsTyped DEF LoadsTyped, LoadType
  <2> QED
    BY <1>2, <1>3, <2>2, <2>3 DEF BadgeInv, CountOf
<1> QED
  BY <1>5, <1>6 DEF BadgeInv

\* over a mark that does not reach it,
LEMMA MarkFailsBadge ==
  ASSUME BadgeInv, ListTyped, NEW c \in Chat, MarkFails(c) PROVE BadgeInv'
<1> USE DEF ListTyped
<1>1. /\ stale' = stale \cup {c} /\ marks' = [marks EXCEPT ![c] = "none"]
      /\ UNCHANGED <<news, chats, wire, loads, pendingMarkReadChatId>>
  BY DEF MarkFails, serverVars
<1>2. \A d : Waiting(d)' = Waiting(d)
  BY <1>1 DEF Waiting, Coming
<1>3. CallsCount
  BY <1>1, CountGoes DEF Going
<1> QED
  BY <1>1, <1>2, <1>3 DEF BadgeInv, BadgeOf, BadgeRight, CallsCount

\* and over the debounce timer that sends it.
LEMMA TimerBadge ==
  ASSUME BadgeInv, ListTyped, markReadTimer PROVE BadgeInv'
<1> USE DEF ListTyped
<1>1. PICK c \in Chat : c = pendingMarkReadChatId
  BY DEF markReadTimer, StoreTyped
<1>2. /\ AskMark(c) /\ pendingMarkReadChatId' = NoChat
      /\ UNCHANGED <<news, chats, wire, loads, stale>>
  BY <1>1 DEF markReadTimer, serverVars
<1>3. \A d : Waiting(d)' = Waiting(d)
  BY <1>2 DEF Waiting, Coming
<1>4. CallsCount
  BY <1>2, CountGoes DEF Going
<1>5. \A d \in DOMAIN chats : d \in Chat
  BY ListsTyped DEF StoreTyped
<1>6. /\ marks'[c] # "none"
      /\ marks'[c] = "asked" => Waiting(c) = 0
      /\ \A d \in Chat : d # c => marks'[d] = marks[d]
  BY <1>2, NoneComing DEF AskMark, StoreTyped
<1>7. ASSUME NEW d \in DOMAIN chats' \ stale' PROVE BadgeOf(d)'
  <2>1. d \in Chat /\ d # NoChat /\ BadgeRight(d, chats[d].unread)
    BY <1>2, <1>5, ChatsAssumption DEF BadgeInv, BadgeOf
  <2> QED
    BY <1>1, <1>2, <1>3, <1>6, <2>1 DEF BadgeOf, BadgeRight
<1> QED
  BY <1>4, <1>7 DEF BadgeInv, CallsCount

\* A message is counted when it is handled, or will be read.
LEMMA MessageBadge ==
  ASSUME BadgeInv, ListTyped, HandleMessage PROVE BadgeInv'
<1> USE DEF ListTyped
<1>1. PICK c \in Chat : c = Head(wire).chat
  BY ReceivedTyped DEF HandleMessage
<1>2. Received("message") /\ UNCHANGED <<news, loads, marks>>
  BY DEF HandleMessage, serverVars
<1>3. \A d \in Chat : Waiting(d)' = IF d = c THEN Waiting(d) - 1 ELSE Waiting(d)
  BY <1>1, <1>2, ReceivedWaits
<1>4. \A d \in Chat : Waiting(d) \in Nat
  BY ComingFinite
<1>5. Waiting(c) # 0 /\ Waiting(c) > 0
  <2>1. 1 \in DOMAIN wire /\ wire[1] = Head(wire) /\ Head(wire).type = "message"
    BY <1>2, ReceivedTyped DEF WireTyped
  <2>2. c \in OnWire({"message"})
    BY <1>1, <2>1 DEF OnWire
  <2> QED
    BY <1>4, <2>2, NoneComing
<1>6. \A d \in DOMAIN chats : d \in Chat /\ chats[d] \in Entry /\ chats[d].unread \in Nat
  BY ListsTyped DEF StoreTyped, Entry
<1>7. ASSUME NEW l \in Load, loads'[l].state = "answered" PROVE CountOf(l)'
  <2>1. loads[l].state = "answered" /\ UNCHANGED loads /\ DOMAIN loads[l].list \subseteq Chat
    BY <1>2, <1>7, ListsTyped DEF LoadsTyped, LoadType
  <2> QED
    BY <1>2, <1>3, <1>5, <2>1 DEF BadgeInv, CountOf
<1>8. CASE willBeRead(c)
  <2>1. /\ pendingMarkReadChatId' = c /\ chats' = chats
        /\ stale' = stale \cup ({pendingMarkReadChatId} \ {c, NoChat})
                          \cup {d \in {c} \cap DOMAIN chats : chats[d].unread > 0}
    BY <1>1, <1>8 DEF HandleMessage
  <2>2. ASSUME NEW d \in DOMAIN chats' \ stale' PROVE BadgeOf(d)'
    <3>1. /\ d \in Chat /\ BadgeRight(d, chats[d].unread)
          /\ d # c => pendingMarkReadChatId # d
          /\ d = c => chats[d].unread = 0
      BY <1>6, <2>1, ChatsAssumption DEF BadgeInv, BadgeOf
    <3> QED
      BY <1>2, <1>3, <1>5, <2>1, <3>1 DEF BadgeOf, BadgeRight
  <2> QED
    BY <1>7, <2>2 DEF BadgeInv
<1>9. CASE ~willBeRead(c)
  <2>1. /\ chats' = IF c \in DOMAIN chats THEN [chats EXCEPT ![c].unread = @ + 1] ELSE chats
        /\ stale' = stale \cup ({pendingMarkReadChatId} \cap {c})
        /\ UNCHANGED pendingMarkReadChatId
    BY <1>1, <1>9 DEF HandleMessage
  <2>2. /\ DOMAIN chats' = DOMAIN chats
        /\ \A d \in DOMAIN chats :
             chats'[d].unread = IF d = c THEN chats[d].unread + 1 ELSE chats[d].unread
    BY <1>6, <2>1 DEF Entry
  <2>3. ASSUME NEW d \in DOMAIN chats' \ stale' PROVE BadgeOf(d)'
    <3>1. /\ d \in Chat /\ d \in DOMAIN chats /\ BadgeRight(d, chats[d].unread)
          /\ d = c => pendingMarkReadChatId # d
      BY <1>6, <2>1, <2>2 DEF BadgeInv, BadgeOf
    <3>2. CASE d = c
      <4>1. marks[d] = "none" => chats[d].unread + Waiting(d) = news[d]
        BY <3>1, <3>2 DEF BadgeRight
      <4>2. /\ marks[d] # "asked" /\ chats'[d].unread = chats[d].unread + 1
            /\ Waiting(d)' = Waiting(d) - 1 /\ chats[d].unread \in Nat /\ Waiting(d) \in Nat
        BY <1>3, <1>4, <1>5, <1>6, <2>2, <3>1, <3>2 DEF BadgeRight
      <4>3. chats'[d].unread + Waiting(d)' = chats[d].unread + Waiting(d)
        BY <4>2
      <4> QED
        BY <1>2, <2>1, <3>1, <3>2, <4>1, <4>2, <4>3 DEF BadgeOf, BadgeRight
    <3>3. CASE d # c
      BY <1>2, <1>3, <2>1, <2>2, <3>1, <3>3 DEF BadgeOf, BadgeRight
    <3> QED
      BY <3>2, <3>3
  <2> QED
    BY <1>7, <2>3 DEF BadgeInv
<1> QED
  BY <1>8, <1>9

\* What is clicked, scrolled to or focused shows no badge.
LEMMA ReadsBadge ==
  ASSUME BadgeInv, ListTyped,
         \/ onMsgListScroll \/ OnFocus
         \/ \E c \in DOMAIN chats \cup {NoChat} : setActiveChat(c)
  PROVE  BadgeInv'
<1> USE DEF ListTyped
<1>1. UNCHANGED <<news, wire, loads, pendingMarkReadChatId, stale>>
  BY DEF onMsgListScroll, OnFocus, setActiveChat, serverVars
<1>2. CallsCount
  BY <1>1, CountGoes DEF Going
<1>3. chats \in ChatLists /\ \A d \in DOMAIN chats : d \in Chat
  BY ListsTyped DEF StoreTyped
<1>4. ASSUME NEW c \in Chat, chats' = NoUnread(chats, c), AskMark(c) PROVE BadgeInv'
  <2>1. PICK after : after = [op |-> "open", chat |-> c]
    OBVIOUS
  <2>2. after.op = "open" /\ after.chat = c
    BY <2>1
  <2>3. chats' = Opened(chats, after) /\ AskMark(after.chat)
    BY <1>4, <2>2 DEF Opened
  <2>4. \A d \in DOMAIN chats \ stale' : BadgeRight(d, chats[d].unread)
    BY <1>1 DEF BadgeInv, BadgeOf
  <2>5. \A d \in DOMAIN chats' \ stale' : BadgeOf(d)'
    BY <1>1, <1>3, <2>2, <2>3, <2>4, OpenBadges
  <2> QED
    BY <1>2, <2>5 DEF BadgeInv, CallsCount
<1>5. CASE UNCHANGED <<chats, marks>>
  BY <1>1, <1>2, <1>5, BadgeQuiet
<1>6. CASE onMsgListScroll \/ OnFocus
  <2>1. \/ UNCHANGED <<chats, marks>>
        \/ activeChatId # NoChat /\ chats' = NoUnread(chats, activeChatId) /\ AskMark(activeChatId)
    BY <1>6 DEF onMsgListScroll, OnFocus, ReadActive
  <2> QED
    BY <1>4, <1>5, <2>1 DEF StoreTyped
<1>7. ASSUME NEW c \in DOMAIN chats \cup {NoChat}, setActiveChat(c) PROVE BadgeInv'
  <2>1. CASE c = NoChat
    <3>1. [op |-> "open", chat |-> c].chat = NoChat /\ \A d \in DOMAIN chats : d # NoChat
      BY <1>3, <2>1, ChatsAssumption
    <3>2. UNCHANGED <<chats, marks>>
      BY <1>7, <2>1, <3>1 DEF setActiveChat, Opened, NoUnread
    <3> QED
      BY <1>5, <3>2
  <2>2. CASE c # NoChat
    <3>1. chats' = NoUnread(chats, c) /\ AskMark(c) /\ c \in Chat
      BY <1>3, <1>7, <2>2 DEF setActiveChat, Opened
    <3> QED
      BY <1>4, <3>1
  <2> QED
    BY <2>1, <2>2
<1> QED
  BY <1>6, <1>7

\* An answer counts what the server counts; in the part of the badges each change that it
\* does not know of leaves its chat stale.
LEMMA AnswersBadge ==
  ASSUME BadgeInv, RestInv, ListTyped, part = "unread", NEW l \in Load,
         Answer(l) \/ LoadArrives(l) \/ LoadFails(l)
  PROVE  BadgeInv'
<1> USE DEF ListTyped
<1>0. UNCHANGED <<news, wire, pendingMarkReadChatId>>
  BY DEF Answer, LoadArrives, LoadFails, serverVars
<1>1. \A c : Waiting(c)' = Waiting(c)
  BY <1>0 DEF Waiting, Coming
<1>2. loads[l].after.op = "open" => loads[l].after.chat \in Chat
  BY DEF LoadsTyped, LoadType, AfterType, Nothing
<1>3. CASE Answer(l)
  <2>1. /\ \A c \in DOMAIN loads'[l].list : c \in Chat /\ loads'[l].list[c].unread = news[c]
        /\ loads'[l].since = OnWire({"message"})
    BY <1>3, AnswerRests
  <2>2. /\ \A m \in Load : m # l => loads'[m] = loads[m]
        /\ UNCHANGED <<chats, marks, stale>>
    BY <1>3 DEF Answer, LoadsTyped
  <2>3. CountOf(l)'
    <3> SUFFICES ASSUME NEW c \in DOMAIN loads'[l].list \ loads'[l].since
                 PROVE  loads'[l].list[c].unread = news'[c] /\ Waiting(c)' = 0
      BY DEF CountOf
    <3>1. c \in Chat /\ loads'[l].list[c].unread = news[c] /\ Waiting(c) = 0
      BY <2>1, NoneComing
    <3> QED
      BY <1>0, <1>1, <3>1
  <2>4. CallsCount
    <3> SUFFICES ASSUME NEW m \in Load, loads'[m].state = "answered" PROVE CountOf(m)'
      BY DEF CallsCount
    <3>1. CASE m # l
      <4>1. loads'[m] = loads[m] /\ CountOf(m)
        BY <2>2, <3>1 DEF BadgeInv
      <4> QED
        BY <1>0, <1>1, <4>1 DEF CountOf
    <3> QED
      BY <2>3, <3>1
  <2> QED
    BY <1>0, <2>2, <2>4, BadgeQuiet
<1>4. ASSUME loads' = [loads EXCEPT ![l] = Idle] PROVE CallsCount
  <2>1. \A m \in Load : loads'[m] = loads[m] \/ loads'[m].state = "idle"
    BY <1>4 DEF LoadsTyped, Idle
  <2> QED
    BY <1>0, <1>1, <2>1 DEF CallsCount, CountOf, BadgeInv
<1>5. ASSUME After(loads[l].after)
      PROVE  IF loads[l].after.op = "open" THEN AskMark(loads[l].after.chat) ELSE UNCHANGED marks
  BY <1>5 DEF After
<1>6. CASE LoadArrives(l)
  <2>1. /\ chats' = Opened(loads[l].list, loads[l].after) /\ After(loads[l].after)
        /\ loads' = [loads EXCEPT ![l] = Idle] /\ loads[l].state = "answered"
        /\ stale' = {c \in loads[l].since : c \notin OnWire(Membership) \cup leaving}
                    \cup {c \in Chat : marks[c] # "none" \/ pendingMarkReadChatId = c}
    BY <1>6 DEF LoadArrives
  <2>2. loads[l].list \in ChatLists /\ DOMAIN loads[l].list \subseteq Chat
    BY ListsTyped DEF LoadsTyped, LoadType
  <2>3. ASSUME NEW d \in DOMAIN loads[l].list \ stale'
        PROVE  BadgeRight(d, loads[l].list[d].unread)
    <3>1. d \in Chat /\ marks[d] = "none" /\ pendingMarkReadChatId # d
      BY <2>1, <2>2
    <3>2. d \notin loads[l].since
      BY <2>1 DEF RestInv
    <3>3. loads[l].list[d].unread = news[d] /\ Waiting(d) = 0
      BY <2>1, <3>2 DEF BadgeInv, CountOf
    <3>4. news[d] \in Nat
      BY <3>1, ListAssumption DEF ServerTyped
    <3> QED
      BY <3>1, <3>3, <3>4 DEF BadgeRight
  <2>4. \A d \in DOMAIN chats' \ stale' : BadgeOf(d)'
    BY <1>0, <1>2, <1>5, <2>1, <2>2, <2>3, OpenBadges
  <2> QED
    BY <1>4, <2>1, <2>4 DEF BadgeInv, CallsCount
<1>7. CASE LoadFails(l)
  <2>1. /\ chats' = Opened(chats, loads[l].after) /\ After(loads[l].after)
        /\ loads' = [loads EXCEPT ![l] = Idle] /\ stale \subseteq stale'
    BY <1>7 DEF LoadFails
  <2>2. \A d \in DOMAIN chats \ stale' : BadgeRight(d, chats[d].unread)
    BY <2>1 DEF BadgeInv, BadgeOf
  <2>3. \A d \in DOMAIN chats' \ stale' : BadgeOf(d)'
    BY <1>0, <1>2, <1>5, <2>1, <2>2, OpenBadges DEF StoreTyped
  <2> QED
    BY <1>4, <2>1, <2>3 DEF BadgeInv, CallsCount
<1> QED
  BY <1>3, <1>6, <1>7

\* In its part the badges stay right, whatever crosses.
LEMMA BadgeStep ==
  ASSUME part = "unread", BadgeInv, RestInv, ListTyped, LinkInv, SocketTyped, [Next]_vars
  PROVE  BadgeInv'
<1>0. LoadsTyped
  BY DEF ListTyped
<1>1. ASSUME UNCHANGED <<news, wire, chats, marks, pendingMarkReadChatId>>, stale \subseteq stale',
             \A l \in Load : Going(l)
      PROVE  BadgeInv'
  BY <1>1, CountGoes, BadgeQuiet
<1>2. UNCHANGED loads => \A l \in Load : Going(l)
  BY DEF Going
<1>3. CASE UNCHANGED vars \/ UNCHANGED clientVars \/ UNCHANGED listVars
  BY <1>1, <1>2, <1>3 DEF vars, clientVars, listVars, serverVars
<1>4. CASE Lifecycle
  <2>1. CASE OpenView
    <3>1. PICK l \in Load :
            /\ loads[l] = Idle
            /\ loads' = [loads EXCEPT ![l] = Asked([op |-> "mount", chat |-> NoChat])]
      BY <1>0, <2>1, AskTakes DEF OpenView
    <3>2. Asked([op |-> "mount", chat |-> NoChat]).state = "asked"
      BY DEF Asked, Idle
    <3>3. UNCHANGED <<news, wire, chats, marks, pendingMarkReadChatId, stale>>
      BY <2>1 DEF OpenView, serverVars
    <3>4. \A c : Waiting(c)' = Waiting(c)
      BY <3>3 DEF Waiting, Coming
    <3>5. \A m \in Load : loads'[m] = loads[m] \/ loads'[m].state = "asked"
      BY <1>0, <3>1, <3>2 DEF LoadsTyped
    <3>6. CallsCount
      BY <3>3, <3>4, <3>5 DEF CallsCount, CountOf, BadgeInv
    <3> QED
      BY <3>3, <3>6, BadgeQuiet
  <2>2. CASE Opens \/ Retries \/ Auth \/ PollTick
    <3>1. Opens \/ PollTick => view = "on"
      BY DEF Opens, onopen, PollTick, LinkInv, Unseeded, SocketTyped
    <3>2. \A l \in Load : Going(l)
      BY <1>0, <1>2, <2>2, <3>1, AskGoes
      DEF Opens, OnOpen, Retries, Auth, PollTick, Nothing, listVars
    <3> QED
      BY <1>1, <2>2, <3>2 DEF Opens, OnOpen, Retries, Auth, PollTick, listVars, serverVars
  <2>3. CASE \E l \in Load : ListTaken(l) \/ ListArrives(l) \/ ListFails(l)
    BY <2>3, AnswersBadge DEF ListTaken, ListArrives, ListFails
  <2> QED
    BY <1>4, <2>1, <2>2, <2>3 DEF Lifecycle
<1>5. CASE UnreadNext
  <2>1. CASE SendLoads
    <3>1. view = "on"
      BY <2>1 DEF SendLoads, LinkInv, SocketTyped
    <3>2. \A l \in Load : Going(l)
      BY <1>0, <2>1, <3>1, AskGoes DEF SendLoads, Nothing
    <3> QED
      BY <1>1, <2>1, <3>2 DEF SendLoads, serverVars
  <2> QED
    BY <1>5, <2>1, PostedBadge, UnpostedBadge, MarkedBadge, MarkFailsBadge, TimerBadge,
       MessageBadge, ReadsBadge
    DEF UnreadNext
<1>6. CASE FocusReads \/ LoseFocus
  BY <1>3, <1>6, ReadsBadge DEF FocusReads, LoseFocus
<1> QED
  BY <1>3, <1>4, <1>5, <1>6 DEF Next, ListNext, DialogNext, ListParts

\* The flag p of c is right: it is the server's until a toggle of c is done, and a toggle
\* that still holds the entry is the only one, and asked for the opposite.
FlagRightOf(c, p) ==
  /\ (\A t \in Toggle : toggles[t].chat = c => ~toggles[t].done) => (p <=> c \in pins)
  /\ \A t \in Toggle : toggles[t].chat = c /\ toggles[t].live =>
       /\ \A u \in Toggle : toggles[u].chat = c => u = t
       /\ ~toggles[t].done => (toggles[t].on <=> ~p)
       /\ toggles[t].done => (p <=> c \notin pins)

FlagOf(c) == FlagRightOf(c, chats[c].pinned)

\* An answer under way has the server's flags, unless it knows of a change.
FlagsOf(l) ==
  \A c \in DOMAIN loads[l].list \ loads[l].since : loads[l].list[c].pinned <=> c \in pins

FlagInv ==
  /\ \A c \in DOMAIN chats \ stale : FlagOf(c)
  /\ \A l \in Load : loads[l].state = "answered" => FlagsOf(l)

CallsFlag == \A l \in Load : loads'[l].state = "answered" => FlagsOf(l)'

\* The flags in the loads under way stay right when the server is left alone,
LEMMA FlagsGo ==
  ASSUME FlagInv, UNCHANGED pins, \A l \in Load : Going(l) PROVE CallsFlag
BY DEF FlagInv, CallsFlag, FlagsOf, Going, Idle

\* and with them the flags shown.
LEMMA FlagsQuietly ==
  ASSUME FlagInv, UNCHANGED <<pins, toggles, chats>>, stale \subseteq stale', CallsFlag
  PROVE  FlagInv'
BY DEF FlagInv, FlagOf, FlagRightOf, CallsFlag

\* A toggle asks for the opposite of what its entry shows.
LEMMA AskToggleFlag ==
  ASSUME FlagInv, ListTyped, NEW c \in Chat, AskToggle(c) PROVE FlagInv'
<1> USE DEF ListTyped
<1>1. /\ UNCHANGED <<pins, chats, loads>> /\ c \in DOMAIN chats
      /\ stale' = stale \cup (IF \E u \in Toggle : toggles[u].chat = c THEN {c} ELSE {})
  BY DEF AskToggle, serverVars
<1>2. CallsFlag
  BY <1>1, FlagsGo DEF Going
<1>3. PICK k \in Toggle : k = Slot(toggles, NoToggle) /\ toggles[k] = NoToggle
  <2>1. Slot(toggles, NoToggle) \in Free(toggles, NoToggle)
    BY Zenon DEF AskToggle, Slot
  <2> QED
    BY <2>1 DEF Free, StoreTyped
<1>4. PICK p \in BOOLEAN : p <=> ~chats[c].pinned
  OBVIOUS
<1>5. PICK q : q = [chat |-> c, on |-> p, done |-> FALSE, live |-> TRUE]
  OBVIOUS
<1>6. toggles' = [toggles EXCEPT ![k] = q]
  <2>1. toggles' = [toggles EXCEPT ![k] = [chat |-> c, on |-> ~chats[c].pinned,
                                           done |-> FALSE, live |-> TRUE]]
    BY <1>3, Zenon DEF AskToggle
  <2>2. p = ~chats[c].pinned
    BY <1>4, Zenon
  <2> QED
    BY <1>5, <2>1, <2>2, Zenon
<1>7. /\ q.chat = c /\ (q.on <=> p) /\ ~q.done /\ q.live
      /\ NoToggle.chat = NoChat /\ ~NoToggle.done
  BY <1>5 DEF NoToggle
<1>8. \A t \in Toggle : toggles'[t] = IF t = k THEN q ELSE toggles[t]
  BY <1>6 DEF StoreTyped
<1>9. ASSUME NEW d \in DOMAIN chats' \ stale' PROVE FlagOf(d)'
  <2>1. d \in Chat /\ d # NoChat /\ d \in DOMAIN chats \ stale
    BY <1>1, ListsTyped, ChatsAssumption DEF StoreTyped
  <2>2. FlagRightOf(d, chats[d].pinned) /\ pins' = pins /\ chats' = chats
    BY <1>1, <2>1 DEF FlagInv, FlagOf
  <2>3. CASE d = c
    <3>1. \A u \in Toggle : toggles[u].chat # c
      BY <1>1, <2>3
    <3>2. chats[c].pinned <=> c \in pins
      BY <2>2, <2>3, <3>1 DEF FlagRightOf
    <3> QED
      BY <1>4, <1>7, <1>8, <2>2, <2>3, <3>1, <3>2 DEF FlagOf, FlagRightOf
  <2>4. CASE d # c
    BY <1>3, <1>7, <1>8, <2>1, <2>2, <2>4 DEF FlagOf, FlagRightOf
  <2> QED
    BY <2>3, <2>4
<1> QED
  BY <1>2, <1>9 DEF FlagInv, CallsFlag

\* The server does what the toggle asks for.
LEMMA ToggledFlag ==
  ASSUME FlagInv, ListTyped, NEW t \in Toggle, Toggled(t) PROVE FlagInv'
<1> USE DEF ListTyped
<1>1. PICK c \in Chat : c = toggles[t].chat
  BY DEF Toggled, StoreTyped, ToggleType
<1>2. /\ ~toggles[t].done /\ toggles' = [toggles EXCEPT ![t].done = TRUE]
      /\ pins' = IF toggles[t].on THEN pins \cup {c} ELSE pins \ {c}
      /\ Changed(c) /\ UNCHANGED <<chats, stale>>
  BY <1>1 DEF Toggled
<1>3. \A u \in Toggle : /\ toggles'[u].chat = toggles[u].chat
                        /\ toggles'[u].on = toggles[u].on
                        /\ toggles'[u].live = toggles[u].live
                        /\ toggles'[u].done <=> toggles[u].done \/ u = t
  BY <1>2 DEF StoreTyped, ToggleType
<1>4. \A d : d # c => (d \in pins' <=> d \in pins)
  BY <1>2
<1>5. c \in pins' <=> toggles[t].on
  BY <1>2
<1>6. ASSUME NEW l \in Load, loads'[l].state = "answered" PROVE FlagsOf(l)'
  <2>1. Going(l) /\ (loads[l].state = "answered" => c \in loads'[l].since)
    BY <1>2, ChangedGoes
  <2>2. /\ loads[l].state = "answered" /\ loads'[l].list = loads[l].list
        /\ loads[l].since \subseteq loads'[l].since /\ c \in loads'[l].since
    BY <1>6, <2>1 DEF Going
  <2> QED
    BY <1>4, <2>2 DEF FlagInv, FlagsOf
<1>7. ASSUME NEW d \in DOMAIN chats' \ stale' PROVE FlagOf(d)'
  <2>1. FlagRightOf(d, chats[d].pinned) /\ chats' = chats
    BY <1>2 DEF FlagInv, FlagOf
  <2>2. CASE d = c
    BY <1>1, <1>2, <1>3, <1>5, <2>1, <2>2 DEF FlagOf, FlagRightOf
  <2>3. CASE d # c
    BY <1>1, <1>3, <1>4, <2>1, <2>3 DEF FlagOf, FlagRightOf
  <2> QED
    BY <2>2, <2>3
<1> QED
  BY <1>6, <1>7 DEF FlagInv

\* The answer to a toggle flips the entry it holds, or leaves its chat stale, as does one
\* that is lost; one that was refused has changed nothing.
LEMMA ToggleEndsFlag ==
  ASSUME FlagInv, ListTyped, NEW t \in Toggle, ToggleAnswered(t) \/ ToggleFails(t) PROVE FlagInv'
<1> USE DEF ListTyped
<1>1. PICK c \in Chat : c = toggles[t].chat
  BY DEF ToggleAnswered, ToggleFails, StoreTyped, ToggleType
<1>2. /\ toggles' = [toggles EXCEPT ![t] = NoToggle] /\ UNCHANGED <<pins, loads>>
      /\ stale \subseteq stale'
  BY DEF ToggleAnswered, ToggleFails, serverVars
<1>3. CallsFlag
  BY <1>2, FlagsGo DEF Going
<1>4. /\ \A u \in Toggle : u # t => toggles'[u] = toggles[u]
      /\ toggles'[t].chat = NoChat
  BY <1>2 DEF StoreTyped, NoToggle
<1>5. \A d \in DOMAIN chats : d \in Chat /\ d # NoChat /\ chats[d] \in Entry
  BY ListsTyped, ChatsAssumption DEF StoreTyped
<1>6. CASE ToggleFails(t)
  <2>1. UNCHANGED chats /\ (toggles[t].done => c \in stale')
    BY <1>1, <1>6 DEF ToggleFails
  <2>2. ASSUME NEW d \in DOMAIN chats' \ stale' PROVE FlagOf(d)'
    <3>1. FlagRightOf(d, chats[d].pinned) /\ d # NoChat
      BY <1>2, <1>5, <2>1 DEF FlagInv, FlagOf
    <3>2. toggles[t].chat = d => ~toggles[t].done
      BY <1>1, <2>1
    <3> QED
      BY <1>2, <1>4, <2>1, <3>1, <3>2 DEF FlagOf, FlagRightOf
  <2> QED
    BY <1>3, <2>2 DEF FlagInv, CallsFlag
<1>7. CASE ToggleAnswered(t)
  <2>1. /\ toggles[t].done
        /\ chats' = IF toggles[t].live THEN [chats EXCEPT ![c].pinned = ~@] ELSE chats
        /\ stale' = stale \cup (IF toggles[t].live THEN {} ELSE {c})
    BY <1>1, <1>7 DEF ToggleAnswered
  <2>2. DOMAIN chats' = DOMAIN chats /\ \A d \in DOMAIN chats : d # c => chats'[d] = chats[d]
    BY <1>5, <2>1
  <2>3. ASSUME NEW d \in DOMAIN chats' \ stale' PROVE FlagOf(d)'
    <3>1. FlagRightOf(d, chats[d].pinned) /\ d # NoChat /\ d \in DOMAIN chats
      BY <1>2, <1>5, <2>2 DEF FlagInv, FlagOf
    <3>2. CASE d # c
      BY <1>1, <1>2, <1>4, <2>2, <3>1, <3>2 DEF FlagOf, FlagRightOf
    <3>3. CASE d = c
      <4>1. toggles[t].live
        BY <2>1, <3>3
      <4>2. /\ \A u \in Toggle : toggles[u].chat = c => u = t
            /\ chats[c].pinned <=> c \notin pins
        BY <1>1, <2>1, <3>1, <3>3, <4>1 DEF FlagRightOf
      <4>3. chats'[c].pinned <=> ~chats[c].pinned
        <5>1. chats' = [chats EXCEPT ![c].pinned = ~@] /\ chats[c] \in Entry
          BY <1>5, <2>1, <3>1, <3>3, <4>1
        <5>2. PICK p \in BOOLEAN : p <=> ~chats[c].pinned
          OBVIOUS
        <5>3. p = ~chats[c].pinned
          BY <5>2, Zenon
        <5>4. chats' = [chats EXCEPT ![c].pinned = p]
          BY <5>1, <5>3, Zenon
        <5>5. chats'[c].pinned = p
          BY <3>1, <3>3, <5>1, <5>4 DEF Entry
        <5> QED
          BY <5>2, <5>5
      <4>4. \A u \in Toggle : toggles'[u].chat # c
        BY <1>4, <3>1, <3>3, <4>2
      <4> QED
        BY <1>2, <3>3, <4>2, <4>3, <4>4 DEF FlagOf, FlagRightOf
    <3> QED
      BY <3>2, <3>3
  <2> QED
    BY <1>3, <2>3 DEF FlagInv, CallsFlag
<1> QED
  BY <1>6, <1>7

\* Reading leaves the flags; an answer has the server's, and takes the entries from the
\* toggles that held them.
LEMMA ReadFlags ==
  ASSUME NEW list \in ChatLists, NEW after
  PROVE  /\ DOMAIN Opened(list, after) = DOMAIN list
         /\ \A d \in DOMAIN list : Opened(list, after)[d].pinned = list[d].pinned
<1>1. \A d \in DOMAIN list : list[d] \in Entry
  BY ListsTyped
<1>2. PICK n : n = Opened(list, after)
  OBVIOUS
<1>3. n = list \/ \E c \in DOMAIN list : n = [list EXCEPT ![c].unread = 0]
  BY <1>2 DEF Opened, NoUnread
<1>4. DOMAIN n = DOMAIN list /\ \A d \in DOMAIN list : n[d].pinned = list[d].pinned
  BY <1>1, <1>3 DEF Entry
<1> QED
  BY <1>2, <1>4

\* Flags over the answer of a load and over its arrival.
LEMMA AnswersFlag ==
  ASSUME FlagInv, RestInv, ListTyped, part = "flags", NEW l \in Load,
         Answer(l) \/ LoadArrives(l) \/ LoadFails(l)
  PROVE  FlagInv'
<1> USE DEF ListTyped
<1>0. UNCHANGED pins
  BY DEF Answer, LoadArrives, LoadFails, serverVars
<1>1. CASE Answer(l)
  <2>1. \A c \in DOMAIN loads'[l].list : loads'[l].list[c].pinned <=> c \in pins
    BY <1>1, AnswerRests
  <2>2. /\ \A m \in Load : m # l => loads'[m] = loads[m]
        /\ UNCHANGED <<chats, toggles, stale>>
    BY <1>1 DEF Answer, LoadsTyped
  <2>3. CallsFlag
    <3> SUFFICES ASSUME NEW m \in Load, loads'[m].state = "answered" PROVE FlagsOf(m)'
      BY DEF CallsFlag
    <3>1. CASE m # l
      <4>1. loads'[m] = loads[m] /\ FlagsOf(m)
        BY <2>2, <3>1 DEF FlagInv
      <4> QED
        BY <1>0, <4>1 DEF FlagsOf
    <3> QED
      BY <1>0, <2>1, <3>1 DEF FlagsOf
  <2> QED
    BY <1>0, <2>2, <2>3, FlagsQuietly
<1>2. ASSUME loads' = [loads EXCEPT ![l] = Idle] PROVE CallsFlag
  <2>1. \A m \in Load : loads'[m] = loads[m] \/ loads'[m].state = "idle"
    BY <1>2 DEF LoadsTyped, Idle
  <2> QED
    BY <1>0, <2>1 DEF CallsFlag, FlagsOf, FlagInv
<1>3. CASE LoadArrives(l)
  <2>1. /\ chats' = Opened(loads[l].list, loads[l].after)
        /\ loads' = [loads EXCEPT ![l] = Idle] /\ loads[l].state = "answered"
        /\ toggles' = [t \in Toggle |-> [toggles[t] EXCEPT !.live = FALSE]]
        /\ stale' = {c \in loads[l].since : c \notin OnWire(Membership) \cup leaving}
                    \cup {c \in Chat : marks[c] # "none" \/ pendingMarkReadChatId = c}
    BY <1>3 DEF LoadArrives
  <2>2. loads[l].list \in ChatLists
    BY DEF LoadsTyped, LoadType
  <2>3. /\ DOMAIN chats' = DOMAIN loads[l].list
        /\ \A d \in DOMAIN chats' : chats'[d].pinned = loads[l].list[d].pinned
    BY <2>1, <2>2, ReadFlags
  <2>4. \A t \in Toggle : ~toggles'[t].live
    BY <2>1 DEF StoreTyped, ToggleType
  <2>5. ASSUME NEW d \in DOMAIN chats' \ stale' PROVE FlagOf(d)'
    <3>1. d \notin loads[l].since
      BY <2>1 DEF RestInv
    <3>2. chats'[d].pinned <=> d \in pins
      BY <2>1, <2>3, <3>1 DEF FlagInv, FlagsOf
    <3> QED
      BY <1>0, <2>4, <3>2 DEF FlagOf, FlagRightOf
  <2> QED
    BY <1>2, <2>1, <2>5 DEF FlagInv, CallsFlag
<1>4. CASE LoadFails(l)
  <2>1. /\ chats' = Opened(chats, loads[l].after) /\ UNCHANGED toggles
        /\ loads' = [loads EXCEPT ![l] = Idle] /\ stale \subseteq stale'
    BY <1>4 DEF LoadFails
  <2>2. /\ DOMAIN chats' = DOMAIN chats
        /\ \A d \in DOMAIN chats : chats'[d].pinned = chats[d].pinned
    BY <2>1, ReadFlags DEF StoreTyped
  <2>3. ASSUME NEW d \in DOMAIN chats' \ stale' PROVE FlagOf(d)'
    <3>1. FlagRightOf(d, chats[d].pinned) /\ chats'[d].pinned = chats[d].pinned
      BY <2>1, <2>2 DEF FlagInv, FlagOf
    <3> QED
      BY <1>0, <2>1, <3>1 DEF FlagOf, FlagRightOf
  <2> QED
    BY <1>2, <2>1, <2>3 DEF FlagInv, CallsFlag
<1> QED
  BY <1>1, <1>3, <1>4

\* In their part the flags stay right, whatever crosses.
LEMMA FlagStep ==
  ASSUME part = "flags", FlagInv, RestInv, ListTyped, LinkInv, SocketTyped, [Next]_vars
  PROVE  FlagInv'
<1>0. LoadsTyped
  BY DEF ListTyped
<1>1. ASSUME UNCHANGED <<pins, toggles, chats>>, stale \subseteq stale', \A l \in Load : Going(l)
      PROVE  FlagInv'
  BY <1>1, FlagsGo, FlagsQuietly
<1>2. UNCHANGED loads => \A l \in Load : Going(l)
  BY DEF Going
<1>3. CASE UNCHANGED vars \/ UNCHANGED clientVars \/ UNCHANGED listVars
  BY <1>1, <1>2, <1>3 DEF vars, clientVars, listVars, serverVars
<1>4. CASE Lifecycle
  <2>1. CASE OpenView
    <3>1. PICK l \in Load :
            /\ loads[l] = Idle
            /\ loads' = [loads EXCEPT ![l] = Asked([op |-> "mount", chat |-> NoChat])]
      BY <1>0, <2>1, AskTakes DEF OpenView
    <3>2. Asked([op |-> "mount", chat |-> NoChat]).state = "asked"
      BY DEF Asked, Idle
    <3>3. UNCHANGED <<pins, chats, toggles, stale>>
      BY <2>1 DEF OpenView, serverVars
    <3>4. \A m \in Load : loads'[m] = loads[m] \/ loads'[m].state = "asked"
      BY <1>0, <3>1, <3>2 DEF LoadsTyped
    <3>5. CallsFlag
      BY <3>3, <3>4 DEF CallsFlag, FlagsOf, FlagInv
    <3> QED
      BY <3>3, <3>5, FlagsQuietly
  <2>2. CASE Opens \/ Retries \/ Closes \/ Auth \/ PollTick
    <3>1. Opens \/ PollTick => view = "on"
      BY DEF Opens, onopen, PollTick, LinkInv, Unseeded, SocketTyped
    <3>2. \A l \in Load : Going(l)
      BY <1>0, <1>2, <2>2, <3>1, AskGoes
      DEF Opens, OnOpen, Retries, Closes, OnClose, Auth, PollTick, Nothing, listVars
    <3> QED
      BY <1>1, <2>2, <3>2
      DEF Opens, OnOpen, Retries, Closes, OnClose, Auth, PollTick, listVars, serverVars
  <2>3. CASE \E l \in Load : ListTaken(l) \/ ListArrives(l) \/ ListFails(l)
    BY <2>3, AnswersFlag DEF ListTaken, ListArrives, ListFails
  <2> QED
    BY <1>4, <2>1, <2>2, <2>3 DEF Lifecycle
<1>5. CASE FlagsNext
  BY <1>5, AskToggleFlag, ToggledFlag, ToggleEndsFlag, MovingAssumption DEF FlagsNext
<1> QED
  BY <1>3, <1>4, <1>5 DEF Next, ListNext, DialogNext, ListParts

\* Badges and flags, each in its part.
EntriesInv ==
  RestInv /\ (part = "unread" => BadgeInv) /\ (part = "flags" => FlagInv)

\* At the start the list is empty and nothing is asked.
LEMMA EntriesStart == Init => EntriesInv
<1> SUFFICES ASSUME Init PROVE EntriesInv
  OBVIOUS
<1>1. /\ wire = <<>> /\ leaving = {} /\ chats = <<>> /\ pins = {}
      /\ \A c \in Chat : news[c] = 0
      /\ \A l \in Load : loads[l] = Idle
  BY DEF Init, ListInit
<1>2. Idle.state = "idle" /\ Idle.list = <<>> /\ DOMAIN <<>> = {}
  BY DEF Idle
<1>3. OnWire(Membership) = {}
  BY <1>1, <1>2 DEF OnWire
<1>4. Unread0(<<>>) /\ Unpinned(<<>>)
  BY <1>2 DEF Unread0, Unpinned
<1>5. RestInv
  BY <1>1, <1>2, <1>3, <1>4 DEF RestInv, NewsRest, PinsRest
<1>6. BadgeInv /\ FlagInv
  BY <1>1, <1>2 DEF BadgeInv, FlagInv
<1> QED
  BY <1>5, <1>6 DEF EntriesInv

\* The invariants of the entries survive every step of the client.
LEMMA EntriesNext ==
  ASSUME EntriesInv, ListTyped, LinkInv, SocketTyped, [Next]_vars PROVE EntriesInv'
<1>1. UNCHANGED part
  BY DEF Next, vars
<1>2. RestInv'
  BY RestStep DEF EntriesInv
<1>3. part = "unread" => BadgeInv'
  BY BadgeStep DEF EntriesInv
<1>4. part = "flags" => FlagInv'
  BY FlagStep DEF EntriesInv
<1> QED
  BY <1>1, <1>2, <1>3, <1>4 DEF EntriesInv

-------------------------------------------------------------------------------
\* The info dialog: its types.

CallType == [op : Ops, chat : Chat, form : Text \cup {NoText}, before : SUBSET Link,
             revoking : SUBSET Link, gone : BOOLEAN, at : Chat \cup {NoChat}]

\* A call to save carries what the form was filled from.
CallsTyped(ks) ==
  /\ ks \subseteq CallType
  /\ \A k \in ks : k.op = "updateChannel" => k.form \in Text /\ k.form.edit < MaxEdits

DataTyped ==
  /\ server \in [Chat -> [text : Text, role : {"member", "admin"}, links : SUBSET Link]]
  /\ mine \subseteq Chat /\ listed \subseteq Chat
  /\ detail \in Text \cup {NoText} /\ people \in People \cup {NoPeople}
  /\ invites \subseteq Link /\ form \in Text \cup {NoText}
  /\ spoiled \subseteq {"detail", "people", "invites"}

DialogTyped ==
  /\ active \in Chat \cup {NoChat} /\ activeView \in Views \cup {"none"}
  /\ activeView = "none" <=> active = NoChat \/ ~channelInfoModalOpen
  /\ activeView = "edit" => form \in Text
  /\ activeView = "none" => \A k \in calls : ~Heard(k)

DialogFlags ==
  channelInfoModalOpen \in BOOLEAN /\ detailLoading \in BOOLEAN /\ strayed \in BOOLEAN

InfoTyped == DataTyped /\ DialogTyped /\ DialogFlags /\ CallsTyped(calls)

\* A step of any dialog does this to the info dialog.
InfoStep ==
  \/ InfoNext(Views)
  \/ Escape
  \/ /\ \E c \in Chat : c # active /\ Activate(c)
     /\ UNCHANGED <<server, detail, people, invites>>
  \/ UNCHANGED <<server, detail, people, invites, dialogOnly>>

\* The dialog lists no chat.
LEMMA InfoLists ==
  ASSUME NEW views, InfoNext(views) PROVE listed' \subseteq listed
<1>1. CASE \/ OpenChannelInfo \/ CloseInfo \/ Back \/ save \/ handlePromote \/ handleDemote
           \/ handleCreate \/ handleLeave \/ handleDelete \/ handleBack
           \/ \E v \in views : ShowView(v)
           \/ \E l \in Link : handleRevoke(l)
  BY <1>1 DEF OpenChannelInfo, CloseInfo, Back, save, handlePromote, handleDemote, handleCreate,
              handleLeave, handleDelete, handleBack, ShowView, handleRevoke, Does
<1>2. CASE \E c \in Chat : SelectChat(c) \/ RemoveChatLocal(c)
  BY <1>2 DEF SelectChat, RemoveChatLocal
<1>3. ASSUME NEW k \in calls,
             \/ CallFailed(k) \/ Loaded(k) \/ Updated(k) \/ RoleChanged(k) \/ Invited(k)
             \/ Revoked(k) \/ LetGo(k) \/ PartRefused(k) \/ Left(k) \/ ChatDeleted(k)
      PROVE  listed' \subseteq listed
  BY <1>3 DEF CallFailed, Loaded, Updated, RoleChanged, Invited, Revoked, LetGo, PartRefused,
              Left, ChatDeleted
<1> QED
  BY <1>1, <1>2, <1>3 DEF InfoNext

\* Every step of the client leaves the dialog alone or is one of its own.
LEMMA StepOfInfo ==
  ASSUME OpenInv, listed \subseteq Chat, [Next]_vars
  PROVE  InfoStep /\ mine' \subseteq Chat /\ listed' \subseteq Chat
<1>1. mine' \subseteq Chat
  BY OpenStep DEF OpenInv
<1> SUFFICES InfoStep /\ listed' \subseteq Chat
  BY <1>1
<1>2. ASSUME NEW c \in Chat, SetActive(c), UNCHANGED <<server, detail, people, invites>>
      PROVE  InfoStep
  BY <1>2 DEF SetActive, InfoStep
<1>3. CASE UNCHANGED vars \/ (UNCHANGED part /\ ListNext)
  BY <1>1, <1>3 DEF vars, ListNext, infoVars, dialogOnly, InfoStep
<1>4. CASE UNCHANGED part /\ DialogNext
  <2>1. ASSUME NEW layers, LayersNext(layers) PROVE InfoStep /\ listed' \subseteq Chat
    <3>1. CASE \E l \in layers : Open(l) \/ Close(l)
      BY <3>1 DEF Open, Close, storeVars, InfoStep
    <3>2. CASE Escape
      BY <3>2 DEF Escape, storeVars, InfoStep
    <3>3. CASE \E c \in Chat : handleSelectChat(c)
      BY <1>2, <3>3 DEF handleSelectChat, storeVars
    <3> QED
      BY <2>1, <3>1, <3>2, <3>3 DEF LayersNext
  <2>2. CASE PanelNext
    BY <1>1, <2>2 DEF PanelNext, OpenPanel, storeVars, InfoStep
  <2>3. CASE OpeningsNext
    <3>1. ASSUME NEW c \in Chat, FollowChatLink(c) PROVE InfoStep /\ listed' \subseteq Chat
      BY <1>2, <3>1 DEF FollowChatLink, storeVars
    <3>2. CASE UNCHANGED <<server, detail, people, invites, listed, dialogOnly>>
      BY <3>2 DEF InfoStep
    <3>3. ASSUME NEW f \in flows, NameFound(f) \/ ListLoaded(f)
          PROVE  InfoStep /\ listed' \subseteq Chat
      <4>1. f.chat \in Chat /\ f.snap \subseteq Chat
        BY DEF OpenInv, FlowOK, FlowType
      <4> QED
        BY <1>2, <3>2, <3>3, <4>1 DEF NameFound, ListLoaded, storeVars
    <3>4. ASSUME NEW p \in Poll, PollAsks(p) \/ PollRead(p) \/ PollArrives(p) \/ PollFails(p)
          PROVE  InfoStep /\ listed' \subseteq Chat
      <4>1. polls[p].snap \subseteq Chat
        BY DEF OpenInv, PollsOK, PollType
      <4> QED
        BY <3>4, <4>1
        DEF PollAsks, PollRead, PollArrives, PollFails, storeVars, dialogOnly, InfoStep
    <3> QED
      BY <2>3, <3>1, <3>2, <3>3, <3>4
      DEF OpeningsNext, openDM, openChannelByName, AsksFor, ChatMade, CallFails, ListRead, storeVars
  <2>4. CASE part \in InfoParts /\ (Escape \/ InfoNext({part}))
    <3>1. part \in Views
      BY <2>4 DEF InfoParts, Views
    <3>2. CASE Escape
      BY <3>2 DEF Escape, storeVars, InfoStep
    <3>3. CASE InfoNext({part})
      <4>1. InfoNext(Views)
        BY <3>1, <3>3 DEF InfoNext
      <4>2. listed' \subseteq listed
        BY <3>3, InfoLists
      <4> QED
        BY <4>1, <4>2 DEF InfoStep
    <3> QED
      BY <2>4, <3>2, <3>3
  <2> QED
    BY <1>1, <1>4, <2>1, <2>2, <2>3, <2>4 DEF DialogNext
<1> QED
  BY <1>3, <1>4 DEF Next

\* What becomes of calls.
LEMMA NewCallTyped ==
  ASSUME NEW op \in Ops, NEW c \in Chat
  PROVE  /\ NewCall(op, c).op = op /\ NewCall(op, c).chat = c
         /\ op # "updateChannel" => CallsTyped({NewCall(op, c)})
         /\ \A f \in Text : f.edit < MaxEdits => CallsTyped({[NewCall(op, c) EXCEPT !.form = f]})
         /\ op = "revokeInvite" => \A ls, rs \in SUBSET Link :
              CallsTyped({[NewCall(op, c) EXCEPT !.before = ls, !.revoking = rs]})
<1> DEFINE k == NewCall(op, c)
<1>1. k \in CallType /\ k.op = op /\ k.chat = c
  BY DEF NewCall, CallType
<1> HIDE DEF k
<1>2. op # "updateChannel" => CallsTyped({k})
  BY <1>1 DEF CallsTyped
<1>3. ASSUME NEW f \in Text, f.edit < MaxEdits PROVE CallsTyped({[k EXCEPT !.form = f]})
  BY <1>1, <1>3 DEF CallType, CallsTyped
<1>4. ASSUME op = "revokeInvite", NEW ls \in SUBSET Link, NEW rs \in SUBSET Link
      PROVE  CallsTyped({[k EXCEPT !.before = ls, !.revoking = rs]})
  BY <1>1, <1>4 DEF CallType, CallsTyped
<1> QED
  BY <1>1, <1>2, <1>3, <1>4 DEF k

\* Calls come and go, and stay calls.
LEMMA CallSets ==
  ASSUME NEW ks, NEW ls, CallsTyped(ks)
  PROVE  /\ CallsTyped(ls) => CallsTyped(ks \cup ls)
         /\ CallsTyped(ks \ ls)
BY DEF CallsTyped

\* What an unmounted view leaves behind are calls that nobody hears.
LEMMA OrphansTyped ==
  ASSUME NEW ks, CallsTyped(ks), active \in Chat \cup {NoChat}
  PROVE  /\ CallsTyped(Orphans(ks))
         /\ active # NoChat => \A k \in Orphans(ks) : ~Heard(k)
BY DEF CallsTyped, CallType, Orphans, Heard

\* A call writes one of three stores, or none.
LEMMA StoreNames ==
  \A op : Store(op) \in {"detail", "people", "invites", "none"}
BY DEF Store

\* What a new call heals are stores,
LEMMA HealsTyped ==
  ASSUME NEW new, NEW rest, spoiled \subseteq {"detail", "people", "invites"}
  PROVE  Heals(new, rest) \subseteq {"detail", "people", "invites"}
BY StoreNames DEF Heals

\* and sending one keeps the types.
LEMMA SendsTyped ==
  ASSUME NEW new, Sends(new), CallsTyped(new), InfoTyped
  PROVE  CallsTyped(calls') /\ spoiled' \subseteq {"detail", "people", "invites"}
BY CallSets, HealsTyped DEF Sends, InfoTyped, DataTyped

\* The loads a view sends when it mounts are calls about its chat.
LEMMA MountLoadsTyped ==
  ASSUME NEW c \in Chat PROVE CallsTyped(MountLoads(c))
<1>1. CallsTyped({NewCall("loadDetail", c)}) /\ CallsTyped({NewCall("loadMembers", c)})
  BY NewCallTyped DEF Ops, Loads
<1>2. MountLoads(c) = {NewCall("loadDetail", c)} \cup {NewCall("loadMembers", c)}
  BY DEF MountLoads
<1> QED
  BY <1>1, <1>2, CallSets

\* The texts.
LEMMA TextTyped ==
  /\ NoText \notin Text
  /\ \A f \in Text : f.edit < MaxEdits => [f EXCEPT !.edit = @ + 1] \in Text
<1>1. NoText \notin Text
  BY ChatsAssumption DEF NoText, Text
<1>2. \A f \in Text : f.edit < MaxEdits => [f EXCEPT !.edit = @ + 1] \in Text
  BY InfoAssumption DEF Text
<1> QED
  BY <1>1, <1>2

\* The dialog appears, goes, and follows the active chat.
LEMMA AppearsTyped ==
  ASSUME InfoTyped, NEW c \in Chat, Appears(c)
  PROVE  /\ CallsTyped(calls') /\ spoiled' \subseteq {"detail", "people", "invites"}
         /\ activeView' = "main" /\ detailLoading' = TRUE
BY SendsTyped, MountLoadsTyped DEF Appears

\* Types over a dialog that is unmounted,
LEMMA VanishesTyped ==
  ASSUME InfoTyped, activeView # "none", NEW rest, Vanishes(rest), CallsTyped(rest)
  PROVE  /\ CallsTyped(calls') /\ \A k \in calls' : ~Heard(k)
         /\ UNCHANGED <<detailLoading, spoiled>>
         /\ activeView' = "none" /\ form' \in Text \cup {NoText}
BY OrphansTyped DEF Vanishes, InfoTyped, DialogTyped

\* over a chat that is left for none,
LEMMA DeactivateTyped ==
  ASSUME InfoTyped, NEW rest, Deactivate(rest), CallsTyped(rest), rest \subseteq calls
  PROVE  /\ CallsTyped(calls') /\ \A k \in calls' : ~Heard(k)
         /\ UNCHANGED <<detailLoading, spoiled, channelInfoModalOpen>>
         /\ active' = NoChat /\ activeView' = "none" /\ form' \in Text \cup {NoText}
<1>1. CASE activeView = "none"
  BY <1>1 DEF Deactivate, InfoTyped, DataTyped, DialogTyped
<1>2. CASE activeView # "none"
  BY <1>2, VanishesTyped DEF Deactivate
<1> QED
  BY <1>1, <1>2

\* and over a change to another chat, under an open dialog or a closed one.
LEMMA ActivateTyped ==
  ASSUME InfoTyped, NEW c \in Chat, Activate(c)
  PROVE  /\ CallsTyped(calls') /\ spoiled' \subseteq {"detail", "people", "invites"}
         /\ active' = c /\ UNCHANGED channelInfoModalOpen /\ detailLoading' \in BOOLEAN
         /\ form' = form /\ strayed' \in BOOLEAN
         /\ activeView' \in Views \cup {"none"}
         /\ activeView' = "none" <=> ~channelInfoModalOpen
         /\ activeView' = "edit" => form \in Text
         /\ activeView' = "none" => calls' = calls /\ activeView = "none"
<1> USE DEF Activate, InfoTyped, DataTyped, DialogTyped, DialogFlags
<1>1. CASE ~channelInfoModalOpen
  BY <1>1
<1>2. CASE channelInfoModalOpen /\ active = NoChat
  BY <1>2, AppearsTyped DEF Views
<1>3. CASE channelInfoModalOpen /\ active # NoChat
  BY <1>3
<1> QED
  BY <1>1, <1>2, <1>3

\* The dialog's own steps.
LEMMA ViewsTyped ==
  ASSUME InfoTyped,
         \/ OpenChannelInfo \/ CloseInfo \/ Back \/ handleBack
         \/ \E v \in Views : ShowView(v)
         \/ \E c \in Chat : SelectChat(c) \/ RemoveChatLocal(c),
         mine' \subseteq Chat, listed' \subseteq Chat
  PROVE  InfoTyped'
<1> USE DEF InfoTyped, DataTyped, DialogTyped, DialogFlags
<1>1. CASE OpenChannelInfo
  <2>1. active \in Chat /\ Appears(active)
    BY <1>1 DEF OpenChannelInfo
  <2> QED
    BY <1>1, <2>1, AppearsTyped DEF OpenChannelInfo, Views
<1>2. CASE CloseInfo
  <2>1. Vanishes(calls)
    BY <1>2 DEF CloseInfo
  <2> QED
    BY <1>2, <2>1, VanishesTyped DEF CloseInfo
<1>3. CASE Back
  <2>1. CallsTyped(calls')
    <3>1. CallsTyped(Orphans({k \in calls : k.op \notin Loads}))
      <4>1. CallsTyped({k \in calls : k.op \notin Loads})
        BY DEF CallsTyped
      <4> QED
        BY <4>1, OrphansTyped
    <3>2. CallsTyped({k \in calls : k.op \in Loads})
      BY DEF CallsTyped
    <3> QED
      BY <1>3, <3>1, <3>2, CallSets DEF Back
  <2> QED
    BY <1>3, <2>1 DEF Back, Views
<1>4. CASE handleBack
  <2>1. Deactivate(calls)
    BY <1>4 DEF handleBack
  <2> QED
    BY <1>4, <2>1, DeactivateTyped DEF handleBack
<1>5. ASSUME NEW v \in Views, ShowView(v) PROVE InfoTyped'
  <2>1. /\ UNCHANGED <<server, active, channelInfoModalOpen>>
        /\ UNCHANGED <<detail, people, invites, detailLoading>>
        /\ activeView = "main" /\ activeView' = v
        /\ form' \in {form, detail} /\ (v = "edit" => form' = detail) /\ detail # NoText
    BY <1>5 DEF ShowView
  <2>2. CallsTyped(calls') /\ spoiled' \subseteq {"detail", "people", "invites"}
    <3>1. CASE v = "invites"
      <4>1. active \in Chat
        BY <2>1
      <4>2. CallsTyped({NewCall("loadInvites", active)})
        BY <4>1, NewCallTyped DEF Ops, Loads
      <4> QED
        BY <1>5, <3>1, <4>2, SendsTyped DEF ShowView
    <3> QED
      BY <1>5, <3>1 DEF ShowView
  <2>3. strayed' \in BOOLEAN
    BY <1>5, Zenon DEF ShowView
  <2>4. "none" \notin Views
    BY DEF Views
  <2> QED
    BY <2>1, <2>2, <2>3, <2>4
<1>6. ASSUME NEW c \in Chat, SelectChat(c) PROVE InfoTyped'
  BY <1>6, ActivateTyped, ChatsAssumption DEF SelectChat
<1>7. ASSUME NEW c \in Chat, RemoveChatLocal(c) PROVE InfoTyped'
  <2>1. CASE c = active
    BY <1>7, <2>1, DeactivateTyped DEF RemoveChatLocal
  <2>2. CASE c # active
    BY <1>7, <2>2 DEF RemoveChatLocal
  <2> QED
    BY <2>1, <2>2
<1> QED
  BY <1>1, <1>2, <1>3, <1>4, <1>5, <1>6, <1>7

\* A button that sends a call keeps the types,
LEMMA DoesTyped ==
  ASSUME InfoTyped, NEW v \in Views, NEW k, Does(v, k), active \in Chat => CallsTyped({k}),
         invites' \subseteq Link
  PROVE  InfoTyped'
<1>1. active \in Chat
  BY DEF Does, InfoTyped, DialogTyped, Views
<1>2. CallsTyped(calls') /\ spoiled' \subseteq {"detail", "people", "invites"}
  BY <1>1, SendsTyped DEF Does
<1>3. /\ activeView = v /\ v # "none"
      /\ UNCHANGED <<server, mine, listed, active, channelInfoModalOpen, activeView, detail,
                     people, detailLoading, form, strayed>>
  BY DEF Does, Views
<1> QED
  BY <1>2, <1>3 DEF InfoTyped, DataTyped, DialogTyped, DialogFlags

\* as all buttons of the views do.
LEMMA ButtonsTyped ==
  ASSUME InfoTyped,
         \/ save \/ handlePromote \/ handleDemote \/ handleCreate \/ handleLeave \/ handleDelete
         \/ \E l \in Link : handleRevoke(l)
  PROVE  InfoTyped'
<1>0. invites \subseteq Link /\ {"edit", "admins", "invites", "danger"} \subseteq Views
  BY DEF InfoTyped, DataTyped, Views
<1>1. CASE save
  <2>1. Does("edit", [NewCall("updateChannel", active) EXCEPT !.form = form])
    BY <1>1 DEF save
  <2>2. form \in Text /\ form.edit < MaxEdits
    BY <1>1, <2>1 DEF save, Does, InfoTyped, DialogTyped
  <2> QED
    BY <1>0, <1>1, <2>1, <2>2, NewCallTyped, DoesTyped DEF save, Ops
<1>2. ASSUME NEW v \in {"admins", "invites", "danger"},
             NEW op \in {"promoteMember", "demoteMember", "createInvite", "leave", "deleteChat"},
             Does(v, NewCall(op, active)), UNCHANGED invites
      PROVE  InfoTyped'
  BY <1>0, <1>2, NewCallTyped, DoesTyped DEF Ops
<1>3. ASSUME NEW l \in Link, handleRevoke(l) PROVE InfoTyped'
  <2>1. /\ invites' = invites \ {l}
        /\ Does("invites", [NewCall("revokeInvite", active) EXCEPT !.before = invites,
                                                                  !.revoking = {l}])
    BY <1>3 DEF handleRevoke
  <2> QED
    BY <1>0, <2>1, NewCallTyped, DoesTyped, ZenonT(30) DEF Ops
<1>4. CASE handlePromote \/ handleDemote \/ handleCreate \/ handleLeave \/ handleDelete
  BY <1>2, <1>4 DEF handlePromote, handleDemote, handleCreate, handleLeave, handleDelete
<1> QED
  BY <1>1, <1>3, <1>4

\* Types over the answers and failures of the calls.
LEMMA AnsweredTyped ==
  ASSUME InfoTyped, NEW k \in calls,
         \/ CallFailed(k) \/ Loaded(k) \/ Updated(k) \/ RoleChanged(k) \/ Invited(k)
         \/ Revoked(k) \/ LetGo(k) \/ PartRefused(k) \/ Left(k) \/ ChatDeleted(k),
         mine' \subseteq Chat, listed' \subseteq Chat
  PROVE  InfoTyped'
<1> USE DEF InfoTyped, DataTyped, DialogTyped, DialogFlags
<1>0. /\ k \in CallType /\ CallsTyped(Rest(k)) /\ k.chat \in Chat /\ Rest(k) \subseteq calls
      /\ k.form \in Text \cup {NoText} /\ k.before \subseteq Link
      /\ k.op = "updateChannel" => k.form \in Text /\ k.form.edit < MaxEdits
  <2>1. CallsTyped(Rest(k))
    BY CallSets DEF Rest
  <2> QED
    BY <2>1 DEF CallsTyped, CallType, Rest
<1>1. CASE CallFailed(k)
  <2>1. Store(k.op) \in {"detail", "people", "invites", "none"}
    BY StoreNames
  <2>2. k.op \in Loads => Store(k.op) # "none"
    BY DEF Loads, Store
  <2>3. detailLoading' \in BOOLEAN
    BY <1>1, Zenon DEF CallFailed
  <2> QED
    BY <1>0, <1>1, <2>1, <2>2, <2>3 DEF CallFailed
<1>2. CASE Loaded(k)
  <2>1. server[k.chat] \in [text : Text, role : {"member", "admin"}, links : SUBSET Link]
    BY <1>0
  <2>2. detailLoading' \in BOOLEAN
    BY <1>2, Zenon DEF Loaded
  <2>3. /\ detail' \in {detail, server[k.chat].text}
        /\ people' \in {people, [of |-> k.chat, role |-> server[k.chat].role]}
        /\ invites' \in {invites, server[k.chat].links}
    BY <1>2 DEF Loaded
  <2>4. [of |-> k.chat, role |-> server[k.chat].role] \in People
    BY <1>0, <2>1 DEF People
  <2>5. /\ UNCHANGED <<server, active, channelInfoModalOpen, activeView, form, spoiled, strayed>>
        /\ calls' = Rest(k)
    BY <1>2 DEF Loaded
  <2> QED
    BY <1>0, <2>1, <2>2, <2>3, <2>4, <2>5
<1>3. CASE Updated(k)
  <2>1. /\ detail' = [k.form EXCEPT !.edit = @ + 1]
        /\ server' = [server EXCEPT ![k.chat].text = detail']
        /\ k.form \in Text /\ k.form.edit < MaxEdits
        /\ UNCHANGED <<active, channelInfoModalOpen, people, invites, strayed>>
    BY <1>0, <1>3 DEF Updated
  <2>2. detail' \in Text
    BY <2>1, TextTyped
  <2>3. server' \in [Chat -> [text : Text, role : {"member", "admin"}, links : SUBSET Link]]
    <3>1. PICK t \in Text : server' = [server EXCEPT ![k.chat].text = t]
      BY <2>1, <2>2
    <3> QED
      BY <1>0, <3>1
  <2>4. CASE Heard(k)
    <3>1. /\ activeView' = "main" /\ form' = NoText /\ detailLoading' = TRUE
          /\ calls' = Rest(k) \cup {NewCall("loadDetail", active)}
          /\ spoiled' = Heals({NewCall("loadDetail", active)}, Rest(k))
      BY <1>3, <2>4 DEF Updated
    <3>2. active \in Chat
      BY <2>4
    <3>3. CallsTyped(calls') /\ spoiled' \subseteq {"detail", "people", "invites"}
      BY <1>0, <3>1, <3>2, NewCallTyped, CallSets, HealsTyped DEF Ops, Loads
    <3> QED
      <4>1. "main" \in Views /\ "main" # "none" /\ channelInfoModalOpen
        BY <2>4 DEF Views
      <4> QED
        BY <2>1, <2>2, <2>3, <3>1, <3>2, <3>3, <4>1, ChatsAssumption
  <2>5. CASE ~Heard(k)
    <3>1. calls' = Rest(k) /\ UNCHANGED <<activeView, form, detailLoading, spoiled>>
      BY <1>3, <2>5 DEF Updated
    <3> QED
      BY <1>0, <2>1, <2>2, <2>3, <3>1
  <2> QED
    BY <2>4, <2>5
<1>4. CASE RoleChanged(k)
  <2>1. PICK role \in {"member", "admin"} :
          /\ server' = [server EXCEPT ![k.chat].role = role]
          /\ people' = IF people = NoPeople THEN people ELSE [people EXCEPT !.role = role]
    BY <1>4 DEF RoleChanged
  <2>2. server' \in [Chat -> [text : Text, role : {"member", "admin"}, links : SUBSET Link]]
    BY <1>0, <2>1
  <2>3. people' \in People \cup {NoPeople}
    BY <2>1 DEF People
  <2> QED
    BY <1>0, <1>4, <2>2, <2>3 DEF RoleChanged
<1>5. CASE Invited(k)
  <2>1. PICK l \in Link : /\ server' = [server EXCEPT ![k.chat].links = @ \cup {l}]
                          /\ invites' = invites \cup {l}
    BY <1>5 DEF Invited, Fresh
  <2>2. server' \in [Chat -> [text : Text, role : {"member", "admin"}, links : SUBSET Link]]
    BY <1>0, <2>1
  <2> QED
    BY <1>0, <1>5, <2>1, <2>2 DEF Invited
<1>6. CASE Revoked(k)
  <2>1. PICK c \in Chat : server' = [server EXCEPT ![c].links = @ \ k.revoking]
    BY <1>6, InfoAssumption DEF Revoked
  <2>2. server' \in [Chat -> [text : Text, role : {"member", "admin"}, links : SUBSET Link]]
    BY <1>0, <2>1
  <2> QED
    BY <1>0, <1>6, <2>2 DEF Revoked
<1>7. CASE LetGo(k)
  <2>1. CallsTyped({[k EXCEPT !.gone = TRUE]})
    BY <1>0 DEF CallsTyped, CallType
  <2>2. Heard([k EXCEPT !.gone = TRUE]) <=> Heard(k)
    BY <1>0 DEF CallType, Heard
  <2> QED
    BY <1>0, <1>7, <2>1, <2>2, CallSets DEF LetGo
<1>8. CASE PartRefused(k)
  BY <1>0, <1>8 DEF PartRefused
<1>9. CASE Left(k)
  <2>1. CASE active = k.chat /\ Deactivate(Rest(k))
    BY <1>0, <1>9, <2>1, DeactivateTyped DEF Left
  <2>2. CASE Heard(k) /\ channelInfoModalOpen' = FALSE /\ Vanishes(Rest(k)) /\ UNCHANGED active
    BY <1>0, <1>9, <2>2, VanishesTyped DEF Left
  <2>3. CASE /\ calls' = Rest(k)
             /\ UNCHANGED <<active, channelInfoModalOpen, activeView, detailLoading, form, spoiled>>
    BY <1>0, <1>9, <2>3 DEF Left
  <2> QED
    BY <1>9, <2>1, <2>2, <2>3 DEF Left
<1>10. CASE ChatDeleted(k)
  <2>1. CASE Deactivate(Rest(k))
    BY <1>0, <1>10, <2>1, DeactivateTyped DEF ChatDeleted
  <2>2. CASE Heard(k) /\ channelInfoModalOpen' = FALSE /\ Vanishes(Rest(k)) /\ active' = NoChat
    BY <1>0, <1>10, <2>2, VanishesTyped DEF ChatDeleted
  <2>3. CASE /\ calls' = Rest(k)
             /\ UNCHANGED <<active, channelInfoModalOpen, activeView, detailLoading, form, spoiled>>
    BY <1>0, <1>10, <2>3 DEF ChatDeleted
  <2> QED
    BY <1>10, <2>1, <2>2, <2>3 DEF ChatDeleted
<1> QED
  BY <1>1, <1>2, <1>3, <1>4, <1>5, <1>6, <1>7, <1>8, <1>9, <1>10

\* Types over Escape, which closes the dialog or leaves the chat.
LEMMA EscapeTyped ==
  ASSUME InfoTyped, Escape, mine' \subseteq Chat, listed' \subseteq Chat PROVE InfoTyped'
<1> USE DEF InfoTyped, DataTyped, DialogTyped, DialogFlags
<1>1. channelInfoModalOpen' \in BOOLEAN /\ (channelInfoModalOpen' => channelInfoModalOpen)
  BY Zenon DEF Escape
<1>2. /\ UNCHANGED <<server, detail, people, invites, strayed>>
      /\ active' \in {active, NoChat}
  BY DEF Escape, storeVars
<1>3. CASE activeView # "none" /\ (~channelInfoModalOpen' \/ active' = NoChat)
  <2>1. Vanishes(calls)
    BY <1>3 DEF Escape
  <2> QED
    BY <1>1, <1>2, <1>3, <2>1, VanishesTyped
<1>4. CASE ~(activeView # "none" /\ (~channelInfoModalOpen' \/ active' = NoChat))
  <2>1. UNCHANGED <<activeView, form, calls, detailLoading, spoiled>>
    BY <1>4 DEF Escape
  <2> QED
    BY <1>1, <1>2, <1>4, <2>1
<1> QED
  BY <1>3, <1>4

\* The types of the dialog survive every step of it.
LEMMA InfoTypeStep ==
  ASSUME InfoTyped, InfoStep, mine' \subseteq Chat, listed' \subseteq Chat
  PROVE  InfoTyped'
<1>1. CASE InfoNext(Views)
  BY <1>1, ViewsTyped, ButtonsTyped, AnsweredTyped DEF InfoNext
<1>2. ASSUME NEW c \in Chat, Activate(c), UNCHANGED <<server, detail, people, invites>>
      PROVE  InfoTyped'
  BY <1>2, ActivateTyped, ChatsAssumption DEF InfoTyped, DataTyped, DialogTyped, DialogFlags
<1>3. CASE UNCHANGED <<server, detail, people, invites, dialogOnly>>
  BY <1>3 DEF dialogOnly, InfoTyped, DataTyped, DialogTyped, DialogFlags
<1> QED
  BY <1>1, <1>2, <1>3, EscapeTyped DEF InfoStep

-------------------------------------------------------------------------------
\* The info dialog: what it shows and saves.

Stores == {"detail", "people", "invites"}

\* A store that no failure and no overlap has spoiled has one call about it.
AtMostOne ==
  \A k, m \in calls : Store(k.op) = Store(m.op) /\ Store(k.op) \in Stores \ spoiled => k = m

\* Such a store is the active chat's while the dialog is there, or is being loaded.
TextRight ==
  "detail" \notin spoiled /\ activeView # "none" =>
    /\ \A k \in calls : Store(k.op) = "detail" => k.chat = active
    /\ \A k \in calls : k.op = "loadDetail" => detailLoading = TRUE
    /\ (\A k \in calls : k.op # "loadDetail") => detail = server[active].text

PeopleRight ==
  "people" \notin spoiled /\ activeView # "none" =>
    /\ \A k \in calls : Store(k.op) = "people" => k.chat = active
    /\ (\A k \in calls : k.op # "loadMembers")
         => people = [of |-> active, role |-> server[active].role]

\* A link is taken off the list before it is revoked.
LinksRight ==
  "invites" \notin spoiled /\ activeView = "invites" =>
    /\ \A k \in calls : Store(k.op) = "invites" => k.chat = active
    /\ \A k \in calls : k.op = "revokeInvite" =>
         /\ k.before = server[active].links /\ invites = k.before \ k.revoking
         /\ k.revoking \subseteq k.before /\ k.revoking # {}
    /\ (\A k \in calls : k.op \notin {"loadInvites", "revokeInvite"})
         => invites = server[active].links

\* A link is of one chat.
Disjoint == \A c, d \in Chat : c # d => server[c].links \cap server[d].links = {}

\* What is saved is of its chat, and what will be saved.
SavedInv ==
  ~strayed =>
    /\ \A c \in Chat : server[c].text.of = c
    /\ activeView = "edit" => form.of = active
    /\ \A k \in calls : k.op = "updateChannel" => k.form.of = k.chat

DialogInv == AtMostOne /\ TextRight /\ PeopleRight /\ LinksRight /\ Disjoint /\ SavedInv

\* Which operations write which store.
LEMMA StoreOf ==
  \A op : /\ Store(op) = "detail" <=> op \in {"loadDetail", "updateChannel"}
          /\ Store(op) = "people" <=> op \in {"loadMembers", "promoteMember", "demoteMember"}
          /\ Store(op) = "invites" <=> op \in {"loadInvites", "createInvite", "revokeInvite"}
          /\ Store(op) \in Stores \cup {"none"}
BY DEF Store, Stores

\* What stays of the calls.
Same(k, x) ==
  /\ x.op = k.op /\ x.chat = k.chat /\ x.form = k.form
  /\ x.before = k.before /\ x.revoking = k.revoking

CallsStay ==
  \A x, y \in calls' : \E k, m \in calls : Same(k, x) /\ Same(m, y) /\ (k = m => x = y)

Follows(s) ==
  /\ \A x \in calls' : Store(x.op) = s => \E k \in calls : Same(k, x)
  /\ \A k \in calls : Store(k.op) = s => \E x \in calls' : Same(k, x)

\* The dialog stays, for the same chat, or goes.
ViewStays == activeView' = "none" \/ (activeView # "none" /\ active' = active)

\* A step that sends nothing leaves at most one call per store that is not spoiled.
LEMMA OneKeeps ==
  ASSUME AtMostOne, CallsStay, spoiled \cap Stores \subseteq spoiled' PROVE AtMostOne'
BY DEF AtMostOne, CallsStay, Same

\* A step that leaves texts and their calls alone keeps what is shown of them;
LEMMA TextKeeps ==
  ASSUME TextRight, Follows("detail"), ViewStays, UNCHANGED detail,
         "detail" \in spoiled' \/ (detailLoading' = detailLoading /\ "detail" \notin spoiled),
         \A c \in Chat : server'[c].text = server[c].text,
         activeView' # "none" => active \in Chat
  PROVE  TextRight'
<1>1. \A op : op = "loadDetail" => Store(op) = "detail"
  BY StoreOf
<1> QED
  BY <1>1 DEF TextRight, Follows, Same, ViewStays

\* so it does for the members,
LEMMA PeopleKeeps ==
  ASSUME PeopleRight, Follows("people"), ViewStays, UNCHANGED people,
         "people" \in spoiled' \/ "people" \notin spoiled,
         \A c \in Chat : server'[c].role = server[c].role,
         activeView' # "none" => active \in Chat
  PROVE  PeopleRight'
<1>1. \A op : op = "loadMembers" => Store(op) = "people"
  BY StoreOf
<1> QED
  BY <1>1 DEF PeopleRight, Follows, Same, ViewStays

\* for the links,
LEMMA LinksKeeps ==
  ASSUME LinksRight, Follows("invites"), ViewStays, UNCHANGED invites,
         "invites" \in spoiled' \/ "invites" \notin spoiled,
         activeView' = "invites" => activeView = "invites" /\ active \in Chat,
         \A c \in Chat : server'[c].links = server[c].links
  PROVE  LinksRight'
<1>1. \A op : op \in {"loadInvites", "revokeInvite"} => Store(op) = "invites"
  BY StoreOf
<1> QED
  BY <1>1 DEF LinksRight, Follows, Same, ViewStays

\* and for the form and the calls that save it.
LEMMA SavedKeeps ==
  ASSUME SavedInv, ~strayed' => ~strayed,
         \A x \in calls' : \E k \in calls : Same(k, x),
         \A c \in Chat : server'[c].text = server[c].text,
         activeView' = "edit" => activeView = "edit" /\ active' = active /\ form' = form
  PROVE  SavedInv'
BY DEF SavedInv, Same

\* A step that loads nothing, and asks the server for nothing.
LEMMA DullStep ==
  ASSUME DialogInv, InfoTyped, CallsStay, ViewStays,
         \A s \in Stores : \A k \in calls : Store(k.op) = s => \E x \in calls' : Same(k, x),
         UNCHANGED <<server, detail, people, invites, detailLoading, spoiled, strayed>>,
         activeView' \in {"edit", "invites"} => activeView' = activeView /\ form' = form
  PROVE  DialogInv'
<1>1. \A s \in Stores : Follows(s)
  BY DEF CallsStay, Follows
<1>2. activeView' # "none" => active \in Chat
  BY DEF ViewStays, InfoTyped, DialogTyped
<1>3. AtMostOne'
  BY OneKeeps DEF DialogInv
<1>4. TextRight'
  <2>1. CASE "detail" \in spoiled
    BY <2>1 DEF TextRight
  <2> QED
    BY <1>1, <1>2, <2>1, TextKeeps DEF DialogInv, Stores
<1>5. PeopleRight'
  <2>1. CASE "people" \in spoiled
    BY <2>1 DEF PeopleRight
  <2> QED
    BY <1>1, <1>2, <2>1, PeopleKeeps DEF DialogInv, Stores
<1>6. LinksRight'
  <2>1. CASE "invites" \in spoiled
    BY <2>1 DEF LinksRight
  <2> QED
    BY <1>1, <1>2, <2>1, LinksKeeps DEF DialogInv, Stores
<1>7. SavedInv'
  <2>1. activeView' = "edit" => activeView = "edit" /\ active' = active /\ form' = form
    BY DEF ViewStays
  <2> QED
    BY <2>1, SavedKeeps DEF DialogInv, CallsStay
<1>8. Disjoint'
  BY DEF DialogInv, Disjoint
<1> QED
  BY <1>3, <1>4, <1>5, <1>6, <1>7, <1>8 DEF DialogInv

\* Calls that end disturb none of the others.
LEMMA SameStays ==
  ASSUME NEW rest, rest \subseteq calls, calls' = rest
  PROVE  CallsStay /\ \A k \in rest : \E x \in calls' : Same(k, x)
BY DEF CallsStay, Same

\* A call that its component does not hear is the same call.
LEMMA OrphansSame ==
  ASSUME NEW ks
  PROVE  /\ \A x, y \in Orphans(ks) :
              \E k, m \in ks : Same(k, x) /\ Same(m, y) /\ (k = m => x = y)
         /\ \A k \in ks : \E x \in Orphans(ks) : Same(k, x)
<1> DEFINE F(k) == IF Heard(k) THEN [k EXCEPT !.at = active] ELSE k
<1>1. ASSUME NEW k PROVE Same(k, F(k))
  BY DEF Same
<1>2. Orphans(ks) = {F(k) : k \in ks}
  BY DEF Orphans
<1> HIDE DEF F
<1> QED
  BY <1>1, <1>2

\* A step that ends calls to no store, and at most closes views, keeps `DialogInv`.
LEMMA GoesRight ==
  ASSUME DialogInv, InfoTyped, NEW rest, rest \subseteq calls, calls' \in {rest, Orphans(rest)},
         \A k \in calls : Store(k.op) \in Stores => k \in rest, ViewStays,
         activeView' \in {"edit", "invites"} => activeView' = activeView /\ form' = form,
         UNCHANGED <<server, detail, people, invites, detailLoading, spoiled, strayed>>
  PROVE  DialogInv'
<1>1. CallsStay /\ \A k \in rest : \E x \in calls' : Same(k, x)
  BY SameStays, OrphansSame DEF CallsStay
<1> QED
  BY <1>1, DullStep

\* Such is leaving the chat for none,
LEMMA DeactivateRight ==
  ASSUME DialogInv, InfoTyped, NEW rest, rest \subseteq calls, Deactivate(rest),
         \A k \in calls : Store(k.op) \in Stores => k \in rest,
         UNCHANGED <<server, detail, people, invites, strayed>>
  PROVE  DialogInv'
<1>1. /\ activeView' = "none" /\ UNCHANGED <<detailLoading, spoiled>>
      /\ calls' \in {rest, Orphans(rest)}
  BY DEF Deactivate, Vanishes
<1> QED
  BY <1>1, GoesRight DEF ViewStays

\* Escape,
LEMMA EscapeRight ==
  ASSUME DialogInv, InfoTyped, Escape PROVE DialogInv'
<1>1. /\ UNCHANGED <<server, detail, people, invites, strayed, detailLoading, spoiled>>
      /\ calls' \in {calls, Orphans(calls)} /\ ViewStays
      /\ activeView' = "none" \/ UNCHANGED <<activeView, form>>
  <2>1. CASE activeView # "none" /\ (~channelInfoModalOpen' \/ active' = NoChat)
    BY <2>1 DEF Escape, Vanishes, ViewStays, storeVars
  <2>2. CASE ~(activeView # "none" /\ (~channelInfoModalOpen' \/ active' = NoChat))
    <3>1. active' = active \/ active' = NoChat
      BY DEF Escape
    <3> QED
      BY <2>2, <3>1 DEF Escape, ViewStays, storeVars
  <2> QED
    BY <2>1, <2>2
<1> QED
  BY <1>1, GoesRight

\* and whatever else closes the dialog, goes back in it, or takes the chat away.
LEMMA LeavesRight ==
  ASSUME DialogInv, InfoTyped,
         \/ CloseInfo \/ Back \/ handleBack
         \/ \E c \in Chat : RemoveChatLocal(c)
         \/ \E k \in calls : LetGo(k) \/ PartRefused(k) \/ Left(k) \/ ChatDeleted(k)
  PROVE  DialogInv'
<1>1. CASE CloseInfo
  BY <1>1, GoesRight DEF CloseInfo, Vanishes, ViewStays
<1>2. CASE Back
  <2> DEFINE ks == {k \in calls : k.op \notin Loads}  ls == {k \in calls : k.op \in Loads}
  <2>1. calls' = Orphans(ks) \cup ls
    BY <1>2 DEF Back
  <2>2. \A k \in ks, m \in ls : k # m
    OBVIOUS
  <2>3. \A x \in ls : Same(x, x)
    BY DEF Same
  <2>4. CallsStay
    <3> SUFFICES ASSUME NEW x \in calls', NEW y \in calls'
                 PROVE  \E k, m \in calls : Same(k, x) /\ Same(m, y) /\ (k = m => x = y)
      BY DEF CallsStay
    <3>1. \A z \in Orphans(ks) : \E k \in ks : Same(k, z)
      BY OrphansSame
    <3>2. CASE x \in Orphans(ks) /\ y \in Orphans(ks)
      BY <3>2, OrphansSame
    <3>3. CASE x \in Orphans(ks) /\ y \in ls
      BY <2>2, <2>3, <3>1, <3>3
    <3>4. CASE x \in ls /\ y \in Orphans(ks)
      BY <2>2, <2>3, <3>1, <3>4
    <3>5. CASE x \in ls /\ y \in ls
      BY <2>3, <3>5
    <3> QED
      BY <2>1, <3>2, <3>3, <3>4, <3>5
  <2>5. \A k \in calls : \E x \in calls' : Same(k, x)
    <3>1. \A k \in ks : \E x \in Orphans(ks) : Same(k, x)
      BY OrphansSame
    <3> QED
      BY <2>1, <2>3, <3>1
  <2>6. /\ activeView # "none" /\ activeView' = "main"
        /\ UNCHANGED <<server, active, detail, people, invites, detailLoading, spoiled, strayed>>
    BY <1>2 DEF Back, Views
  <2> HIDE DEF ks, ls
  <2> QED
    BY <2>4, <2>5, <2>6, DullStep DEF ViewStays
<1>3. CASE handleBack
  BY <1>3, DeactivateRight DEF handleBack
<1>4. ASSUME NEW c \in Chat, RemoveChatLocal(c) PROVE DialogInv'
  <2>1. CASE c = active
    BY <1>4, <2>1, DeactivateRight DEF RemoveChatLocal
  <2>2. CASE c # active
    BY <1>4, <2>2, GoesRight DEF RemoveChatLocal, ViewStays
  <2> QED
    BY <2>1, <2>2
<1>5. ASSUME NEW k \in calls, LetGo(k) \/ PartRefused(k) \/ Left(k) \/ ChatDeleted(k)
      PROVE  DialogInv'
  <2>1. k.op \in {"leave", "deleteChat"} /\ UNCHANGED <<server, detail, people, invites, strayed>>
    BY <1>5 DEF LetGo, PartRefused, Left, ChatDeleted
  <2>2. Store(k.op) \notin Stores
    BY <2>1, StoreOf DEF Stores
  <2>3. Rest(k) \subseteq calls /\ \A m \in calls : Store(m.op) \in Stores => m \in Rest(k)
    BY <2>2 DEF Rest
  <2>4. CASE LetGo(k)
    <3> DEFINE g == [k EXCEPT !.gone = TRUE]
    <3>1. Same(k, g)
      BY DEF Same
    <3>2. /\ calls' = Rest(k) \cup {g}
          /\ UNCHANGED <<active, activeView, detailLoading, form, spoiled>>
      BY <2>4 DEF LetGo
    <3> HIDE DEF g
    <3>3. \A m : Same(m, m)
      BY DEF Same
    <3>4. CallsStay
      BY <3>1, <3>2, <3>3 DEF CallsStay, Rest
    <3>5. \A m \in calls : Store(m.op) \in Stores => \E x \in calls' : Same(m, x)
      BY <2>3, <3>2, <3>3
    <3> QED
      BY <2>1, <3>2, <3>4, <3>5, DullStep DEF ViewStays
  <2>5. CASE /\ calls' = Rest(k)
             /\ UNCHANGED <<active, activeView, detailLoading, form, spoiled>>
    BY <2>1, <2>3, <2>5, GoesRight DEF ViewStays
  <2>6. CASE Deactivate(Rest(k))
    BY <2>1, <2>3, <2>6, DeactivateRight
  <2>7. CASE Vanishes(Rest(k))
    BY <2>1, <2>3, <2>7, GoesRight DEF Vanishes, ViewStays
  <2> QED
    BY <1>5, <2>4, <2>5, <2>6, <2>7 DEF PartRefused, Left, ChatDeleted
<1> QED
  BY <1>1, <1>2, <1>3, <1>4, <1>5

\* Calls that are sent: to the chat of the dialog, one about each store.
LEMMA HealsFacts ==
  ASSUME NEW new, NEW rest, NEW s \in Stores, s \notin Heals(new, rest)
  PROVE  /\ s \notin spoiled \/ \E k \in new : k.op \in Loads /\ Store(k.op) = s
         /\ \A k \in new, m \in rest : ~(Store(k.op) = s /\ Store(m.op) = s)
<1>1. s # "none"
  BY DEF Stores
<1> QED
  BY <1>1 DEF Heals

\* Each store has one operation that loads it.
LEMMA LoadOf ==
  \A op : /\ op \in Loads /\ Store(op) = "detail" => op = "loadDetail"
          /\ op \in Loads /\ Store(op) = "people" => op = "loadMembers"
          /\ op \in Loads /\ Store(op) = "invites" => op = "loadInvites"
BY StoreOf DEF Loads

\* A new call to a store spoils it when another is under way, so that at most one goes unspoiled.
LEMMA OneSends ==
  ASSUME AtMostOne, NEW new, NEW rest, rest \subseteq calls, calls' = rest \cup new,
         spoiled' = Heals(new, rest),
         \A k, m \in new : Store(k.op) = Store(m.op) => k = m
  PROVE  AtMostOne'
<1> SUFFICES ASSUME NEW k \in rest \cup new, NEW m \in rest \cup new, NEW s \in Stores,
                    Store(k.op) = s, Store(m.op) = s, s \notin Heals(new, rest)
             PROVE  k = m
  BY DEF AtMostOne
<1>1. CASE k \in new \/ m \in new
  BY <1>1, HealsFacts
<1>2. CASE k \in rest /\ m \in rest
  <2>1. s \notin spoiled
    BY HealsFacts, <1>1, <1>2
  <2> QED
    BY <1>2, <2>1 DEF AtMostOne
<1> QED
  BY <1>1, <1>2

\* A load of the texts that is sent makes them pending; other calls leave them as they are.
LEMMA TextSends ==
  ASSUME TextRight, NEW new, NEW rest, rest \subseteq calls, calls' = rest \cup new,
         spoiled' = Heals(new, rest),
         \A k \in new : Store(k.op) = "detail" => k.chat = active',
         \/ detailLoading' = TRUE /\ \E k \in new : k.op = "loadDetail"
         \/ /\ UNCHANGED <<server, detail, active, detailLoading>> /\ activeView # "none"
            /\ \A k \in calls : k.op = "loadDetail" => k \in rest
            /\ \A k \in new : k.op # "loadDetail"
  PROVE  TextRight'
<1> SUFFICES ASSUME "detail" \notin Heals(new, rest), activeView' # "none"
             PROVE  /\ \A k \in calls' : Store(k.op) = "detail" => k.chat = active'
                    /\ \A k \in calls' : k.op = "loadDetail" => detailLoading' = TRUE
                    /\ (\A k \in calls' : k.op # "loadDetail") => detail = server[active'].text
  BY DEF TextRight
<1>0. Store("loadDetail") = "detail" /\ "detail" \in Stores
  BY StoreOf DEF Stores
<1>1. /\ "detail" \notin spoiled \/ \E k \in new : k.op = "loadDetail"
      /\ \A k \in new, m \in rest : ~(Store(k.op) = "detail" /\ Store(m.op) = "detail")
  BY <1>0, HealsFacts, LoadOf
<1>2. CASE detailLoading' = TRUE /\ \E k \in new : k.op = "loadDetail"
  BY <1>0, <1>1, <1>2
<1>3. CASE /\ UNCHANGED <<server, detail, active, detailLoading>> /\ activeView # "none"
           /\ \A k \in calls : k.op = "loadDetail" => k \in rest
           /\ \A k \in new : k.op # "loadDetail"
  BY <1>0, <1>1, <1>3 DEF TextRight
<1> QED
  BY <1>2, <1>3

\* So it is with the members,
LEMMA PeopleSends ==
  ASSUME PeopleRight, NEW new, calls' = calls \cup new, spoiled' = Heals(new, calls),
         \A k \in new : Store(k.op) = "people" => k.chat = active',
         UNCHANGED <<server, people>>,
         \/ \E k \in new : k.op = "loadMembers"
         \/ /\ UNCHANGED active /\ activeView # "none"
            /\ \A k \in new : k.op # "loadMembers"
  PROVE  PeopleRight'
<1> SUFFICES ASSUME "people" \notin Heals(new, calls), activeView' # "none"
             PROVE  /\ \A k \in calls' : Store(k.op) = "people" => k.chat = active'
                    /\ (\A k \in calls' : k.op # "loadMembers")
                         => people = [of |-> active', role |-> server[active'].role]
  BY DEF PeopleRight
<1>0. Store("loadMembers") = "people" /\ "people" \in Stores
  BY StoreOf DEF Stores
<1>1. /\ "people" \notin spoiled \/ \E k \in new : k.op = "loadMembers"
      /\ \A k \in new, m \in calls : ~(Store(k.op) = "people" /\ Store(m.op) = "people")
  BY <1>0, HealsFacts, LoadOf
<1>2. CASE \E k \in new : k.op = "loadMembers"
  BY <1>0, <1>1, <1>2
<1>3. CASE UNCHANGED active /\ activeView # "none" /\ \A k \in new : k.op # "loadMembers"
  BY <1>0, <1>1, <1>3 DEF PeopleRight
<1> QED
  BY <1>2, <1>3

\* A call from the list of links takes the list for what it is.
Takes(n) ==
  \/ n.op = "loadInvites" /\ activeView # "none"
  \/ /\ activeView = "invites"
     /\ n.op # "revokeInvite" /\ UNCHANGED invites
  \/ /\ activeView = "invites" /\ n.op = "revokeInvite" /\ n.before = invites
     /\ n.revoking \subseteq invites /\ n.revoking # {} /\ invites' = invites \ n.revoking

\* and with the links, whose view sends all calls to them.
LEMMA LinksSends ==
  ASSUME LinksRight, NEW n, calls' = calls \cup {n}, spoiled' = Heals({n}, calls),
         UNCHANGED <<server, active>>,
         activeView' = "invites" => n.chat = active /\ Store(n.op) = "invites" /\ Takes(n)
  PROVE  LinksRight'
<1> SUFFICES ASSUME "invites" \notin Heals({n}, calls), n.chat = active, Store(n.op) = "invites",
                    Takes(n)
             PROVE  /\ \A k \in calls' : Store(k.op) = "invites" => k.chat = active
                    /\ \A k \in calls' : k.op = "revokeInvite" =>
                         /\ k.before = server[active].links /\ invites' = k.before \ k.revoking
                         /\ k.revoking \subseteq k.before /\ k.revoking # {}
                    /\ (\A k \in calls' : k.op \notin {"loadInvites", "revokeInvite"})
                         => invites' = server[active].links
  BY DEF LinksRight
<1>0. /\ \A op \in {"loadInvites", "revokeInvite"} : Store(op) = "invites"
      /\ "invites" \in Stores
  BY StoreOf DEF Stores
<1>1. /\ "invites" \notin spoiled \/ n.op = "loadInvites"
      /\ \A m \in calls : Store(m.op) # "invites"
  BY <1>0, HealsFacts, LoadOf DEF Stores
<1>2. \A m \in calls : m.op \notin {"loadInvites", "revokeInvite"}
  BY <1>0, <1>1
<1>3. CASE n.op = "loadInvites"
  BY <1>1, <1>2, <1>3
<1>4. CASE n.op # "loadInvites"
  <2>1. activeView = "invites" /\ invites = server[active].links
    BY <1>1, <1>2, <1>4 DEF Takes, LinksRight
  <2> QED
    BY <1>1, <1>2, <1>4, <2>1 DEF Takes
<1> QED
  BY <1>3, <1>4

\* A new call names its operation and its chat.
LEMMA NewCallOf ==
  \A op, c : NewCall(op, c).op = op /\ NewCall(op, c).chat = c
BY DEF NewCall

\* A dialog that appears loads its stores anew, from whatever they held.
LEMMA AppearsRight ==
  ASSUME DialogInv, InfoTyped, NEW c \in Chat, Appears(c), active' = c,
         UNCHANGED <<server, detail, people, invites, strayed>>
  PROVE  DialogInv'
<1> DEFINE new == MountLoads(c)  a == NewCall("loadDetail", c)  b == NewCall("loadMembers", c)
<1>1. /\ activeView' = "main" /\ detailLoading' = TRUE
      /\ calls' = calls \cup new /\ spoiled' = Heals(new, calls)
  BY DEF Appears, Sends
<1>2. /\ new = {a, b} /\ a.op = "loadDetail" /\ b.op = "loadMembers"
      /\ a.chat = c /\ b.chat = c
  BY NewCallOf DEF MountLoads
<1> HIDE DEF new, a, b
<1>3. /\ Store(a.op) = "detail" /\ Store(b.op) = "people"
      /\ \A k, m \in new : Store(k.op) = Store(m.op) => k = m
      /\ \A k \in new : k.chat = active'
  BY <1>2, StoreOf
<1>4. AtMostOne'
  BY <1>1, <1>3, OneSends DEF DialogInv
<1>5. TextRight'
  BY <1>1, <1>2, <1>3, TextSends DEF DialogInv
<1>6. PeopleRight'
  BY <1>1, <1>2, <1>3, PeopleSends DEF DialogInv
<1>7. LinksRight' /\ Disjoint'
  BY <1>1 DEF LinksRight, DialogInv, Disjoint
<1>8. SavedInv'
  BY <1>1, <1>2 DEF SavedInv, DialogInv
<1> QED
  BY <1>4, <1>5, <1>6, <1>7, <1>8 DEF DialogInv

\* So does a change of chat from none; from another one it leaves the stores spoiled.
LEMMA ActivateRight ==
  ASSUME DialogInv, InfoTyped, NEW c \in Chat, Activate(c),
         UNCHANGED <<server, detail, people, invites>>
  PROVE  DialogInv'
<1>1. CASE ~channelInfoModalOpen
  <2>1. /\ UNCHANGED <<activeView, detailLoading, form, calls, spoiled, strayed>>
        /\ activeView' = "none"
    BY <1>1 DEF Activate, InfoTyped, DialogTyped
  <2> QED
    BY <2>1, GoesRight DEF ViewStays
<1>2. CASE channelInfoModalOpen /\ active = NoChat
  BY <1>2, AppearsRight DEF Activate
<1>3. CASE channelInfoModalOpen /\ active # NoChat
  <2>1. strayed' = TRUE /\ spoiled' = Stores /\ UNCHANGED calls
    BY <1>3 DEF Activate, Stores
  <2> QED
    BY <2>1 DEF DialogInv, AtMostOne, TextRight, PeopleRight, LinksRight, Disjoint, SavedInv, Stores
<1> QED
  BY <1>1, <1>2, <1>3

\* One call is sent from a view, to the active chat.
LEMMA SentRight ==
  ASSUME DialogInv, InfoTyped, NEW n, activeView # "none", calls' = calls \cup {n},
         spoiled' = Heals({n}, calls), n.chat = active,
         UNCHANGED <<server, active, detail, people, detailLoading>>,
         n.op \notin {"loadDetail", "loadMembers"}, ~strayed' => ~strayed,
         n.op = "updateChannel" => activeView = "edit" /\ n.form = form,
         activeView' = "edit" => activeView = "edit" /\ form' = form,
         activeView' = "invites" => Store(n.op) = "invites" /\ Takes(n)
  PROVE  DialogInv'
<1>1. AtMostOne'
  BY OneSends DEF DialogInv
<1>0. /\ \A k \in {n} : k.chat = active' /\ k.op \notin {"loadDetail", "loadMembers"}
      /\ \A k \in calls : k.op = "loadDetail" => k \in calls
      /\ calls \subseteq calls /\ TextRight /\ PeopleRight
  BY DEF DialogInv
<1>2. TextRight'
  <2>1. PICK new : new = {n}
    OBVIOUS
  <2>2. PICK rest : rest = calls
    OBVIOUS
  <2>3. /\ calls' = rest \cup new /\ spoiled' = Heals(new, rest) /\ rest \subseteq calls
        /\ \A k \in new : k.chat = active' /\ k.op # "loadDetail"
        /\ \A k \in calls : k.op = "loadDetail" => k \in rest
    BY <1>0, <2>1, <2>2
  <2>4. UNCHANGED <<server, detail, active, detailLoading>>
    OBVIOUS
  <2> QED
    BY <1>0, <2>3, <2>4, TextSends
<1>3. PeopleRight'
  BY <1>0, PeopleSends
<1>4. LinksRight'
  BY LinksSends DEF DialogInv
<1>5. Disjoint'
  BY DEF DialogInv, Disjoint
<1>6. SavedInv'
  BY DEF DialogInv, SavedInv
<1> QED
  BY <1>1, <1>2, <1>3, <1>4, <1>5, <1>6 DEF DialogInv

\* Going to another view: the form is filled from what is shown, the links are loaded.
LEMMA ShowRight ==
  ASSUME DialogInv, InfoTyped, NEW v \in Views, ShowView(v) PROVE DialogInv'
<1>1. /\ UNCHANGED <<server, active, detail, people, invites, detailLoading>>
      /\ activeView = "main" /\ activeView' = v /\ ~detailLoading /\ detail # NoText
      /\ ~strayed' => ~strayed
      /\ v = "edit" => form' = detail /\ (strayed' \/ "detail" \notin spoiled)
      /\ v # "edit" => form' = form
  BY DEF ShowView
<1>2. CASE v = "invites"
  <2> DEFINE n == NewCall("loadInvites", active)
  <2>1. calls' = calls \cup {n} /\ spoiled' = Heals({n}, calls)
    BY <1>2 DEF ShowView, Sends
  <2>2. n.op = "loadInvites" /\ n.chat = active
    BY NewCallOf
  <2> HIDE DEF n
  <2> QED
    BY <1>1, <1>2, <2>1, <2>2, StoreOf, SentRight DEF Takes
<1>3. CASE v = "edit"
  <2>1. UNCHANGED <<calls, spoiled>>
    BY <1>3 DEF ShowView
  <2>2. ~strayed' => form'.of = active
    <3> SUFFICES ASSUME ~strayed' PROVE detail.of = active
      BY <1>1, <1>3
    <3>1. "detail" \notin spoiled /\ ~strayed
      BY <1>1, <1>3
    <3>2. detail = server[active].text
      BY <1>1, <3>1, StoreOf DEF DialogInv, TextRight
    <3> QED
      BY <1>1, <3>1, <3>2 DEF DialogInv, SavedInv, InfoTyped, DialogTyped
  <2>3. AtMostOne' /\ TextRight' /\ PeopleRight'
    BY <1>1, <2>1 DEF DialogInv, AtMostOne, TextRight, PeopleRight
  <2>4. LinksRight' /\ Disjoint' /\ SavedInv'
    BY <1>1, <1>3, <2>1, <2>2 DEF DialogInv, LinksRight, Disjoint, SavedInv
  <2> QED
    BY <2>3, <2>4 DEF DialogInv
<1>4. CASE v \notin {"invites", "edit"}
  <2>1. UNCHANGED <<calls, spoiled>> /\ UNCHANGED strayed
    BY <1>4, <1>1 DEF ShowView, InfoTyped, DialogFlags
  <2> QED
    BY <1>1, <1>4, <2>1, GoesRight DEF ViewStays
<1> QED
  BY <1>2, <1>3, <1>4

\* The buttons send calls about the active chat.
LEMMA ButtonsRight ==
  ASSUME DialogInv, InfoTyped,
         \/ save \/ handlePromote \/ handleDemote \/ handleCreate \/ handleLeave \/ handleDelete
         \/ \E l \in Link : handleRevoke(l)
  PROVE  DialogInv'
<1>1. ASSUME NEW v \in {"edit", "admins", "invites", "danger"}, NEW n, Does(v, n),
             n.chat = active, n.op \notin {"loadDetail", "loadMembers"},
             n.op = "updateChannel" => v = "edit" /\ n.form = form,
             v = "invites" => Store(n.op) = "invites" /\ Takes(n)
      PROVE  DialogInv'
  <2>1. /\ activeView = v /\ calls' = calls \cup {n} /\ spoiled' = Heals({n}, calls)
        /\ UNCHANGED <<server, active, activeView, detail, people, detailLoading, form, strayed>>
    BY <1>1 DEF Does, Sends
  <2> QED
    BY <1>1, <2>1, SentRight
<1>2. CASE save
  <2> DEFINE n == [NewCall("updateChannel", active) EXCEPT !.form = form]
  <2>1. n.op = "updateChannel" /\ n.chat = active /\ n.form = form
    BY DEF NewCall
  <2>2. Does("edit", n)
    BY <1>2 DEF save
  <2> HIDE DEF n
  <2> QED
    BY <1>1, <2>1, <2>2
<1>3. ASSUME NEW v \in {"admins", "danger"},
             NEW op \in {"promoteMember", "demoteMember", "leave", "deleteChat"},
             Does(v, NewCall(op, active))
      PROVE  DialogInv'
  BY <1>1, <1>3, NewCallOf
<1>4. CASE handleCreate
  <2> DEFINE n == NewCall("createInvite", active)
  <2>1. n.op = "createInvite" /\ n.chat = active /\ Store(n.op) = "invites"
    BY NewCallOf, StoreOf
  <2>2. Does("invites", n) /\ UNCHANGED invites
    BY <1>4 DEF handleCreate
  <2> HIDE DEF n
  <2>3. activeView = "invites"
    BY <2>2 DEF Does
  <2> QED
    BY <1>1, <2>1, <2>2, <2>3 DEF Takes
<1>5. ASSUME NEW l \in Link, handleRevoke(l) PROVE DialogInv'
  <2> DEFINE n == [NewCall("revokeInvite", active) EXCEPT !.before = invites, !.revoking = {l}]
  <2>1. /\ n.op = "revokeInvite" /\ n.chat = active /\ n.before = invites /\ n.revoking = {l}
        /\ Store("revokeInvite") = "invites"
    BY StoreOf DEF NewCall
  <2>2. Does("invites", n) /\ invites' = invites \ {l} /\ l \in invites
    BY <1>5 DEF handleRevoke
  <2> HIDE DEF n
  <2>3. activeView = "invites"
    BY <2>2 DEF Does
  <2>4. Takes(n)
    BY <2>1, <2>2, <2>3 DEF Takes
  <2> QED
    BY <1>1, <2>1, <2>2, <2>4
<1>6. CASE handlePromote \/ handleDemote \/ handleLeave \/ handleDelete
  BY <1>3, <1>6 DEF handlePromote, handleDemote, handleLeave, handleDelete
<1> QED
  BY <1>2, <1>4, <1>5, <1>6

\* The answers.
LEMMA RestStays ==
  ASSUME NEW k \in calls, calls' = Rest(k)
  PROVE  /\ CallsStay /\ \A x \in calls' : Same(x, x) /\ x \in calls
         /\ \A s : Store(k.op) # s => Follows(s)
<1>1. Rest(k) \subseteq calls /\ \A x : Same(x, x)
  BY DEF Rest, Same
<1> QED
  BY <1>1, SameStays DEF Follows, Rest

\* An answer that changes no text leaves the saved ones alone.
LEMMA RestSaved ==
  ASSUME SavedInv, NEW k \in calls, calls' = Rest(k),
         UNCHANGED <<activeView, active, form, strayed>>,
         \A c \in Chat : server'[c].text = server[c].text
  PROVE  SavedInv'
<1>1. \A x \in calls' : \E m \in calls : Same(m, x)
  BY RestStays
<1> QED
  BY <1>1, SavedKeeps

\* The only call about a store that is not spoiled.
LEMMA Alone ==
  ASSUME AtMostOne, NEW k \in calls, Store(k.op) \in Stores \ spoiled
  PROVE  \A m \in Rest(k) : Store(m.op) # Store(k.op)
BY DEF AtMostOne, Rest

\* A load that failed spoils its store; a revocation that failed puts the link back.
LEMMA FailedRight ==
  ASSUME DialogInv, InfoTyped, NEW k \in calls, CallFailed(k) PROVE DialogInv'
<1>0. /\ calls' = Rest(k) /\ UNCHANGED <<server, active, activeView, detail, people, form, strayed>>
      /\ spoiled' = IF k.op \in Loads THEN spoiled \cup {Store(k.op)} ELSE spoiled
      /\ spoiled \subseteq spoiled'
      /\ invites' = IF k.op = "revokeInvite" THEN k.before ELSE invites
      /\ k.op \notin {"loadDetail"} => detailLoading' = detailLoading
  <2>1. k.op # "loadDetail" => detailLoading' = detailLoading
    BY DEF CallFailed, InfoTyped, DialogFlags
  <2> QED
    BY <2>1 DEF CallFailed
<1>1. /\ k.op = "loadDetail" => "detail" \in spoiled'
      /\ k.op = "loadMembers" => "people" \in spoiled'
      /\ k.op = "loadInvites" => "invites" \in spoiled'
  BY <1>0, StoreOf DEF Loads
<1>2. \A m \in Rest(k) : m \in calls
  BY DEF Rest
<1>3. \A m \in calls : m = k \/ m \in Rest(k)
  BY DEF Rest
<1>4. AtMostOne'
  BY <1>0, RestStays, OneKeeps DEF DialogInv
<1>5. TextRight'
  <2> SUFFICES ASSUME "detail" \notin spoiled', activeView # "none"
               PROVE  /\ \A m \in Rest(k) : Store(m.op) = "detail" => m.chat = active
                      /\ \A m \in Rest(k) : m.op = "loadDetail" => detailLoading' = TRUE
                      /\ (\A m \in Rest(k) : m.op # "loadDetail") => detail = server[active].text
    BY <1>0 DEF TextRight
  <2> QED
    BY <1>0, <1>1, <1>2, <1>3 DEF DialogInv, TextRight
<1>6. PeopleRight'
  <2> SUFFICES ASSUME "people" \notin spoiled', activeView # "none"
               PROVE  /\ \A m \in Rest(k) : Store(m.op) = "people" => m.chat = active
                      /\ (\A m \in Rest(k) : m.op # "loadMembers")
                           => people = [of |-> active, role |-> server[active].role]
    BY <1>0 DEF PeopleRight
  <2> QED
    BY <1>0, <1>1, <1>2, <1>3 DEF DialogInv, PeopleRight
<1>7. LinksRight'
  <2>1. CASE Store(k.op) # "invites"
    <3>1. k.op # "revokeInvite"
      BY <2>1, StoreOf
    <3>2. CASE "invites" \in spoiled
      BY <1>0, <3>2 DEF LinksRight
    <3>3. CASE "invites" \notin spoiled
      <4>1. Follows("invites") /\ (activeView' = "invites" => active \in Chat)
        BY <1>0, <2>1, RestStays DEF InfoTyped, DialogTyped
      <4> QED
        BY <1>0, <3>1, <3>3, <4>1, LinksKeeps DEF DialogInv, ViewStays
    <3> QED
      BY <3>2, <3>3
  <2>2. CASE Store(k.op) = "invites"
    <3> SUFFICES ASSUME "invites" \notin spoiled', activeView = "invites"
                 PROVE  /\ \A m \in Rest(k) : Store(m.op) # "invites"
                        /\ invites' = server[active].links
      <4>1. \A op : op \in {"loadInvites", "revokeInvite"} => Store(op) = "invites"
        BY StoreOf
      <4> QED
        BY <1>0, <4>1 DEF LinksRight
    <3>1. "invites" \notin spoiled /\ k.op # "loadInvites"
      BY <1>0, <1>1
    <3>2. \A m \in Rest(k) : Store(m.op) # "invites"
      BY <2>2, <3>1, Alone DEF DialogInv, Stores
    <3>3. \A m \in calls : m # k => m.op \notin {"loadInvites", "revokeInvite"}
      BY <1>3, <3>2, StoreOf
    <3> QED
      BY <1>0, <3>1, <3>2, <3>3 DEF DialogInv, LinksRight
  <2> QED
    BY <2>1, <2>2
<1>8. SavedInv' /\ Disjoint'
  <2>1. Disjoint'
    BY <1>0 DEF DialogInv, Disjoint
  <2> QED
    BY <1>0, <2>1, RestSaved DEF DialogInv
<1> QED
  BY <1>4, <1>5, <1>6, <1>7, <1>8 DEF DialogInv

\* A load brings what the server has, if it is the only call to its store.
LEMMA LoadedRight ==
  ASSUME DialogInv, InfoTyped, NEW k \in calls, Loaded(k) PROVE DialogInv'
<1>0. /\ calls' = Rest(k)
      /\ UNCHANGED <<server, active, activeView, form, spoiled, strayed>>
      /\ k.op \in Loads
      /\ detail' = IF k.op = "loadDetail" THEN server[k.chat].text ELSE detail
      /\ people' = IF k.op = "loadMembers" THEN [of |-> k.chat, role |-> server[k.chat].role]
                                           ELSE people
      /\ invites' = IF k.op = "loadInvites" THEN server[k.chat].links ELSE invites
      /\ k.op # "loadDetail" => detailLoading' = detailLoading
  <2>1. k.op # "loadDetail" => detailLoading' = detailLoading
    BY DEF Loaded, InfoTyped, DialogFlags
  <2> QED
    BY <2>1 DEF Loaded
<1>1. /\ Store("loadDetail") = "detail" /\ Store("loadMembers") = "people"
      /\ Store("loadInvites") = "invites"
  BY StoreOf
<1>2. /\ ViewStays \/ activeView = "none"
      /\ activeView' # "none" => active \in Chat
  BY <1>0 DEF ViewStays, InfoTyped, DialogTyped
<1>3. \A s : Store(k.op) # s => Follows(s)
  BY <1>0, RestStays
<1>4. AtMostOne'
  BY <1>0, RestStays, OneKeeps DEF DialogInv
<1>5. TextRight'
  <2>1. CASE "detail" \in spoiled \/ activeView = "none"
    BY <1>0, <2>1 DEF TextRight
  <2>2. CASE "detail" \notin spoiled /\ activeView # "none" /\ k.op # "loadDetail"
    <3>1. Store(k.op) # "detail"
      BY <1>0, <2>2, LoadOf
    <3> QED
      BY <1>0, <1>2, <1>3, <2>2, <3>1, TextKeeps DEF DialogInv
  <2>3. CASE "detail" \notin spoiled /\ activeView # "none" /\ k.op = "loadDetail"
    <3>1. \A m \in Rest(k) : Store(m.op) # "detail" /\ m.op # "loadDetail"
      BY <1>1, <2>3, Alone DEF DialogInv, Stores
    <3>2. k.chat = active
      BY <1>1, <2>3 DEF DialogInv, TextRight
    <3> QED
      BY <1>0, <2>3, <3>1, <3>2 DEF TextRight
  <2> QED
    BY <2>1, <2>2, <2>3
<1>6. PeopleRight'
  <2>1. CASE "people" \in spoiled \/ activeView = "none"
    BY <1>0, <2>1 DEF PeopleRight
  <2>2. CASE "people" \notin spoiled /\ activeView # "none" /\ k.op # "loadMembers"
    <3>1. Store(k.op) # "people"
      BY <1>0, <2>2, LoadOf
    <3> QED
      BY <1>0, <1>2, <1>3, <2>2, <3>1, PeopleKeeps DEF DialogInv
  <2>3. CASE "people" \notin spoiled /\ activeView # "none" /\ k.op = "loadMembers"
    <3>1. \A m \in Rest(k) : Store(m.op) # "people"
      BY <1>1, <2>3, Alone DEF DialogInv, Stores
    <3>2. k.chat = active
      BY <1>1, <2>3 DEF DialogInv, PeopleRight
    <3> QED
      BY <1>0, <2>3, <3>1, <3>2 DEF PeopleRight
  <2> QED
    BY <2>1, <2>2, <2>3
<1>7. LinksRight'
  <2>1. CASE "invites" \in spoiled \/ activeView # "invites"
    BY <1>0, <2>1 DEF LinksRight
  <2>2. CASE "invites" \notin spoiled /\ activeView = "invites" /\ k.op # "loadInvites"
    <3>1. Store(k.op) # "invites"
      BY <1>0, <2>2, LoadOf
    <3> QED
      BY <1>0, <1>2, <1>3, <2>2, <3>1, LinksKeeps DEF DialogInv
  <2>3. CASE "invites" \notin spoiled /\ activeView = "invites" /\ k.op = "loadInvites"
    <3>1. \A m \in Rest(k) : Store(m.op) # "invites"
      BY <1>1, <2>3, Alone DEF DialogInv, Stores
    <3>2. k.chat = active
      BY <1>1, <2>3 DEF DialogInv, LinksRight
    <3>3. \A m \in Rest(k) : m.op # "revokeInvite"
      BY <3>1, StoreOf
    <3> QED
      BY <1>0, <2>3, <3>1, <3>2, <3>3 DEF LinksRight
  <2> QED
    BY <2>1, <2>2, <2>3
<1>8. SavedInv' /\ Disjoint'
  <2>1. Disjoint'
    BY <1>0 DEF DialogInv, Disjoint
  <2> QED
    BY <1>0, <2>1, RestSaved DEF DialogInv
<1> QED
  BY <1>4, <1>5, <1>6, <1>7, <1>8 DEF DialogInv

\* An answer that changes nothing of a store but the calls about others.
LEMMA OthersKeep ==
  ASSUME DialogInv, InfoTyped, NEW k \in calls, calls' = Rest(k),
         UNCHANGED <<active, activeView, form, detailLoading, spoiled, strayed>>
  PROVE  /\ AtMostOne'
         /\ Store(k.op) # "detail" /\ UNCHANGED detail
              /\ (\A c \in Chat : server'[c].text = server[c].text) => TextRight'
         /\ Store(k.op) # "people" /\ UNCHANGED people
              /\ (\A c \in Chat : server'[c].role = server[c].role) => PeopleRight'
         /\ Store(k.op) # "invites" /\ UNCHANGED invites
              /\ (\A c \in Chat : server'[c].links = server[c].links) => LinksRight' /\ Disjoint'
         /\ (\A c \in Chat : server'[c].text = server[c].text) => SavedInv'
<1>1. \A s : Store(k.op) # s => Follows(s)
  BY RestStays
<1>2. activeView # "none" => active \in Chat
  BY DEF InfoTyped, DialogTyped
<1>3. AtMostOne'
  BY RestStays, OneKeeps DEF DialogInv
<1>4. ASSUME Store(k.op) # "detail", UNCHANGED detail,
             \A c \in Chat : server'[c].text = server[c].text
      PROVE  TextRight'
  <2>1. CASE "detail" \in spoiled \/ activeView = "none"
    BY <2>1 DEF TextRight
  <2>2. CASE "detail" \notin spoiled /\ activeView # "none"
    BY <1>1, <1>2, <1>4, <2>2, TextKeeps DEF DialogInv, ViewStays
  <2> QED
    BY <2>1, <2>2
<1>5. ASSUME Store(k.op) # "people", UNCHANGED people,
             \A c \in Chat : server'[c].role = server[c].role
      PROVE  PeopleRight'
  <2>1. CASE "people" \in spoiled \/ activeView = "none"
    BY <2>1 DEF PeopleRight
  <2>2. CASE "people" \notin spoiled /\ activeView # "none"
    BY <1>1, <1>2, <1>5, <2>2, PeopleKeeps DEF DialogInv, ViewStays
  <2> QED
    BY <2>1, <2>2
<1>6. ASSUME Store(k.op) # "invites", UNCHANGED invites,
             \A c \in Chat : server'[c].links = server[c].links
      PROVE  LinksRight' /\ Disjoint'
  <2>1. Disjoint'
    BY <1>6 DEF DialogInv, Disjoint
  <2>2. CASE "invites" \in spoiled \/ activeView # "invites"
    BY <2>1, <2>2 DEF LinksRight
  <2>3. CASE "invites" \notin spoiled /\ activeView = "invites"
    BY <1>1, <1>2, <1>6, <2>1, <2>3, LinksKeeps DEF DialogInv, ViewStays
  <2> QED
    BY <2>2, <2>3
<1>7. ASSUME \A c \in Chat : server'[c].text = server[c].text PROVE SavedInv'
  BY <1>7, RestSaved DEF DialogInv
<1> QED
  BY <1>3, <1>4, <1>5, <1>6, <1>7

\* A saved form is what the server and the store have from then on.
LEMMA UpdatedRight ==
  ASSUME DialogInv, InfoTyped, NEW k \in calls, Updated(k) PROVE DialogInv'
<1>0. /\ k.op = "updateChannel" /\ k.chat \in Chat /\ k.form \in Text
      /\ detail' = [k.form EXCEPT !.edit = @ + 1]
      /\ server' = [server EXCEPT ![k.chat].text = detail']
      /\ UNCHANGED <<active, people, invites, strayed>>
  BY DEF Updated, InfoTyped, CallsTyped, CallType
<1>1. detail'.of = k.form.of
  BY <1>0 DEF Text
<1>2. \A c \in Chat : /\ server'[c].role = server[c].role /\ server'[c].links = server[c].links
                      /\ server'[c].text = IF c = k.chat THEN detail' ELSE server[c].text
  <2>1. PICK t : t = detail'
    OBVIOUS
  <2>2. server' = [server EXCEPT ![k.chat].text = t]
    BY <1>0, <2>1
  <2> QED
    BY <2>1, <2>2 DEF InfoTyped, DataTyped
<1>3. ~strayed' => \A c \in Chat : server'[c].text.of = c
  BY <1>0, <1>1, <1>2 DEF DialogInv, SavedInv
<1>4. Store(k.op) = "detail" /\ Store("loadDetail") = "detail"
  BY <1>0, StoreOf
<1>5. Rest(k) \subseteq calls
  BY DEF Rest
<1>6. CASE Heard(k)
  <2>1. PICK load : load = NewCall("loadDetail", active)
    OBVIOUS
  <2>2. load.op = "loadDetail" /\ load.chat = active
    BY <2>1, NewCallOf
  <2>3. /\ activeView' = "main" /\ form' = NoText /\ detailLoading' = TRUE
        /\ calls' = Rest(k) \cup {load} /\ spoiled' = Heals({load}, Rest(k))
    BY <1>6, <2>1 DEF Updated
  <2>4. activeView # "none" /\ active \in Chat
    BY <1>6 DEF InfoTyped, DialogTyped
  <2>5. PICK new : new = {load}
    OBVIOUS
  <2>6. PICK rest : rest = Rest(k)
    OBVIOUS
  <2>7. /\ rest \subseteq calls /\ calls' = rest \cup new /\ spoiled' = Heals(new, rest)
        /\ \A m \in new : m.op = "loadDetail" /\ m.chat = active' /\ m = load
        /\ load \in new
    BY <1>0, <1>5, <2>2, <2>3, <2>5, <2>6
  <2>8. AtMostOne'
    BY <2>7, OneSends DEF DialogInv
  <2>9. TextRight'
    BY <2>3, <2>7, TextSends DEF DialogInv
  <2>10. PeopleRight'
    <3>1. Follows("people")
      <4>1. \A m \in calls : Store(m.op) = "people" => m \in rest
        BY <1>4, <2>6 DEF Rest
      <4>2. \A m \in calls' : Store(m.op) = "people" => m \in calls
        BY <1>4, <2>7
      <4> QED
        BY <2>7, <4>1, <4>2 DEF Follows, Same
    <3>2. "people" \in spoiled' \/ "people" \notin spoiled
      BY <1>4, <2>7, HealsFacts DEF Stores
    <3> QED
      BY <1>0, <1>2, <2>4, <3>1, <3>2, PeopleKeeps DEF DialogInv, ViewStays
  <2>11. LinksRight' /\ Disjoint'
    BY <1>2, <2>3 DEF LinksRight, Disjoint, DialogInv
  <2>12. SavedInv'
    BY <1>0, <1>3, <2>3, <2>7 DEF SavedInv, DialogInv
  <2> QED
    BY <2>8, <2>9, <2>10, <2>11, <2>12 DEF DialogInv
<1>7. CASE ~Heard(k)
  <2>1. calls' = Rest(k) /\ UNCHANGED <<active, activeView, form, detailLoading, spoiled, strayed>>
    BY <1>0, <1>7 DEF Updated
  <2>2. AtMostOne' /\ PeopleRight' /\ LinksRight' /\ Disjoint'
    BY <1>0, <1>2, <1>4, <2>1, OthersKeep
  <2>3. TextRight'
    <3> SUFFICES ASSUME "detail" \notin spoiled, activeView # "none"
                 PROVE  /\ \A m \in Rest(k) : Store(m.op) # "detail" /\ m.op # "loadDetail"
                        /\ detail' = server'[active].text
      BY <2>1 DEF TextRight
    <3>1. \A m \in Rest(k) : Store(m.op) # "detail"
      BY <1>4, Alone DEF DialogInv, Stores
    <3>2. k.chat = active
      BY <1>4 DEF DialogInv, TextRight
    <3> QED
      BY <1>0, <1>2, <1>4, <3>1, <3>2
  <2>4. SavedInv'
    BY <1>3, <1>5, <2>1 DEF SavedInv, DialogInv
  <2> QED
    BY <2>2, <2>3, <2>4 DEF DialogInv
<1> QED
  BY <1>6, <1>7

\* A role that was changed is changed in both,
LEMMA RoleChangedRight ==
  ASSUME DialogInv, InfoTyped, NEW k \in calls, RoleChanged(k) PROVE DialogInv'
<1>0. PICK role : /\ server' = [server EXCEPT ![k.chat].role = role]
                  /\ people' = IF people = NoPeople THEN people ELSE [people EXCEPT !.role = role]
  BY DEF RoleChanged
<1>1. /\ k.op \in {"promoteMember", "demoteMember"} /\ k.chat \in Chat /\ calls' = Rest(k)
      /\ UNCHANGED <<active, activeView, form, detailLoading, spoiled, strayed, detail, invites>>
  BY DEF RoleChanged, InfoTyped, CallsTyped, CallType
<1>2. \A c \in Chat : /\ server'[c].text = server[c].text /\ server'[c].links = server[c].links
                      /\ server'[c].role = IF c = k.chat THEN role ELSE server[c].role
  BY <1>0 DEF InfoTyped, DataTyped
<1>3. Store(k.op) = "people" /\ Store("loadMembers") = "people"
  BY <1>1, StoreOf
<1>4. AtMostOne' /\ TextRight' /\ LinksRight' /\ Disjoint' /\ SavedInv'
  BY <1>1, <1>2, <1>3, OthersKeep
<1>5. PeopleRight'
  <2> SUFFICES ASSUME "people" \notin spoiled, activeView # "none"
               PROVE  /\ \A m \in Rest(k) : Store(m.op) # "people"
                      /\ people' = [of |-> active, role |-> server'[active].role]
    BY <1>1 DEF PeopleRight
  <2>1. \A m \in Rest(k) : Store(m.op) # "people" /\ m.op # "loadMembers"
    BY <1>3, Alone DEF DialogInv, Stores
  <2>2. k.chat = active
    BY <1>3 DEF DialogInv, PeopleRight
  <2>3. people = [of |-> active, role |-> server[active].role]
    BY <1>1, <2>1 DEF DialogInv, PeopleRight, Rest
  <2>4. people # NoPeople
    <3>1. people.of = active /\ active # NoChat
      BY <2>3 DEF InfoTyped, DialogTyped
    <3>2. NoPeople.of = NoChat
      BY DEF NoPeople
    <3> QED
      BY <3>1, <3>2
  <2>5. people' = [of |-> active, role |-> role]
    BY <1>0, <2>3, <2>4
  <2> QED
    BY <1>1, <1>2, <2>1, <2>2, <2>5
<1> QED
  BY <1>4, <1>5 DEF DialogInv

\* so is a link that was made,
LEMMA InvitedRight ==
  ASSUME DialogInv, InfoTyped, NEW k \in calls, Invited(k) PROVE DialogInv'
<1>0. PICK l \in Fresh : /\ server' = [server EXCEPT ![k.chat].links = @ \cup {l}]
                         /\ invites' = invites \cup {l}
  BY DEF Invited
<1>1. /\ k.op = "createInvite" /\ k.chat \in Chat /\ calls' = Rest(k)
      /\ UNCHANGED <<active, activeView, form, detailLoading, spoiled, strayed, detail, people>>
  BY DEF Invited, InfoTyped, CallsTyped, CallType
<1>2. \A c \in Chat :
        /\ server'[c].text = server[c].text /\ server'[c].role = server[c].role
        /\ server'[c].links = IF c = k.chat THEN server[c].links \cup {l} ELSE server[c].links
        /\ l \notin server[c].links
  BY <1>0, ZenonT(30) DEF InfoTyped, DataTyped, Fresh
<1>3. Store(k.op) = "invites"
  BY <1>1, StoreOf
<1>4. AtMostOne' /\ TextRight' /\ PeopleRight' /\ SavedInv'
  BY <1>1, <1>2, <1>3, OthersKeep
<1>5. Disjoint'
  BY <1>2, ZenonT(30) DEF DialogInv, Disjoint
<1>6. LinksRight'
  <2> SUFFICES ASSUME "invites" \notin spoiled, activeView = "invites"
               PROVE  /\ \A m \in Rest(k) : Store(m.op) # "invites" /\ m.op # "revokeInvite"
                      /\ invites' = server'[active].links
    BY <1>1 DEF LinksRight
  <2>1. \A m \in Rest(k) : Store(m.op) # "invites" /\ m.op \notin {"loadInvites", "revokeInvite"}
    <3>1. \A m \in Rest(k) : Store(m.op) # "invites"
      BY <1>3, Alone DEF DialogInv, Stores
    <3> QED
      BY <3>1, StoreOf
  <2>2. k.chat = active
    BY <1>3 DEF DialogInv, LinksRight
  <2>3. invites = server[active].links
    BY <1>1, <2>1 DEF DialogInv, LinksRight, Rest
  <2> QED
    BY <1>0, <1>1, <1>2, <2>1, <2>2, <2>3
<1> QED
  BY <1>4, <1>5, <1>6 DEF DialogInv

\* and one that was revoked.
LEMMA RevokedRight ==
  ASSUME DialogInv, InfoTyped, NEW k \in calls, Revoked(k) PROVE DialogInv'
<1>0. PICK c \in Chat : /\ k.revoking \subseteq server[c].links
                        /\ server' = [server EXCEPT ![c].links = @ \ k.revoking]
  BY DEF Revoked, InfoTyped, DataTyped
<1>1. /\ k.op = "revokeInvite" /\ calls' = Rest(k)
      /\ UNCHANGED <<active, activeView, form, detailLoading, spoiled, strayed>>
      /\ UNCHANGED <<detail, people, invites>>
  BY DEF Revoked
<1>2. \A d \in Chat :
        /\ server'[d].text = server[d].text /\ server'[d].role = server[d].role
        /\ server'[d].links = IF d = c THEN server[d].links \ k.revoking ELSE server[d].links
  BY <1>0 DEF InfoTyped, DataTyped
<1>3. Store(k.op) = "invites"
  BY <1>1, StoreOf
<1>4. AtMostOne' /\ TextRight' /\ PeopleRight' /\ SavedInv'
  BY <1>1, <1>2, <1>3, OthersKeep
<1>5. Disjoint'
  BY <1>2 DEF DialogInv, Disjoint
<1>6. LinksRight'
  <2> SUFFICES ASSUME "invites" \notin spoiled, activeView = "invites"
               PROVE  /\ \A m \in Rest(k) : Store(m.op) # "invites" /\ m.op # "revokeInvite"
                      /\ invites = server'[active].links
    BY <1>1 DEF LinksRight
  <2>1. \A m \in Rest(k) : Store(m.op) # "invites" /\ m.op \notin {"loadInvites", "revokeInvite"}
    <3>1. \A m \in Rest(k) : Store(m.op) # "invites"
      BY <1>3, Alone DEF DialogInv, Stores
    <3> QED
      BY <3>1, StoreOf
  <2>2. /\ k.before = server[active].links /\ invites = k.before \ k.revoking
        /\ k.revoking \subseteq k.before /\ k.revoking # {}
    BY <1>1 DEF DialogInv, LinksRight
  <2>3. active \in Chat
    BY DEF InfoTyped, DialogTyped
  <2>4. c = active
    BY <1>0, <2>2, <2>3 DEF DialogInv, Disjoint
  <2> QED
    BY <1>2, <2>1, <2>2, <2>3, <2>4
<1> QED
  BY <1>4, <1>5, <1>6 DEF DialogInv

\* `DialogInv` survives every step of the dialog.
LEMMA DialogStep ==
  ASSUME DialogInv, InfoTyped, InfoStep PROVE DialogInv'
<1>1. CASE InfoNext(Views)
  <2>1. CASE OpenChannelInfo
    <3>1. active \in Chat /\ Appears(active) /\ UNCHANGED active
          /\ UNCHANGED <<server, detail, people, invites, strayed>>
      BY <2>1 DEF OpenChannelInfo, InfoTyped, DialogTyped
    <3> QED
      BY <3>1, AppearsRight
  <2>2. CASE \/ save \/ handlePromote \/ handleDemote \/ handleCreate \/ handleLeave
             \/ handleDelete \/ \E l \in Link : handleRevoke(l)
    BY <2>2, ButtonsRight
  <2>3. ASSUME NEW c \in Chat, SelectChat(c) PROVE DialogInv'
    BY <2>3, ActivateRight DEF SelectChat
  <2>4. CASE \E v \in Views : ShowView(v)
    BY <2>4, ShowRight
  <2>5. CASE CloseInfo \/ Back \/ handleBack \/ \E c \in Chat : RemoveChatLocal(c)
    BY <2>5, LeavesRight
  <2>6. ASSUME NEW k \in calls, LetGo(k) \/ PartRefused(k) \/ Left(k) \/ ChatDeleted(k)
        PROVE  DialogInv'
    BY <2>6, LeavesRight
  <2>7. ASSUME NEW k \in calls,
               \/ CallFailed(k) \/ Loaded(k) \/ Updated(k) \/ RoleChanged(k) \/ Invited(k)
               \/ Revoked(k)
        PROVE  DialogInv'
    BY <2>7, FailedRight, LoadedRight, UpdatedRight, RoleChangedRight, InvitedRight, RevokedRight
  <2> QED
    BY <1>1, <2>1, <2>2, <2>3, <2>4, <2>5, <2>6, <2>7 DEF InfoNext
<1>2. CASE Escape
  BY <1>2, EscapeRight
<1>3. CASE /\ \E c \in Chat : c # active /\ Activate(c)
           /\ UNCHANGED <<server, detail, people, invites>>
  BY <1>3, ActivateRight
<1>4. CASE UNCHANGED <<server, detail, people, invites, dialogOnly>>
  <2>1. /\ calls' = calls
        /\ UNCHANGED <<server, active, activeView, detail, people, invites, detailLoading, form,
                       spoiled, strayed>>
    BY <1>4 DEF dialogOnly
  <2> QED
    BY <2>1, GoesRight DEF ViewStays
<1> QED
  BY <1>1, <1>2, <1>3, <1>4 DEF InfoStep

-------------------------------------------------------------------------------
\* The layers over the chat: their types.

LayersTyped ==
  /\ shown \subseteq Layer /\ panel \subseteq {"emoji", "search"}
  /\ blind \in Chat \cup {NoChat} /\ outrun \subseteq Chat

\* The layers that ask something are layers.
LEMMA AskingLayers == {"newChat", "invite", "userProfile"} \subseteq Layer
<1>1. /\ Len(Layers) = 8 /\ Layers[1] = "invite" /\ Layers[3] = "userProfile"
      /\ Layers[4] = "newChat"
  BY DEF Layers
<1>2. {1, 3, 4} \subseteq 1..Len(Layers)
  BY <1>1
<1> HIDE DEF Layers
<1> QED
  BY <1>1, <1>2 DEF Layer

\* The types of the layers survive every step of the client.
LEMMA LayersTypeStep ==
  ASSUME LayersTyped, OpenInv, [Next]_vars PROVE LayersTyped'
<1>1. ASSUME NEW c \in Chat, SetActive(c) PROVE shown' \subseteq shown /\ panel' \subseteq panel
  BY <1>1 DEF SetActive, Watches
<1>2. ASSUME NEW layers \in SUBSET Layer, LayersNext(layers) PROVE LayersTyped'
  <2>1. ASSUME NEW l \in layers, Open(l) \/ Close(l) PROVE LayersTyped'
    BY <2>1 DEF Open, Close, pollVars, LayersTyped
  <2>2. CASE Escape
    BY <2>2 DEF Escape, pollVars, LayersTyped
  <2>3. ASSUME NEW c \in Chat, handleSelectChat(c) PROVE LayersTyped'
    BY <1>1, <2>3 DEF handleSelectChat, pollVars, LayersTyped
  <2> QED
    BY <1>2, <2>1, <2>2, <2>3 DEF LayersNext
<1>3. CASE PanelNext
  BY <1>3 DEF PanelNext, OpenPanel, pollVars, LayersTyped
<1>4. CASE OpeningsNext
  <2>1. ASSUME NEW c \in Chat, FollowChatLink(c) PROVE LayersTyped'
    BY <1>1, <2>1 DEF FollowChatLink, pollVars, LayersTyped
  <2>2. ASSUME NEW c \in Chat,
               \/ openDM(c) \/ openChannelByName(c)
               \/ \E op \in {"newChat", "invite"} : AsksFor(op, c)
        PROVE  LayersTyped'
    BY <2>2 DEF openDM, openChannelByName, AsksFor, pollVars, LayersTyped
  <2>3. ASSUME NEW f \in flows, ChatMade(f) \/ CallFails(f) \/ ListRead(f) PROVE LayersTyped'
    BY <2>3 DEF ChatMade, CallFails, ListRead, pollVars, LayersTyped
  <2>4. ASSUME NEW f \in flows, NameFound(f) \/ ListLoaded(f) PROVE LayersTyped'
    <3>1. f.chat \in Chat
      BY DEF OpenInv, FlowOK, FlowType
    <3> QED
      BY <1>1, <2>4, <3>1 DEF NameFound, ListLoaded, pollVars, LayersTyped
  <2>5. ASSUME NEW p \in Poll, PollAsks(p) \/ PollRead(p) \/ PollArrives(p) \/ PollFails(p)
        PROVE  LayersTyped'
    <3>1. polls[p].since \subseteq Chat
      BY DEF OpenInv, PollsOK, PollType
    <3> QED
      BY <2>5, <3>1 DEF PollAsks, PollRead, PollArrives, PollFails, LayersTyped
  <2> QED
    BY <1>4, <2>1, <2>2, <2>3, <2>4, <2>5 DEF OpeningsNext
<1>5. CASE UNCHANGED dialogVars
  BY <1>5 DEF dialogVars, pollVars, LayersTyped
<1>6. CASE DialogNext
  BY <1>2, <1>3, <1>4, <1>5, <1>6, AskingLayers DEF DialogNext, LayersNext
<1> QED
  BY <1>5, <1>6 DEF Next, ListNext, vars

-------------------------------------------------------------------------------
\* Everything of the list together is inductive.

BaseInv ==
  /\ SocketTyped /\ FlagsTyped /\ ListTyped /\ LinkInv
  /\ OnlineTyped /\ OnlineInv /\ TypingTyped /\ TypingInv
  /\ MineInv /\ EntriesInv

\* Invariants and types at the start,
LEMMA BaseStart == Init => BaseInv
<1> SUFFICES ASSUME Init PROVE BaseInv
  OBVIOUS
<1> USE DEF Init, WsInit, ListInit, PeersInit
<1>1. SocketTyped /\ FlagsTyped
  BY DEF SocketTyped, FlagsTyped, Delays
<1>2. <<>> \in ChatLists /\ DOMAIN <<>> = {}
  <2>1. <<>> \in [{} -> Entry]
    OBVIOUS
  <2> QED
    BY <2>1 DEF ChatLists
<1>3. LoadsTyped /\ StoreTyped
  BY <1>2, IdleType DEF LoadsTyped, StoreTyped
<1>4. WireTyped /\ ServerTyped
  <2>1. WireTyped
    BY ListAssumption DEF WireTyped
  <2>2. member \in [Chat -> {"none", "adding", "in", "out"}]
    OBVIOUS
  <2>3. news \in [Chat -> 0..MaxNews]
    BY ListAssumption
  <2> QED
    BY <2>1, <2>2, <2>3 DEF ServerTyped
<1>5. LinkInv
  <2>1. Idle.state = "idle" /\ Idle.after.op = "none" /\ \A l \in Load : loads[l] = Idle
    BY DEF Idle, Nothing
  <2> QED
    BY <1>2, <2>1 DEF LinkInv, Unseeded
<1>6. OnlineTyped
  BY DEF OnlineTyped
<1>7. OnlineInv
  BY PeersAssumption DEF OnlineInv, OnlineOf, Of, Unseeded, Idle
<1>8. TypingTyped /\ TypingInv
  BY DEF TypingTyped, TypingInv, Running
<1> QED
  BY <1>1, <1>3, <1>4, <1>5, <1>6, <1>7, <1>8, MineStart, EntriesStart DEF BaseInv, ListTyped

\* over every step,
LEMMA BaseStep == BaseInv /\ [Next]_vars => BaseInv'
<1> SUFFICES ASSUME BaseInv, [Next]_vars PROVE BaseInv'
  OBVIOUS
<1>1. SocketTyped' /\ FlagsTyped'
  BY StepOfSocket, SocketTypeStep, FlagsTypeStep DEF BaseInv
<1>2. ListTyped' /\ LinkInv'
  BY ListTypeStep, LinkStep DEF BaseInv, ListTyped
<1>3. OnlineTyped' /\ OnlineInv'
  BY OnlineStep DEF BaseInv, ListTyped
<1>4. TypingTyped' /\ TypingInv'
  BY TypingStep DEF BaseInv
<1>5. MineInv' /\ EntriesInv'
  BY MineStep, EntriesNext DEF BaseInv
<1> QED
  BY <1>1, <1>2, <1>3, <1>4, <1>5 DEF BaseInv

\* and so in every state.
LEMMA BaseKept == Spec => []BaseInv
BY BaseStart, BaseStep, PTL DEF Spec

\* Peers.PeersRight: of the users who share their presence, one is shown online if and
\* only if he is, unless a change of his was lost, crossed an answer of loadChats or
\* overtook another; and no timer of an earlier burst of typing is left.
THEOREM PeersCorrect == Spec => []PeersRight
<1>1. BaseInv => PeersRight
  <2> SUFFICES ASSUME BaseInv PROVE PeersRight
    OBVIOUS
  <2>1. authed => ~Unseeded
    BY DEF BaseInv, LinkInv
  <2>2. presenceWire = {} => \A u : Of(u) = {}
    BY DEF Of
  <2>3. authed /\ presenceWire = {} =>
          \A u \in Sharing \ unsure : u \in onlineUsers <=> u \in onlineAtServer
    BY <2>1, <2>2 DEF BaseInv, OnlineInv, OnlineOf
  <2> QED
    BY <2>3 DEF BaseInv, TypingInv, PeersRight
<1> QED
  BY <1>1, BaseKept, PTL

\* ChatList.ListIsMine: once everything has settled the list shows this user's chats and
\* no other, unless a change went unheard or crossed an answer.
THEOREM ListCorrect == Spec => []ListIsMine
<1>1. BaseInv => ListIsMine
  <2> SUFFICES ASSUME BaseInv, Settled
               PROVE  \A c \in Chat \ stale : c \in DOMAIN chats <=> c \in Members
    BY DEF ListIsMine
  <2>1. view = "on"
    BY DEF Settled, BaseInv, LinkInv, Unseeded, SocketTyped
  <2>2. \A c : ~Announced(c) /\ ~Removed(c)
    <3>1. wire = <<>>
      BY DEF Settled
    <3> QED
      BY <3>1 DEF Announced, Removed, OnWire
  <2>3. \A c : ~Brought(c)
    <3>1. Idle.state = "idle"
      BY DEF Idle
    <3>2. \A l \in Load : loads[l].state = "idle"
      BY <3>1, Zenon DEF Settled
    <3> QED
      BY <3>2, Zenon DEF Brought
  <2>4. leaving = {} /\ ShownInv /\ Members \subseteq Chat
    BY DEF Settled, BaseInv, MineInv, Members
  <2> QED
    BY <2>1, <2>2, <2>3, <2>4 DEF ShownInv
<1> QED
  BY <1>1, BaseKept, PTL

\* ChatList.EntriesRight: once everything has settled each badge counts what the server has
\* unread and each flag is the server's, unless calls and events of the chat crossed, an
\* unread message was deleted or read elsewhere, or the answer of a toggle was lost.
THEOREM EntriesCorrect == Spec => []EntriesRight
<1>1. BaseInv => EntriesRight
  <2> SUFFICES ASSUME BaseInv, Settled, NEW c \in DOMAIN chats \ stale
               PROVE  chats[c].unread = news[c] /\ (chats[c].pinned <=> c \in pins)
    BY DEF EntriesRight, UnreadRight, FlagRight
  <2>1. c \in Chat /\ c # NoChat /\ chats[c].unread \in Nat
    BY ListsTyped, ChatsAssumption, ZenonT(30) DEF BaseInv, ListTyped, StoreTyped, Entry
  <2>2. /\ wire = <<>> /\ marks[c] = "none" /\ pendingMarkReadChatId # c
        /\ \A t \in Toggle : toggles[t] = NoToggle
    BY <2>1 DEF Settled
  <2>3. chats[c].unread = news[c]
    <3>1. Waiting(c) = 0
      BY <2>2, FS_EmptySet DEF Waiting, Coming
    <3>2. CASE part = "unread"
      BY <2>1, <2>2, <3>1, <3>2 DEF BaseInv, EntriesInv, BadgeInv, BadgeOf, BadgeRight
    <3>3. CASE part # "unread"
      BY <2>1, <3>3 DEF BaseInv, EntriesInv, RestInv, NewsRest, Unread0
    <3> QED
      BY <3>2, <3>3
  <2>4. chats[c].pinned <=> c \in pins
    <3>1. ~NoToggle.done
      BY DEF NoToggle
    <3>2. CASE part = "flags"
      BY <2>2, <3>1, <3>2 DEF BaseInv, EntriesInv, FlagInv, FlagOf, FlagRightOf
    <3>3. CASE part # "flags"
      BY <3>3 DEF BaseInv, EntriesInv, RestInv, PinsRest, Unpinned
    <3> QED
      BY <3>2, <3>3
  <2> QED
    BY <2>3, <2>4
<1> QED
  BY <1>1, BaseKept, PTL

\* The dialog with the layers over it is inductive: what it shows and saves rests on the
\* types and on the openings, which say that the list has no chat but the server's.
InfoInv == OpenInv /\ InfoTyped /\ DialogInv /\ LayersTyped

\* Every chat starts with a text of its own.
LEMMA FirstText == \A c \in Chat : [of |-> c, edit |-> 0] \in Text
<1>1. 0 \in 0..MaxEdits
  BY InfoAssumption
<1> QED
  BY <1>1 DEF Text

\* The invariants of the dialog at the start,
LEMMA InfoStart == Init => InfoInv
<1> SUFFICES ASSUME Init PROVE InfoInv
  OBVIOUS
<1> USE DEF Init, InfoInit, DialogsInit
<1>1. OpenInv
  BY DEF OpenInv, OpenedIsListed, PollsOK, PollOK, PollType, NoPoll
<1>2. /\ server \in [Chat -> [text : Text, role : {"member", "admin"}, links : SUBSET Link]]
      /\ \A c \in Chat : server[c].text.of = c /\ server[c].links = {}
  BY FirstText
<1>3. InfoTyped
  BY <1>2 DEF InfoTyped, DataTyped, DialogTyped, DialogFlags, CallsTyped
<1>4. DialogInv
  BY <1>2 DEF DialogInv, AtMostOne, TextRight, PeopleRight, LinksRight, Disjoint, SavedInv
<1> QED
  BY <1>1, <1>3, <1>4 DEF InfoInv, LayersTyped

\* over every step,
LEMMA InfoInvStep == InfoInv /\ [Next]_vars => InfoInv'
<1> SUFFICES ASSUME InfoInv, [Next]_vars PROVE InfoInv'
  OBVIOUS
<1>1. OpenInv' /\ LayersTyped'
  BY OpenStep, LayersTypeStep DEF InfoInv
<1>2. InfoStep /\ mine' \subseteq Chat /\ listed' \subseteq Chat
  BY StepOfInfo DEF InfoInv, InfoTyped, DataTyped
<1>3. InfoTyped' /\ DialogInv'
  BY <1>2, InfoTypeStep, DialogStep DEF InfoInv
<1> QED
  BY <1>1, <1>3 DEF InfoInv

\* and so in every state.
LEMMA InfoKept == Spec => []InfoInv
BY InfoStart, InfoInvStep, PTL DEF Spec

\* ChatInfo.DialogRight: a store without a failed or overlapping call shows the active
\* chat as the server has it, whichever answers of earlier chats come late, and no chat is
\* saved with the name of another.
THEOREM DialogCorrect == Spec => []DialogRight
<1>1. InfoInv => DialogRight
  <2> SUFFICES ASSUME InfoInv PROVE DialogRight
    OBVIOUS
  <2>1. /\ Steady("detail") => \A k \in calls : k.op # "loadDetail"
        /\ Steady("people") => \A k \in calls : k.op # "loadMembers"
        /\ Steady("invites") => \A k \in calls : k.op \notin {"loadInvites", "revokeInvite"}
        /\ \A s : Steady(s) => s \notin spoiled
    BY StoreOf DEF Steady
  <2>2. InfoRight
    BY <2>1 DEF InfoRight, InfoInv, DialogInv, TextRight, PeopleRight, LinksRight
  <2>3. SavedIsOwn
    BY DEF SavedIsOwn, InfoInv, DialogInv, SavedInv
  <2> QED
    BY <2>2, <2>3 DEF DialogRight
<1> QED
  BY <1>1, InfoKept, PTL

\* Client.TypeOK: every part of the view is of the shape the code gives it.
THEOREM ClientTypeCorrect == Spec => []TypeOK
<1>1. BaseInv => WsTypeOK
  BY DEF BaseInv, SocketTyped, FlagsTyped, WsTypeOK
<1>2. BaseInv => ListTypeOK
  <2> SUFFICES ASSUME BaseInv PROVE ListTypeOK
    OBVIOUS
  <2> USE DEF BaseInv, ListTyped
  <2>1. DOMAIN chats \subseteq Chat /\ \A c \in DOMAIN chats : chats[c] \in Entry
    BY DEF StoreTyped, ChatLists
  <2>2. \A l \in Load : loads[l].state \in {"idle", "asked", "answered"}
    BY DEF LoadsTyped, LoadType
  <2>3. \A t \in Toggle : toggles[t].chat \in Chat \cup {NoChat}
    BY DEF StoreTyped, ToggleType
  <2> QED
    BY <2>1, <2>2, <2>3 DEF ListTypeOK, WireTyped, ServerTyped, StoreTyped
<1>3. BaseInv => PeersTypeOK
  BY DEF BaseInv, OnlineTyped, PresenceEvent, TypingTyped, PeersTypeOK
<1>4. InfoInv => InfoTypeOK
  <2> SUFFICES ASSUME InfoInv PROVE InfoTypeOK
    OBVIOUS
  <2>1. calls \subseteq CallType
    BY DEF InfoInv, InfoTyped, CallsTyped
  <2>2. (activeView = "none") = (active = NoChat \/ ~channelInfoModalOpen)
    <3>1. activeView = "none" <=> active = NoChat \/ ~channelInfoModalOpen
      BY DEF InfoInv, InfoTyped, DialogTyped
    <3> QED
      BY <3>1, Zenon
  <2> QED
    BY <2>1, <2>2 DEF InfoTypeOK, CallType, InfoInv, InfoTyped, DataTyped, DialogTyped, DialogFlags
<1>5. InfoInv => DialogsTypeOK
  BY DEF InfoInv, OpenInv, FlowOK, FlowType, PollsOK, PollType, LayersTyped, DialogsTypeOK
<1>6. BaseInv /\ InfoInv => TypeOK
  BY <1>1, <1>2, <1>3, <1>4, <1>5 DEF TypeOK
<1> QED
  BY <1>6, BaseKept, InfoKept, PTL
===============================================================================
