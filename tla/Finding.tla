-------------------------------- MODULE Finding --------------------------------
(***************************************************************************)
(* Search in a chat, and scrolling to a message: from a result, from a     *)
(* reply quote, from the pin bar, from a deep link.  A message that is not *)
(* rendered is fetched with its neighbours, which replace the chat's list. *)
(***************************************************************************)
EXTENDS ActiveChat

CONSTANTS
  Query,
  MaxJumps     \* bound: fetches of scrollToMessage in flight

VARIABLES
  searchMode,  \* the search bar is shown
  query,       \* what is typed, "" for nothing
  timer,       \* the query the debounce timer will ask, "" when it is off
  lookups,     \* searches in flight for the mounted search bar, those alike as one
  searching,   \* loading of the search bar
  results,     \* the messages listed
  more,        \* hasMore
  held,        \* messagesByChat: the messages held of each chat
  jumps,       \* scrollToMessage calls awaiting listMessages
  pending,     \* pendingScrollMessageId and whether its 300 ms run
  pinned,      \* pinnedByChat
  dismissed    \* pinnedDismissed

searchVars == <<searchMode, query, timer, lookups, searching, results, more>>
jumpVars == <<held, jumps, pending>>
pinVars == <<pinned, dismissed>>
findVars == <<searchVars, jumpVars, pinVars>>

In(c) == {m \in Message : Home[m] = c}

FindInit ==
  /\ searchMode = FALSE /\ query = "" /\ timer = "" /\ lookups = {}
  /\ searching = FALSE /\ results = {} /\ more = TRUE
  /\ held \in [Chat -> SUBSET Message] /\ \A c \in Chat : held[c] \subseteq In(c)
  /\ jumps = {} /\ pending = NoMessage
  /\ pinned = [c \in Chat |-> NoMessage] /\ dismissed = {}

FindTypeOK ==
  /\ searchMode \in BOOLEAN /\ {query, timer} \subseteq Query \cup {""}
  /\ lookups \subseteq [chat : Chat, q : Query \cup {""}, more : BOOLEAN]
  /\ searching \in BOOLEAN /\ results \subseteq Message /\ more \in BOOLEAN
  /\ held \in [Chat -> SUBSET Message] /\ jumps \subseteq [chat : Chat, to : Message]
  /\ pending \in Message \cup {NoMessage}
  /\ pinned \in [Chat -> Message \cup {NoMessage}] /\ dismissed \subseteq Chat

OpenSearch ==
  /\ active # NoChat /\ ~searchMode /\ searchMode' = TRUE
  /\ Quiet /\ UNCHANGED <<screenVars, query, timer, lookups, searching, results, more, jumpVars,
                          pinVars>>

\* The search bar is unmounted: its refs are gone, late answers reach nobody.
\* (Its timer may still ask; that answer reaches nobody either.)
SearchGone ==
  /\ searchMode' = FALSE /\ query' = "" /\ timer' = "" /\ lookups' = {}
  /\ searching' = FALSE /\ results' = {} /\ more' = TRUE

CloseSearch ==
  /\ active # NoChat /\ searchMode /\ SearchGone
  /\ Quiet /\ UNCHANGED <<screenVars, jumpVars, pinVars>>

\* watch(query): an empty query clears the list and stops the timer, not the
\* searches in flight.
TypeQuery(q) ==
  /\ searchMode /\ q # query /\ query' = q /\ timer' = q
  /\ IF q = "" THEN results' = {} /\ more' = TRUE ELSE UNCHANGED <<results, more>>
  /\ Quiet /\ UNCHANGED <<screenVars, searchMode, lookups, searching, jumpVars, pinVars>>

DoSearch ==
  /\ searchMode /\ timer # ""
  /\ lookups' = lookups \cup {[chat |-> active, q |-> timer, more |-> FALSE]}
  /\ timer' = "" /\ searching' = TRUE /\ more' = TRUE
  /\ Quiet /\ UNCHANGED <<screenVars, searchMode, query, results, jumpVars, pinVars>>

\* Refused while the flag says that a search runs; the first answer of several takes
\* it back.  The query is read now, not when the list was made.
LoadMore ==
  /\ searchMode /\ ~searching /\ more /\ results # {}
  /\ lookups' = lookups \cup {[chat |-> active, q |-> query, more |-> TRUE]}
  /\ searching' = TRUE
  /\ Quiet /\ UNCHANGED <<screenVars, searchMode, query, timer, results, more, jumpVars, pinVars>>

SearchAnswered(k) ==
  /\ k \in lookups /\ lookups' = lookups \ {k} /\ searching' = FALSE
  /\ \E page \in SUBSET In(k.chat), last \in BOOLEAN :
       /\ results' = IF k.more THEN results \cup page ELSE page
       /\ more' = (more /\ ~last)
  /\ Quiet /\ UNCHANGED <<screenVars, searchMode, query, timer, jumpVars, pinVars>>

SearchFails(k) ==
  /\ k \in lookups /\ lookups' = lookups \ {k} /\ searching' = FALSE
  /\ results' = IF k.more THEN results ELSE {}
  /\ Quiet /\ UNCHANGED <<screenVars, searchMode, query, timer, more, jumpVars, pinVars>>

-----------------------------------------------------------------------------
\* Mutant: no look whether a chat is on screen.
JumpsAnywhere(m) ==
  /\ Cardinality(jumps) < MaxJumps
  /\ jumps' = IF active # NoChat /\ m \in held[active] THEN jumps
              ELSE jumps \cup {[chat |-> active, to |-> m]}

\* scrollToMessage: a rendered message is scrolled to; another is fetched with
\* its neighbours from the chat on screen, which need not be the message's own.
Jumps(m) ==
  /\ Cardinality(jumps) < MaxJumps
  /\ jumps' = IF active = NoChat \/ m \in held[active] THEN jumps
              ELSE jumps \cup {[chat |-> active, to |-> m]}

OnSearchJump(m) ==
  /\ searchMode /\ m \in results /\ SearchGone /\ Jumps(m)
  /\ Quiet /\ UNCHANGED <<screenVars, held, pending, pinVars>>

\* A reply quote of a message on screen; the quoted message may be of any chat,
\* since the server takes the reply's target as it is given.
OnReplyClick(m) ==
  /\ active # NoChat /\ held[active] # {} /\ Jumps(m)
  /\ Quiet /\ UNCHANGED <<screenVars, held, pending, searchVars, pinVars>>

PinnedMessage ==
  IF active = NoChat \/ active \in dismissed THEN NoMessage ELSE pinned[active]

OnPinClick ==
  /\ PinnedMessage # NoMessage /\ Jumps(PinnedMessage)
  /\ Quiet /\ UNCHANGED <<screenVars, held, pending, searchVars, pinVars>>

DismissPin ==
  /\ PinnedMessage # NoMessage /\ dismissed' = dismissed \cup {active}
  /\ Quiet /\ UNCHANGED <<screenVars, searchVars, jumpVars, pinned>>

\* Mutant: the answer replaces the list of the chat on screen by now.
JumpAnsweredActive(j) ==
  /\ j \in jumps /\ jumps' = jumps \ {j} /\ active # NoChat
  /\ \E page \in SUBSET In(j.chat) :
       held' = IF j.to \in page THEN [held EXCEPT ![active] = page] ELSE held
  /\ Quiet /\ UNCHANGED <<screenVars, pending, searchVars, pinVars>>

\* The answer: if the message is in it, it replaces the list of the chat asked.
JumpAnswered(j) ==
  /\ j \in jumps /\ jumps' = jumps \ {j}
  /\ \E page \in SUBSET In(j.chat) :
       held' = IF j.to \in page THEN [held EXCEPT ![j.chat] = page] ELSE held
  /\ Quiet /\ UNCHANGED <<screenVars, pending, searchVars, pinVars>>

\* A deep link to a message: 300 ms later the chat on screen is scrolled.
DeepLink(m) ==
  /\ pending = NoMessage /\ pending' = m
  /\ Quiet /\ UNCHANGED <<screenVars, held, jumps, searchVars, pinVars>>

PendingScroll ==
  /\ pending # NoMessage /\ pending' = NoMessage /\ Jumps(pending)
  /\ Quiet /\ UNCHANGED <<screenVars, held, searchVars, pinVars>>

-----------------------------------------------------------------------------
\* Pin and unpin of the menu name the chat the menu captured; the store sets
\* the pin when the answer is there (taken here with the request).
HandlePin(m) ==
  /\ MenuItem(m) /\ pinned[menu.chat] # m
  /\ Asks("pin", menu.chat, {Home[m]}, FALSE) /\ Filled("menu")
  /\ pinned' = [pinned EXCEPT ![menu.chat] = m]
  /\ dismissed' = dismissed \ {menu.chat}
  /\ UNCHANGED <<active, searchVars, jumpVars>>

HandleUnpin(m) ==
  /\ MenuItem(m) /\ pinned[menu.chat] = m
  /\ Asks("unpin", menu.chat, {Home[m]}, FALSE) /\ Filled("menu")
  /\ pinned' = [pinned EXCEPT ![menu.chat] = NoMessage]
  /\ UNCHANGED <<active, searchVars, jumpVars, dismissed>>

\* message_pinned and message_unpinned events of any chat.
PinEvent(c) ==
  /\ \E m \in In(c) \cup {NoMessage} :
       /\ pinned' = [pinned EXCEPT ![c] = m]
       /\ dismissed' = IF m = NoMessage THEN dismissed ELSE dismissed \ {c}
  /\ Quiet /\ UNCHANGED <<screenVars, searchVars, jumpVars>>

SearchNext ==
  \/ OpenSearch \/ CloseSearch \/ DoSearch \/ LoadMore
  \/ \E q \in Query \cup {""} : TypeQuery(q)
  \/ \E k \in lookups : SearchAnswered(k) \/ SearchFails(k)
  \/ \E m \in Message : OnSearchJump(m)

PinNext ==
  \/ \E m \in Message : \/ HandlePin(m) \/ HandleUnpin(m)
                        \/ ShowMenu(m) /\ UNCHANGED findVars
  \/ (ShowAreaMenu \/ ClickOutside) /\ UNCHANGED findVars
  \/ OnPinClick \/ DismissPin
  \/ \E c \in Chat : PinEvent(c)

JumpNext ==
  \/ \E m \in Message : OnReplyClick(m) \/ DeepLink(m)
  \/ PendingScroll

FindSwitch(c) ==
  /\ SwitchChat(c, {}) /\ SearchGone
  /\ UNCHANGED <<jumpVars, pinVars>>

\* Answers of jumps and the chat on screen concern all three.
FindNext ==
  \/ SearchNext \/ PinNext \/ JumpNext
  \/ \E j \in jumps : JumpAnswered(j)
  \/ \E c \in Chat \cup {NoChat} : FindSwitch(c)

-----------------------------------------------------------------------------
\* No chat is shown what belongs to another: its list only ever holds messages of
\* that chat, although the fetch of a jump is answered after the user went
\* elsewhere and the jump may name a message of another chat; and the search
\* results are of the chat on screen, although a search begun in the chat before
\* may be answered in this one.
NothingOfOtherChats ==
  /\ \A c \in Chat : held[c] \subseteq In(c)
  /\ \A m \in results : Home[m] = active
===============================================================================
