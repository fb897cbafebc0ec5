------------------------------ MODULE ActiveChat ------------------------------
(***************************************************************************)
(* What the parts of the chat panel share: the chat on screen, the menu    *)
(* of a message, and the last request the panel made.  The parts (Compose, *)
(* Selecting, Media, Finding) EXTEND this module; ChatScreen composes      *)
(* them.  A target the user picked (a reply, a selection, a file) sits in  *)
(* a slot; late is the history of the slots whose target was picked before *)
(* the chat on screen last changed.                                        *)
(***************************************************************************)
EXTENDS Naturals, FiniteSets, Functions

CONSTANTS
  Chat, NoChat, Message, NoMessage,
  Home,     \* the chat a message belongs to
  Mine,     \* the messages this user sent
  Kind,     \* "direct", "group" or "channel"
  Role      \* this user's role in each chat: "member" or "admin"

ASSUME ScreenAssumption ==
  /\ NoChat \notin Chat /\ NoMessage \notin Message
  /\ Home \in [Message -> Chat] /\ Mine \subseteq Message
  /\ Kind \in [Chat -> {"direct", "group", "channel"}]
  /\ Role \in [Chat -> {"member", "admin"}]

VARIABLES
  active,   \* chatsStore.activeChatId
  menu,     \* what the open context menu captured, or no menu
  late,     \* the filled slots whose target was picked before active changed
  request   \* the request the last step made: its chat, its subject's chats

screenVars == <<active, menu, late>>

NoMenu == [chat |-> NoChat, message |-> NoMessage]

\* What the panel may ask of the server.
Op == {"none", "typing", "send", "reply", "edit", "react", "forward", "delete",
       "delete for everyone", "file", "voice", "pin", "unpin"}

NoRequest == [op |-> "none", chat |-> NoChat, of |-> {}, late |-> FALSE]

ScreenInit ==
  /\ active = NoChat /\ menu = NoMenu /\ late = {} /\ request = NoRequest

ScreenTypeOK ==
  /\ active \in Chat \cup {NoChat}
  /\ menu \in [chat : Chat \cup {NoChat}, message : Message \cup {NoMessage}]
  /\ IsFiniteSet(late)
  /\ request \in [op : Op, chat : Chat \cup {NoChat}, of : SUBSET Chat,
                  late : BOOLEAN]

\* A slot gets a target: from the screen, or from another slot's target.
Filled(slot) == late' = late \ {slot}

FilledFrom(slot, source) ==
  late' = (late \ ({slot} \cup ({source} \cap {"menu"})))
          \cup (IF source \in late THEN {slot} ELSE {})

Emptied(slot) == late' = late \ {slot}

Quiet == request' = NoRequest

Asks(op, chat, of, wasLate) ==
  request' = [op |-> op, chat |-> chat, of |-> of, late |-> wasLate]

\* Right click or long press on a bubble or next to one: the event captures
\* the message and the chat on screen.
ShowMenu(m) ==
  /\ active = Home[m]
  /\ menu' = [chat |-> active, message |-> m]
  /\ Filled("menu")
  /\ Quiet /\ UNCHANGED active

\* Right click on the empty area: no message, only the chat.
ShowAreaMenu ==
  /\ active # NoChat
  /\ menu' = [chat |-> active, message |-> NoMessage]
  /\ Filled("menu")
  /\ Quiet /\ UNCHANGED active

ClickOutside ==
  /\ menu # NoMenu
  /\ menu' = NoMenu /\ Emptied("menu")
  /\ Quiet /\ UNCHANGED active

\* An item was clicked: hide(), then the item's event.
MenuItem(m) ==
  /\ menu.message = m
  /\ menu' = NoMenu

\* activeChatId changes (a click in the list, the browser's back button, a
\* deleted chat): without a chat the view is unmounted and its menu with it.
SwitchChat(c, filled) ==
  /\ c # active
  /\ active' = c
  /\ menu' = IF c = NoChat THEN NoMenu ELSE menu
  /\ late' = filled \cup (IF menu' = NoMenu THEN {} ELSE {"menu"})
  /\ Quiet

-----------------------------------------------------------------------------
\* A request about messages, a file or a recording goes to the chat these
\* were picked in, unless the chat on screen changed in between: the handlers
\* name activeChatId when they run, not the chat of what was picked.
OwnChatUnlessMoved == request.late \/ request.of \subseteq {request.chat}

===============================================================================
