----------------------------- MODULE ScreenProofs -----------------------------
(***************************************************************************)
(* For any chats, messages, deletions, uploads and recordings: what the    *)
(* panel's parts hold is of the chat on screen or known to be late, and a  *)
(* request made from it goes to its own chat.                              *)
(***************************************************************************)
EXTENDS ChatScreen, FiniteSetTheorems, TLAPS

-------------------------------------------------------------------------------
\* The inductive invariant.

Slots == {"menu", "target", "emoji", "select", "drag", "forward", "delete", "file", "voice"}

\* The menu speaks of the chat its message is of, which is the one on screen unless
\* the user went elsewhere.
MenuInv ==
  /\ active \in Chat \cup {NoChat}
  /\ menu \in [chat : Chat \cup {NoChat}, message : Message \cup {NoMessage}]
  /\ late \subseteq Slots
  /\ menu.message # NoMessage => Home[menu.message] = menu.chat
  /\ "menu" \notin late /\ menu # NoMenu => menu.chat = active

RequestInv ==
  /\ request \in [op : Op, chat : Chat \cup {NoChat}, of : SUBSET Chat, late : BOOLEAN]
  /\ OwnChatUnlessMoved

\* A message is of the chat on screen.
OnScreen(m) == Home[m] = active

\* So are the targets of the composer, and of the reaction picker, that are not late.
ComposeInv ==
  /\ ComposeTypeOK
  /\ "target" \notin late => /\ reply # NoMessage => OnScreen(reply)
                             /\ edit # NoMessage => OnScreen(edit)
  /\ "emoji" \notin late /\ emoji # NoMessage => OnScreen(emoji)

BatchType == [chat : Chat \cup {NoChat}, todo : SUBSET Message,
              now : Message \cup {NoMessage}, all : BOOLEAN, late : BOOLEAN]

\* So is what is selected, dragged over, or in a dialog; a deletion that runs keeps to
\* the chat it was confirmed in.
SelectInv ==
  /\ SelectTypeOK /\ batch \in [Batch -> BatchType]
  /\ SelectionOnScreen
  /\ "drag" \notin late /\ drag # NoMessage => OnScreen(drag)
  /\ "forward" \notin late /\ forward.open => \A m \in forward.ids : OnScreen(m)
  /\ "delete" \notin late /\ delete.open => \A m \in delete.ids : OnScreen(m)
  /\ \A b \in Batch : ~batch[b].late => \A m \in batch[b].todo : Home[m] = batch[b].chat

AttachmentType == [menu : BOOLEAN, file : {"none", "fits", "too large"}, of : SUBSET Chat]
UploadType == [op : Op, of : SUBSET Chat, takes : SUBSET Take, late : BOOLEAN]

\* A file, a recording or an upload that is not late is of the chat on screen.
MediaOwn ==
  /\ attachment.file # "none" /\ "file" \notin late => attachment.of \subseteq {active}
  /\ (bar \/ prompts > 0 \/ stopping # {}) /\ "voice" \notin late => madeFor \subseteq {active}
  /\ \A u \in Upload : ~upload[u].late => upload[u].of \subseteq {active}

\* What runs, or awaits its onstop, is the recording of the variable or out of reach.
Reached ==
  /\ live \subseteq {recorder} \cup astray
  /\ stopping \cup cancelling \subseteq {recorder} \cup astray

\* A recorder records with its tracks on, not stopped nor cancelled before, and has given
\* nothing away yet.
Records ==
  recording => /\ recorder \in live
               /\ recorder \notin stopping \cup cancelling \cup cancelled
               /\ \A u \in Upload : recorder \notin upload[u].takes

\* The microphone of the variable's recording is on with the bar, or until its onstop.
Shows ==
  recorder \in live \ astray =>
    (recording /\ bar) \/ recorder \in stopping \cup cancelling

\* What is cancelled is not stopped to be sent, and is in the chunks of a recording that
\* may be sent only if it is out of reach.
Unmixed ==
  /\ stopping \cap cancelled = {} /\ cancelling \subseteq cancelled
  /\ recording \/ recorder \in stopping => chunks \cap cancelled \subseteq astray

TakesInv == Reached /\ Records /\ Shows /\ Unmixed /\ CancelledNeverSent

MediaInv ==
  /\ MediaTypeOK
  /\ attachment \in AttachmentType /\ upload \in [Upload -> UploadType]
  /\ MediaOwn /\ TakesInv /\ VoiceSeen

\* Searches that run are of the chat on screen.
FindInv ==
  /\ FindTypeOK
  /\ NothingOfOtherChats
  /\ \A k \in lookups : k.chat = active
  /\ searchMode => active # NoChat

\* What the parts hold that do not move.
ComposeIdle == reply = NoMessage /\ edit = NoMessage /\ emoji = NoMessage
SelectIdle == selected.ids = {} /\ drag = NoMessage /\ ~forward.open /\ ~delete.open
MediaIdle ==
  /\ attachment.file = "none" /\ \A u \in Upload : upload[u] = NoUpload
  /\ prompts = 0 /\ ~bar /\ stopping = {} /\ player = NoPlayer
FindIdle == ~searchMode /\ lookups = {} /\ results = {}

PartsInv ==
  /\ part # "compose" => ComposeIdle
  /\ part \notin {"forward", "delete"} => SelectIdle
  /\ part \notin {"attach", "record", "play"} => MediaIdle
  /\ part # "search" => FindIdle

ScreenInv == MenuInv /\ RequestInv /\ ComposeInv /\ SelectInv /\ MediaInv /\ FindInv /\ PartsInv

-------------------------------------------------------------------------------
\* Slots, requests and the menu.

\* A set of slots is finite.
LEMMA SlotsFinite == ASSUME NEW S \in SUBSET Slots PROVE IsFiniteSet(S)
<1> DEFINE first == {"menu", "target", "emoji"}
           second == {"select", "drag", "forward"}
           third == {"delete", "file", "voice"}
<1>1. ASSUME NEW x, NEW y, NEW z PROVE IsFiniteSet({x, y, z})
  <2>1. IsFiniteSet({x} \cup {y})
    BY FS_Singleton, FS_Union
  <2>2. IsFiniteSet(({x} \cup {y}) \cup {z})
    BY <2>1, FS_Singleton, FS_Union
  <2>3. ({x} \cup {y}) \cup {z} = {x, y, z}
    OBVIOUS
  <2> QED
    BY <2>2, <2>3
<1>2. IsFiniteSet(first) /\ IsFiniteSet(second) /\ IsFiniteSet(third)
  BY <1>1
<1>3. IsFiniteSet((first \cup second) \cup third)
  <2> HIDE DEF first, second, third
  <2> QED
    BY <1>2, FS_Union
<1>4. S \subseteq (first \cup second) \cup third
  BY DEF Slots
<1> QED
  <2> HIDE DEF first, second, third
  <2> QED
    BY <1>3, <1>4, FS_Subset

\* A step that makes no request, and one that makes one to the chat of its subject or
\* marks it late.
LEMMA NoneAsked == ASSUME Quiet PROVE RequestInv'
BY DEF Quiet, RequestInv, OwnChatUnlessMoved, NoRequest, Op

\* A request about subjects of the chat it names, or about late ones, is as `RequestInv` says;
LEMMA OneAsked ==
  ASSUME NEW op \in Op, NEW chat \in Chat \cup {NoChat}, NEW of \in SUBSET Chat,
         NEW wasLate \in BOOLEAN, wasLate \/ of \subseteq {chat},
         Asks(op, chat, of, wasLate)
  PROVE  RequestInv'
BY DEF Asks, RequestInv, OwnChatUnlessMoved

\* the same with a slot that may have become late.
LEMMA OneAskedOf ==
  ASSUME NEW op \in Op, NEW chat \in Chat \cup {NoChat}, NEW of \in SUBSET Chat, NEW slot,
         slot \in late \/ of \subseteq {chat},
         Asks(op, chat, of, slot \in late)
  PROVE  RequestInv'
<1>1. PICK wasLate \in BOOLEAN : wasLate <=> slot \in late
  OBVIOUS
<1>2. Asks(op, chat, of, wasLate)
  BY <1>1, Zenon DEF Asks
<1> QED
  BY <1>1, <1>2, OneAsked

\* The menu stays as it is while slots of the parts are filled and emptied.
LEMMA MenuRests ==
  ASSUME MenuInv, UNCHANGED <<active, menu>>, late' \subseteq Slots,
         "menu" \in late' <=> "menu" \in late
  PROVE  MenuInv'
BY DEF MenuInv

\* It is hidden when one of its items is clicked, and shown for the chat on screen.
LEMMA MenuHides ==
  ASSUME MenuInv, UNCHANGED active, menu' = NoMenu, late' \subseteq Slots
  PROVE  MenuInv'
BY ScreenAssumption DEF MenuInv, NoMenu

\* The menu is opened on the active chat, and so is never late then.
LEMMA MenuShows ==
  ASSUME MenuInv, (\E m \in Message : ShowMenu(m)) \/ ShowAreaMenu \/ ClickOutside
  PROVE  MenuInv' /\ RequestInv' /\ UNCHANGED active /\ late' = late \ {"menu"}
<1>1. ASSUME NEW m \in Message, ShowMenu(m)
      PROVE  MenuInv' /\ UNCHANGED active /\ late' = late \ {"menu"} /\ Quiet
  BY <1>1, ScreenAssumption DEF MenuInv, ShowMenu, Filled, NoMenu
<1>2. CASE ShowAreaMenu
  BY <1>2, ScreenAssumption, NoneAsked DEF MenuInv, ShowAreaMenu, Filled, NoMenu
<1>3. CASE ClickOutside
  BY <1>3, ScreenAssumption, NoneAsked DEF MenuInv, ClickOutside, Emptied, NoMenu
<1> QED
  BY <1>1, <1>2, <1>3, NoneAsked

\* An item acts on the message of the menu, which is on screen unless the menu is late.
LEMMA MenuItems ==
  ASSUME MenuInv, NEW m \in Message, MenuItem(m)
  PROVE  /\ menu' = NoMenu /\ Home[m] = menu.chat
         /\ "menu" \notin late => Home[m] = active
BY ScreenAssumption DEF MenuInv, MenuItem, NoMenu

\* When the chat on screen changes, everything kept is late.
LEMMA Switches ==
  ASSUME MenuInv, NEW c \in Chat \cup {NoChat}, NEW filled \in SUBSET Slots,
         SwitchChat(c, filled)
  PROVE  /\ MenuInv' /\ RequestInv' /\ active' = c /\ filled \subseteq late'
<1>1. MenuInv' /\ active' = c /\ filled \subseteq late'
  BY ScreenAssumption DEF MenuInv, SwitchChat, NoMenu, Slots
<1> QED
  BY <1>1, NoneAsked DEF SwitchChat

-------------------------------------------------------------------------------
\* The composer.

\* Its targets, and the reaction picker's, which are on screen or late.
TargetsInv ==
  /\ {reply, edit, emoji} \subseteq Message \cup {NoMessage}
  /\ "target" \notin late => /\ reply # NoMessage => OnScreen(reply)
                             /\ edit # NoMessage => OnScreen(edit)
  /\ "emoji" \notin late /\ emoji # NoMessage => OnScreen(emoji)

\* The rest of its state.
ComposerTyped ==
  /\ text \in {"empty", "typed"} /\ panel \in BOOLEAN /\ myRole \in {"member", "admin"}
  /\ loading \subseteq Chat /\ asked \subseteq Chat

\* The invariant of the composer in its two parts,
LEMMA ComposeParts == ComposeInv <=> TargetsInv /\ ComposerTyped
BY DEF ComposeInv, TargetsInv, ComposerTyped, ComposeTypeOK

\* and the same of the next state.
LEMMA ComposePartsNext == ComposeInv' <=> TargetsInv' /\ ComposerTyped'
BY DEF ComposeInv, TargetsInv, ComposerTyped, ComposeTypeOK

\* Targets that stay, or go, are as they were.
LEMMA TargetsStay ==
  ASSUME TargetsInv, UNCHANGED <<active, late>>,
         reply' \in {reply, NoMessage}, edit' \in {edit, NoMessage},
         emoji' \in {emoji, NoMessage}
  PROVE  TargetsInv'
BY DEF TargetsInv, OnScreen

\* A step of the composer keeps the state typed.
LEMMA ComposeTyped == ASSUME ComposerTyped, ComposeNext PROVE ComposerTyped'
<1> USE DEF ComposerTyped
<1>1. CASE OnInput \/ ClearText \/ SendEdit \/ SendReply \/ SendPlain
  BY <1>1 DEF OnInput, ClearText, SendEdit, SendReply, SendPlain, roleVars
<1>2. CASE CancelReply \/ CancelEdit \/ ToggleEmojiPanel \/ CloseEmojiPanel
  BY <1>2 DEF CancelReply, CancelEdit, ToggleEmojiPanel, CloseEmojiPanel, roleVars,
              targetVars
<1>3. CASE OnEmojiPanelSelect \/ OnEmojiSelect \/ CloseEmojiPicker
  BY <1>3 DEF OnEmojiPanelSelect, OnEmojiSelect, CloseEmojiPicker, roleVars, targetVars
<1>4. ASSUME NEW m \in Message, \/ OnReplyToMessage(m) \/ OnEditMessage(m)
                                \/ OnOpenEmojiPicker(m) \/ OnToggleReaction(m)
      PROVE  ComposerTyped'
  BY <1>4 DEF OnReplyToMessage, OnEditMessage, OnOpenEmojiPicker, OnToggleReaction,
              composeVars, roleVars, targetVars
<1>5. CASE UNCHANGED composeVars
  BY <1>5 DEF composeVars, roleVars, targetVars
<1>6. ASSUME NEW c \in Chat, AskRole(c) \/ RoleFails(c) PROVE ComposerTyped'
  BY <1>6 DEF AskRole, RoleFails, targetVars
<1>7. ASSUME NEW c \in Chat, RoleArrives(c) PROVE ComposerTyped'
  BY <1>7, ScreenAssumption DEF RoleArrives, Unmount, targetVars
<1>8. ASSUME NEW c \in Chat \cup {NoChat}, ComposeSwitch(c) PROVE ComposerTyped'
  BY <1>8 DEF ComposeSwitch, Unmount, targetVars
<1> QED
  BY <1>1, <1>2, <1>3, <1>4, <1>5, <1>6, <1>7, <1>8 DEF ComposeNext

\* A step of the composer keeps its targets right, and asks for the chat of what it
\* takes from them.
LEMMA ComposeStep ==
  ASSUME MenuInv, ComposeInv, ComposeNext
  PROVE  MenuInv' /\ RequestInv' /\ ComposeInv'
<1>0. TargetsInv /\ ComposerTyped'
  BY ComposeParts, ComposeTyped
<1>1. ASSUME ComposerShown PROVE active \in Chat
  BY <1>1 DEF ComposerShown, MenuInv
<1>3. CASE OnInput \/ SendPlain
  <2>1. MenuInv' /\ TargetsInv' /\ active \in Chat
    BY <1>3, <1>0, <1>1, MenuRests, TargetsStay DEF OnInput, SendPlain, MenuInv
  <2>2. RequestInv'
    BY <1>3, <2>1, NoneAsked, OneAsked DEF OnInput, SendPlain, Op
  <2> QED
    BY <2>1, <2>2, <1>0, ComposePartsNext
<1>4. CASE SendEdit
  <2>1. MenuInv' /\ TargetsInv'
    BY <1>4, <1>0, MenuRests, TargetsStay DEF SendEdit, MenuInv
  <2>2. /\ {Home[edit]} \in SUBSET Chat /\ active \in Chat \cup {NoChat}
        /\ "target" \in late \/ {Home[edit]} \subseteq {active}
    BY <1>4, <1>0, ScreenAssumption DEF SendEdit, TargetsInv, OnScreen, MenuInv
  <2>3. Asks("edit", active, {Home[edit]}, "target" \in late)
    BY <1>4 DEF SendEdit
  <2>4. RequestInv'
    BY <2>2, <2>3, OneAskedOf DEF Op
  <2> QED
    BY <2>1, <2>4, <1>0, ComposePartsNext
<1>5. CASE SendReply
  <2>1. MenuInv' /\ TargetsInv'
    BY <1>5, <1>0, MenuRests, TargetsStay DEF SendReply, MenuInv
  <2>2. /\ {Home[reply]} \in SUBSET Chat /\ active \in Chat \cup {NoChat}
        /\ "target" \in late \/ {Home[reply]} \subseteq {active}
    BY <1>5, <1>0, ScreenAssumption DEF SendReply, TargetsInv, OnScreen, MenuInv
  <2>3. Asks("reply", active, {Home[reply]}, "target" \in late)
    BY <1>5 DEF SendReply
  <2>4. RequestInv'
    BY <2>2, <2>3, OneAskedOf DEF Op
  <2> QED
    BY <2>1, <2>4, <1>0, ComposePartsNext
<1>6. CASE OnEmojiSelect
  <2>1. MenuInv' /\ TargetsInv'
    BY <1>6, <1>0, MenuRests, TargetsStay DEF OnEmojiSelect, MenuInv, targetVars
  <2>2. /\ {Home[emoji]} \in SUBSET Chat /\ active \in Chat \cup {NoChat}
        /\ "emoji" \in late \/ {Home[emoji]} \subseteq {active}
    BY <1>6, <1>0, ScreenAssumption DEF OnEmojiSelect, TargetsInv, OnScreen, MenuInv
  <2>3. Asks("react", active, {Home[emoji]}, "emoji" \in late)
    BY <1>6 DEF OnEmojiSelect
  <2>4. RequestInv'
    BY <2>2, <2>3, OneAskedOf DEF Op
  <2> QED
    BY <2>1, <2>4, <1>0, ComposePartsNext
<1>7. CASE \/ ClearText \/ CancelReply \/ CancelEdit \/ ToggleEmojiPanel
           \/ CloseEmojiPanel \/ OnEmojiPanelSelect \/ CloseEmojiPicker
           \/ \E c \in Chat : AskRole(c) \/ RoleArrives(c) \/ RoleFails(c)
  <2>1. UNCHANGED <<active, menu, late>> /\ Quiet
    BY <1>7 DEF ClearText, CancelReply, CancelEdit, ToggleEmojiPanel, CloseEmojiPanel,
                OnEmojiPanelSelect, CloseEmojiPicker, AskRole, RoleArrives, RoleFails,
                screenVars
  <2>2. /\ reply' \in {reply, NoMessage} /\ edit' \in {edit, NoMessage}
        /\ emoji' \in {emoji, NoMessage}
    BY <1>7 DEF ClearText, CancelReply, CancelEdit, ToggleEmojiPanel, CloseEmojiPanel,
                OnEmojiPanelSelect, CloseEmojiPicker, AskRole, RoleArrives, RoleFails,
                targetVars, Unmount
  <2>3. MenuInv'
    BY <2>1, MenuRests DEF MenuInv
  <2> QED
    BY <1>0, <2>1, <2>2, <2>3, NoneAsked, TargetsStay, ComposePartsNext
<1>8. ASSUME NEW m \in Message, OnReplyToMessage(m) \/ OnEditMessage(m)
      PROVE  MenuInv' /\ RequestInv' /\ ComposeInv'
  <2>1. MenuItem(m) /\ Quiet /\ UNCHANGED <<active, emoji>>
    BY <1>8 DEF OnReplyToMessage, OnEditMessage, targetVars
  <2>2. menu' = NoMenu /\ ("menu" \notin late => Home[m] = active)
    BY <2>1, MenuItems
  <2>3. CASE UNCHANGED <<reply, edit>> /\ Emptied("menu")
    <3>1. MenuInv'
      BY <2>1, <2>2, <2>3, MenuHides DEF Emptied, MenuInv
    <3>2. TargetsInv'
      BY <1>0, <2>1, <2>3 DEF TargetsInv, OnScreen, Emptied
    <3> QED
      BY <3>1, <3>2, <2>1, <1>0, NoneAsked, ComposePartsNext
  <2>4. CASE /\ reply' \in {m, NoMessage} /\ edit' \in {m, NoMessage}
             /\ FilledFrom("target", "menu")
    <3>1. /\ late' \subseteq Slots
          /\ "target" \in late' <=> "menu" \in late
          /\ "emoji" \in late' <=> "emoji" \in late
      BY <2>4 DEF FilledFrom, MenuInv, Slots
    <3>2. MenuInv'
      BY <2>1, <2>2, <3>1, MenuHides
    <3>3. TargetsInv'
      BY <1>0, <2>1, <2>2, <2>4, <3>1 DEF TargetsInv, OnScreen
    <3> QED
      BY <3>2, <3>3, <2>1, <1>0, NoneAsked, ComposePartsNext
  <2> QED
    BY <1>8, <2>3, <2>4 DEF OnReplyToMessage, OnEditMessage, targetVars
<1>9. ASSUME NEW m \in Message, OnOpenEmojiPicker(m)
      PROVE  MenuInv' /\ RequestInv' /\ ComposeInv'
  <2>1. MenuInv'
    BY <1>9, MenuRests DEF OnOpenEmojiPicker, Filled, MenuInv
  <2>2. TargetsInv'
    BY <1>0, <1>9 DEF OnOpenEmojiPicker, Filled, TargetsInv, OnScreen, targetVars
  <2> QED
    BY <1>0, <1>9, <2>1, <2>2, NoneAsked, ComposePartsNext DEF OnOpenEmojiPicker
<1>10. ASSUME NEW m \in Message, OnToggleReaction(m)
       PROVE  MenuInv' /\ RequestInv' /\ ComposeInv'
  <2>1. MenuInv' /\ TargetsInv'
    BY <1>0, <1>10, MenuRests, TargetsStay
    DEF OnToggleReaction, MenuInv, composeVars, targetVars
  <2>2. Home[m] = active /\ Home[m] \in Chat
    BY <1>10, ScreenAssumption DEF OnToggleReaction
  <2>3. RequestInv'
    BY <1>10, <2>2, OneAsked DEF OnToggleReaction, Op
  <2> QED
    BY <2>1, <2>3, <1>0, ComposePartsNext
<1>11. CASE /\ (\E m \in Message : ShowMenu(m)) \/ ShowAreaMenu \/ ClickOutside
            /\ UNCHANGED composeVars
  <2>1. MenuInv' /\ RequestInv' /\ UNCHANGED active /\ late' = late \ {"menu"}
    BY <1>11, MenuShows
  <2>2. TargetsInv'
    BY <1>0, <1>11, <2>1 DEF TargetsInv, OnScreen, composeVars, targetVars
  <2> QED
    BY <1>0, <2>1, <2>2, ComposePartsNext
<1>12. ASSUME NEW c \in Chat \cup {NoChat}, ComposeSwitch(c)
       PROVE  MenuInv' /\ RequestInv' /\ ComposeInv'
  <2> DEFINE kept == (IF c # NoChat THEN Targets ELSE {})
                     \cup (IF emoji # NoMessage THEN {"emoji"} ELSE {})
  <2>1. kept \in SUBSET Slots /\ SwitchChat(c, kept)
    BY <1>12 DEF ComposeSwitch, Slots, Targets
  <2>2. MenuInv' /\ RequestInv' /\ kept \subseteq late'
    <3> HIDE DEF kept
    <3> QED
      BY <2>1, Switches
  <2>3. /\ reply' \in {reply, NoMessage} /\ edit' \in {edit, NoMessage}
        /\ c = NoChat => reply' = NoMessage /\ edit' = NoMessage
        /\ UNCHANGED emoji
    BY <1>12 DEF ComposeSwitch, Unmount, targetVars
  <2>4. /\ reply' # NoMessage \/ edit' # NoMessage => "target" \in late'
        /\ emoji' # NoMessage => "emoji" \in late'
    BY <2>2, <2>3 DEF Targets
  <2>5. TargetsInv'
    BY <1>0, <2>3, <2>4 DEF TargetsInv
  <2> QED
    BY <1>0, <2>2, <2>5, ComposePartsNext
<1> QED
  BY <1>3, <1>4, <1>5, <1>6, <1>7, <1>8, <1>9, <1>10, <1>11, <1>12 DEF ComposeNext

-------------------------------------------------------------------------------
\* Selection and its dialogs.

\* Deletions that run, with what they still have to delete.
BatchInv ==
  /\ batch \in [Batch -> BatchType]
  /\ \A b \in Batch : ~batch[b].late => \A m \in batch[b].todo : Home[m] = batch[b].chat

\* The types of a selection and of the two dialogs.
SelectionType == [mode : BOOLEAN, ids : SUBSET Message]
ForwardType == [open : BOOLEAN, ids : SUBSET Message, busy : BOOLEAN]
DeleteType == [open : BOOLEAN, ids : SUBSET Message, all : BOOLEAN]

SelectTyped ==
  /\ selected \in SelectionType /\ forward \in ForwardType /\ delete \in DeleteType
  /\ drag \in Message \cup {NoMessage} /\ dragging \in BOOLEAN

\* What is picked is on screen or late.
PickedInv ==
  /\ SelectionOnScreen
  /\ "drag" \notin late /\ drag # NoMessage => OnScreen(drag)
  /\ "forward" \notin late /\ forward.open => \A m \in forward.ids : OnScreen(m)
  /\ "delete" \notin late /\ delete.open => \A m \in delete.ids : OnScreen(m)

\* The invariant of the selection in its three parts,
LEMMA SelectParts == SelectInv <=> SelectTyped /\ PickedInv /\ BatchInv
BY DEF SelectInv, SelectTyped, PickedInv, BatchInv, SelectTypeOK, BatchType,
       SelectionType, ForwardType, DeleteType

\* and the same of the next state.
LEMMA SelectPartsNext == SelectInv' <=> SelectTyped' /\ PickedInv' /\ BatchInv'
BY DEF SelectInv, SelectTyped, PickedInv, BatchInv, SelectTypeOK, BatchType,
       SelectionType, ForwardType, DeleteType

\* What the step of a deletion does to the others, and the request it makes.
LEMMA BatchStep ==
  ASSUME MenuInv, SelectTyped, PickedInv, BatchInv, NEW b \in Batch,
         \/ \E everyone \in BOOLEAN : OnDeleteConfirm(b, everyone)
         \/ DeleteNext(b) \/ DeleteAnswered(b) \/ DeleteDone(b)
  PROVE  BatchInv' /\ RequestInv'
<1> DEFINE Right(d) == d \in BatchType /\ (~d.late => \A m \in d.todo : Home[m] = d.chat)
<1>0. ASSUME NEW d, Right(d), batch' = [batch EXCEPT ![b] = d]
      PROVE  BatchInv'
  <2>1. /\ batch' \in [Batch -> BatchType] /\ batch'[b] = d
        /\ \A x \in Batch : x # b => batch'[x] = batch[x]
    BY <1>0 DEF BatchInv
  <2>2. ASSUME NEW x \in Batch, ~batch'[x].late, NEW m \in batch'[x].todo
        PROVE  Home[m] = batch'[x].chat
    <3>1. CASE x = b
      BY <3>1, <2>1, <2>2, <1>0
    <3>2. CASE x # b
      BY <3>2, <2>1, <2>2 DEF BatchInv
    <3> QED
      BY <3>1, <3>2
  <2> QED
    BY <2>1, <2>2 DEF BatchInv
<1>1. batch[b] \in BatchType /\ Right(batch[b])
  BY DEF BatchInv
<1>2. ASSUME NEW everyone \in BOOLEAN, OnDeleteConfirm(b, everyone)
      PROVE  BatchInv' /\ RequestInv'
  <2>1. PICK wasLate \in BOOLEAN : wasLate <=> "delete" \in late
    OBVIOUS
  <2> DEFINE d == [chat |-> active, todo |-> delete.ids, now |-> NoMessage,
                   all |-> everyone, late |-> wasLate]
  <2>2. batch' = [batch EXCEPT ![b] = d] /\ delete.open /\ Quiet
    BY <1>2, <2>1, Zenon DEF OnDeleteConfirm
  <2>3. d \in BatchType
    BY DEF MenuInv, SelectTyped, DeleteType, BatchType
  <2>4. ~wasLate => \A m \in delete.ids : Home[m] = active
    BY <2>1, <2>2 DEF PickedInv, OnScreen
  <2>5. Right(d)
    BY <2>3, <2>4
  <2> QED
    <3> HIDE DEF d, Right
    <3> QED
      BY <2>2, <2>5, <1>0, NoneAsked
<1>3. CASE DeleteNext(b)
  <2>1. PICK m \in batch[b].todo :
          /\ batch' = [batch EXCEPT ![b].now = m]
          /\ Asks(IF batch[b].all THEN "delete for everyone" ELSE "delete",
                  batch[b].chat, {Home[m]}, batch[b].late)
    BY <1>3 DEF DeleteNext
  <2> DEFINE d == [batch[b] EXCEPT !.now = m]
             op == IF batch[b].all THEN "delete for everyone" ELSE "delete"
  <2>2. batch' = [batch EXCEPT ![b] = d]
    BY <2>1
  <2>3. d \in BatchType /\ d.late = batch[b].late /\ d.todo = batch[b].todo
        /\ d.chat = batch[b].chat
    BY <2>1, <1>1 DEF BatchType
  <2>4. Right(d)
    <3> HIDE DEF d
    <3> QED
      BY <2>3, <1>1
  <2>5. BatchInv'
    <3> HIDE DEF d, Right
    <3> QED
      BY <2>2, <2>4, <1>0
  <2>6. /\ op \in Op /\ batch[b].chat \in Chat \cup {NoChat} /\ batch[b].late \in BOOLEAN
        /\ {Home[m]} \in SUBSET Chat
        /\ batch[b].late \/ {Home[m]} \subseteq {batch[b].chat}
    <3>1. op \in Op
      BY DEF Op
    <3>2. m \in Message /\ batch[b].chat \in Chat \cup {NoChat} /\ batch[b].late \in BOOLEAN
      BY <2>1, <1>1 DEF BatchType
    <3>3. batch[b].late \/ Home[m] = batch[b].chat
      BY <2>1, <1>1
    <3>4. Home[m] \in Chat
      BY <3>2, ScreenAssumption
    <3> HIDE DEF op, d, Right
    <3> QED
      BY <3>1, <3>2, <3>3, <3>4
  <2>7. RequestInv'
    <3>1. Asks(op, batch[b].chat, {Home[m]}, batch[b].late)
      BY <2>1
    <3> HIDE DEF op
    <3> QED
      BY <3>1, <2>6, OneAsked
  <2> QED
    BY <2>5, <2>7
<1>4. CASE DeleteAnswered(b)
  <2> DEFINE d == [batch[b] EXCEPT !.todo = @ \ {batch[b].now}, !.now = NoMessage]
  <2>1. batch' = [batch EXCEPT ![b] = d] /\ Quiet
    BY <1>4 DEF DeleteAnswered
  <2>2. d \in BatchType /\ d.late = batch[b].late /\ d.todo \subseteq batch[b].todo
        /\ d.chat = batch[b].chat
    BY <1>1 DEF BatchType
  <2>3. Right(d)
    <3> HIDE DEF d
    <3> QED
      BY <2>2, <1>1
  <2> QED
    <3> HIDE DEF d, Right
    <3> QED
      BY <2>1, <2>3, <1>0, NoneAsked
<1>5. CASE DeleteDone(b)
  <2>1. Right(NoBatch)
    BY DEF NoBatch, BatchType
  <2>2. batch' = [batch EXCEPT ![b] = NoBatch] /\ Quiet
    BY <1>5 DEF DeleteDone
  <2> QED
    <3> HIDE DEF Right
    <3> QED
      BY <2>1, <2>2, <1>0, NoneAsked
<1> QED
  BY <1>2, <1>3, <1>4, <1>5

\* What the operators on selections and dialogs return.
LEMMA SelectionTypes ==
  /\ NoSelection \in SelectionType
  /\ \A ids \in SUBSET Message : [mode |-> TRUE, ids |-> ids] \in SelectionType
  /\ \A s \in SelectionType, m \in Message : AddMessage(s, m) \in SelectionType
<1>1. NoSelection \in SelectionType
  BY DEF NoSelection, SelectionType
<1>2. ASSUME NEW ids \in SUBSET Message PROVE [mode |-> TRUE, ids |-> ids] \in SelectionType
  BY DEF SelectionType
<1>3. ASSUME NEW s \in SelectionType, NEW m \in Message
      PROVE  AddMessage(s, m) \in SelectionType
  <2>1. [s EXCEPT !.ids = s.ids \cup {m}] \in SelectionType
    BY DEF SelectionType
  <2> QED
    BY <2>1 DEF AddMessage
<1> QED
  BY <1>1, <1>2, <1>3

\* The dialogs hold what their types say.
LEMMA DialogTypes ==
  /\ NoForward \in ForwardType /\ NoDelete \in DeleteType
  /\ \A f \in ForwardType, busy \in BOOLEAN : [f EXCEPT !.busy = busy] \in ForwardType
  /\ \A d \in DeleteType : [d EXCEPT !.ids = {}] \in DeleteType
  /\ \A ids \in SUBSET Message : /\ OpenForward(ids) => forward' \in ForwardType
                                /\ OpenDelete(ids) => delete' \in DeleteType
<1>1. NoForward \in ForwardType /\ NoDelete \in DeleteType
  BY DEF NoForward, NoDelete, ForwardType, DeleteType
<1>2. \A f \in ForwardType, busy \in BOOLEAN : [f EXCEPT !.busy = busy] \in ForwardType
  BY DEF ForwardType
<1>3. \A d \in DeleteType : [d EXCEPT !.ids = {}] \in DeleteType
  BY DEF DeleteType
<1>4. ASSUME NEW ids \in SUBSET Message, OpenForward(ids) PROVE forward' \in ForwardType
  BY <1>4 DEF OpenForward, ForwardType
<1>5. ASSUME NEW ids \in SUBSET Message, OpenDelete(ids) PROVE delete' \in DeleteType
  <2>1. CanDeleteForEveryone(ids) \in BOOLEAN
    BY DEF CanDeleteForEveryone
  <2> QED
    BY <1>5, <2>1 DEF OpenDelete, DeleteType
<1> QED
  BY <1>1, <1>2, <1>3, <1>4, <1>5

\* A step of the selection keeps its state typed.
LEMMA SelectTypes == ASSUME SelectTyped, SelectNext PROVE SelectTyped'
<1>0. selected.ids \in SUBSET Message
  BY DEF SelectTyped, SelectionType
<1> USE SelectionTypes, DialogTypes DEF SelectTyped
<1>1. ASSUME NEW m \in Message, OnRowClick(m) PROVE SelectTyped'
  <2> DEFINE next == IF m \in selected.ids THEN selected.ids \ {m}
                     ELSE selected.ids \cup {m}
  <2>1. next \in SUBSET Message
    BY <1>0
  <2>2. selected' = IF next = {} THEN NoSelection ELSE [mode |-> TRUE, ids |-> next]
    BY <1>1 DEF OnRowClick, ToggleMessage, ExitSelectionMode, EnterSelectionMode
  <2>3. selected' \in SelectionType
    <3> HIDE DEF next
    <3> QED
      BY <2>1, <2>2
  <2> QED
    BY <1>1, <2>3 DEF OnRowClick, dragVars
<1>2. ASSUME NEW m \in Message, OnMouseDown(m) PROVE SelectTyped'
  BY <1>2 DEF OnMouseDown
<1>3. ASSUME NEW m \in Message, OnMouseMove(m) PROVE SelectTyped'
  <2>1. drag \in Message
    BY <1>3 DEF OnMouseMove
  <2>2. AddMessage(selected, drag) \in SelectionType
    BY <2>1
  <2>3. [mode |-> TRUE, ids |-> {drag}] \in SelectionType
    BY <2>1
  <2>4. PICK s \in SelectionType : selected' = AddMessage(s, m)
    BY <1>3, <2>2, <2>3 DEF OnMouseMove
  <2> QED
    BY <1>3, <2>4 DEF OnMouseMove
<1>4. ASSUME NEW m \in Message,
             OnSelectMessage(m) \/ OnForwardMessages(m) \/ OnDeleteMessage(m)
      PROVE  SelectTyped'
  <2>1. {m} \in SUBSET Message
    OBVIOUS
  <2>2. CASE OnSelectMessage(m)
    BY <2>1, <2>2 DEF OnSelectMessage, EnterSelectionMode, dragVars
  <2>3. CASE OnForwardMessages(m)
    <3>1. OpenForward({m}) /\ UNCHANGED <<selected, drag, dragging, delete>>
      BY <2>3 DEF OnForwardMessages, dragVars
    <3>2. forward' \in ForwardType
      BY <2>1, <3>1 DEF OpenForward, ForwardType
    <3> QED
      BY <3>1, <3>2
  <2>4. CASE OnDeleteMessage(m)
    BY <2>1, <2>4 DEF OnDeleteMessage, dragVars
  <2> QED
    BY <1>4, <2>2, <2>3, <2>4
<1>5. CASE UNCHANGED selectVars
  BY <1>5 DEF selectVars
<1>6. CASE OnMouseUp \/ HandleSelectMessages \/ CancelSelection
  BY <1>6 DEF OnMouseUp, HandleSelectMessages, CancelSelection, EnterSelectionMode,
              ExitSelectionMode, dragVars
<1>7. CASE OnSelectionForward \/ CloseForwardDialog
  <2>1. CASE OnSelectionForward
    <3>1. OpenForward(selected.ids) /\ UNCHANGED <<selected, drag, dragging, delete>>
      BY <2>1 DEF OnSelectionForward, dragVars
    <3>2. forward' \in ForwardType
      BY <1>0, <3>1 DEF OpenForward, ForwardType
    <3> QED
      BY <3>1, <3>2
  <2>2. CASE CloseForwardDialog
    BY <2>2 DEF CloseForwardDialog, ExitSelectionMode, dragVars
  <2> QED
    BY <1>7, <2>1, <2>2
<1>8. CASE HandleForward \/ ForwardFails
  BY <1>8 DEF HandleForward, ForwardFails, dragVars
<1>9. CASE OnSelectionDelete \/ CloseDelete
  BY <1>0, <1>9 DEF OnSelectionDelete, CloseDelete, dragVars
<1>10. ASSUME NEW b \in Batch,
              \/ \E everyone \in BOOLEAN : OnDeleteConfirm(b, everyone)
              \/ DeleteNext(b) \/ DeleteAnswered(b) \/ DeleteDone(b)
       PROVE  SelectTyped'
  BY <1>10 DEF OnDeleteConfirm, DeleteNext, DeleteAnswered, DeleteDone, ExitSelectionMode,
               dragVars
<1>11. ASSUME NEW c \in Chat \cup {NoChat}, SelectSwitch(c) PROVE SelectTyped'
  BY <1>11 DEF SelectSwitch, ExitSelectionMode, dragVars
<1> QED
  BY <1>1, <1>2, <1>3, <1>4, <1>5, <1>6, <1>7, <1>8, <1>9, <1>10, <1>11 DEF SelectNext

\* A target taken from the menu is late if the menu is.
LEMMA FillsFromMenu ==
  ASSUME MenuInv, NEW slot \in Slots \ {"menu"}, FilledFrom(slot, "menu")
  PROVE  /\ late' \subseteq Slots
         /\ slot \in late' <=> "menu" \in late
         /\ \A x \in Slots \ {slot, "menu"} : x \in late' <=> x \in late
BY DEF MenuInv, FilledFrom

\* One taken from another slot is late if that slot is.
LEMMA FillsFromSlot ==
  ASSUME MenuInv, NEW slot \in Slots \ {"menu"}, NEW source \in Slots \ {"menu", slot},
         FilledFrom(slot, source)
  PROVE  /\ late' \subseteq Slots
         /\ slot \in late' <=> source \in late
         /\ \A x \in Slots \ {slot} : x \in late' <=> x \in late
BY DEF MenuInv, FilledFrom

\* A step of the selection keeps what is picked right.
LEMMA PickStep ==
  ASSUME MenuInv, SelectTyped, PickedInv, BatchInv, SelectNext
  PROVE  MenuInv' /\ RequestInv' /\ PickedInv'
<1> USE DEF PickedInv, SelectionOnScreen, OnScreen
<1>1. ASSUME NEW m \in Message, OnRowClick(m) PROVE MenuInv' /\ RequestInv' /\ PickedInv'
  <2>1. MenuInv'
    BY <1>1, MenuRests DEF OnRowClick, MenuInv, screenVars
  <2>2. \A x \in selected'.ids : x \in selected.ids \/ x = m
    BY <1>1 DEF OnRowClick, ToggleMessage, ExitSelectionMode, EnterSelectionMode, NoSelection
  <2>3. PickedInv'
    BY <1>1, <2>2 DEF OnRowClick, screenVars, dragVars
  <2> QED
    BY <1>1, <2>1, <2>3, NoneAsked DEF OnRowClick
<1>2. ASSUME NEW m \in Message, OnMouseDown(m) PROVE MenuInv' /\ RequestInv' /\ PickedInv'
  <2>1. MenuInv'
    BY <1>2, MenuRests DEF OnMouseDown, MenuInv, Filled
  <2>2. PickedInv'
    BY <1>2 DEF OnMouseDown, Filled
  <2> QED
    BY <1>2, <2>1, <2>2, NoneAsked DEF OnMouseDown
<1>3. ASSUME NEW m \in Message, OnMouseMove(m) PROVE MenuInv' /\ RequestInv' /\ PickedInv'
  <2>1. /\ late' \subseteq Slots
        /\ \A x \in Slots \ {"select"} : x \in late' <=> x \in late
        /\ "select" \in late' => "drag" \in late \/ "select" \in late
        /\ ~dragging /\ (~selected.mode \/ "drag" \in late)
           => ("select" \in late' <=> "drag" \in late)
        /\ ~(~dragging /\ (~selected.mode \/ "drag" \in late)) => late' = late
    <3>1. CASE ~dragging /\ (~selected.mode \/ "drag" \in late)
      <4>1. FilledFrom("select", "drag")
        BY <1>3, <3>1 DEF OnMouseMove
      <4>2. "select" \in Slots \ {"menu"} /\ "drag" \in Slots \ {"menu", "select"}
        BY DEF Slots
      <4> QED
        BY <3>1, <4>1, <4>2, FillsFromSlot
    <3>2. CASE ~(~dragging /\ (~selected.mode \/ "drag" \in late))
      BY <1>3, <3>2 DEF OnMouseMove, MenuInv
    <3> QED
      BY <3>1, <3>2
  <2>2. MenuInv'
    BY <1>3, <2>1, MenuRests DEF OnMouseMove, Slots
  <2>3. /\ dragging => \A x \in selected'.ids : x \in selected.ids \/ x = m
        /\ ~dragging /\ selected.mode
           => \A x \in selected'.ids : x \in selected.ids \/ x = m \/ x = drag
        /\ ~dragging /\ ~selected.mode => \A x \in selected'.ids : x = m \/ x = drag
    BY <1>3 DEF OnMouseMove, AddMessage, SelectTyped, SelectionType
  <2>4. SelectionOnScreen'
    BY <1>3, <2>1, <2>3 DEF OnMouseMove
  <2>5. PickedInv'
    BY <1>3, <2>1, <2>4 DEF OnMouseMove, Slots
  <2> QED
    BY <1>3, <2>2, <2>5, NoneAsked DEF OnMouseMove
<1>4. ASSUME NEW m \in Message,
             OnSelectMessage(m) \/ OnForwardMessages(m) \/ OnDeleteMessage(m)
      PROVE  MenuInv' /\ RequestInv' /\ PickedInv'
  <2>1. MenuItem(m) /\ UNCHANGED active /\ Quiet
    BY <1>4 DEF OnSelectMessage, OnForwardMessages, OnDeleteMessage
  <2>2. menu' = NoMenu /\ ("menu" \notin late => Home[m] = active)
    BY <2>1, MenuItems
  <2>3. {"select", "forward", "delete"} \subseteq Slots \ {"menu"} /\ "drag" \in Slots
    BY DEF Slots
  <2>4. late' \subseteq Slots
    BY <1>4, <2>3, FillsFromMenu DEF OnSelectMessage, OnForwardMessages, OnDeleteMessage
  <2>5. MenuInv'
    BY <2>1, <2>2, <2>4, MenuHides
  <2>6. CASE OnSelectMessage(m)
    <3>1. /\ "select" \in late' <=> "menu" \in late
          /\ \A x \in Slots \ {"select", "menu"} : x \in late' <=> x \in late
      BY <2>3, <2>6, FillsFromMenu DEF OnSelectMessage
    <3>2. PickedInv'
      BY <2>2, <2>3, <2>6, <3>1 DEF OnSelectMessage, EnterSelectionMode, Slots, dragVars
    <3> QED
      BY <2>1, <2>5, <3>2, NoneAsked
  <2>7. CASE OnForwardMessages(m)
    <3>1. /\ "forward" \in late' <=> "menu" \in late
          /\ \A x \in Slots \ {"forward", "menu"} : x \in late' <=> x \in late
      BY <2>3, <2>7, FillsFromMenu DEF OnForwardMessages
    <3>2. PickedInv'
      BY <2>2, <2>3, <2>7, <3>1 DEF OnForwardMessages, OpenForward, Slots, dragVars
    <3> QED
      BY <2>1, <2>5, <3>2, NoneAsked
  <2>8. CASE OnDeleteMessage(m)
    <3>1. /\ "delete" \in late' <=> "menu" \in late
          /\ \A x \in Slots \ {"delete", "menu"} : x \in late' <=> x \in late
      BY <2>3, <2>8, FillsFromMenu DEF OnDeleteMessage
    <3>2. PickedInv'
      BY <2>2, <2>3, <2>8, <3>1 DEF OnDeleteMessage, OpenDelete, Slots, dragVars
    <3> QED
      BY <2>1, <2>5, <3>2, NoneAsked
  <2> QED
    BY <1>4, <2>1, <2>5, <2>6, <2>7, <2>8, NoneAsked
<1>5. CASE /\ (\E m \in Message : ShowMenu(m)) \/ ShowAreaMenu \/ ClickOutside
           /\ UNCHANGED selectVars
  <2>1. MenuInv' /\ RequestInv' /\ UNCHANGED active /\ late' = late \ {"menu"}
    BY <1>5, MenuShows
  <2> QED
    BY <1>5, <2>1 DEF selectVars
<1>6. CASE OnMouseUp \/ CancelSelection \/ CloseForwardDialog \/ CloseDelete \/ ForwardFails
  <2>1. MenuInv'
    BY <1>6, MenuRests DEF OnMouseUp, CancelSelection, CloseForwardDialog, CloseDelete,
              ForwardFails, Emptied, MenuInv, screenVars
  <2>2. CASE OnMouseUp \/ CancelSelection
    BY <2>1, <2>2, NoneAsked DEF OnMouseUp, CancelSelection, Emptied, ExitSelectionMode,
                                 NoSelection, dragVars
  <2>3. CASE CloseForwardDialog \/ CloseDelete
    BY <2>1, <2>3, NoneAsked DEF CloseForwardDialog, CloseDelete, Emptied, ExitSelectionMode,
                                 NoSelection, NoForward, NoDelete, dragVars
  <2>4. CASE ForwardFails
    <3>1. forward'.open = forward.open /\ forward'.ids = forward.ids
      BY <2>4 DEF ForwardFails, SelectTyped, ForwardType
    <3> QED
      BY <2>1, <2>4, <3>1, NoneAsked DEF ForwardFails, screenVars, dragVars
  <2> QED
    BY <1>6, <2>2, <2>3, <2>4
<1>7. CASE HandleSelectMessages
  <2>1. "select" \in Slots \ {"menu"} /\ {"drag", "forward", "delete"} \subseteq Slots
    BY DEF Slots
  <2>2. MenuInv'
    BY <1>7, <2>1, FillsFromMenu, MenuHides DEF HandleSelectMessages, MenuItem
  <2>3. PickedInv'
    BY <1>7, <2>1, FillsFromMenu DEF HandleSelectMessages, EnterSelectionMode, dragVars
  <2> QED
    BY <1>7, <2>2, <2>3, NoneAsked DEF HandleSelectMessages
<1>8. CASE OnSelectionForward
  <2>1. /\ {"drag", "forward", "delete"} \subseteq Slots \ {"menu", "select"}
        /\ {"menu", "select"} \subseteq Slots
        /\ "select" \in Slots \ {"menu", "forward"}
    BY DEF Slots
  <2>2. /\ late' \subseteq Slots /\ ("forward" \in late' <=> "select" \in late)
        /\ \A x \in Slots \ {"forward"} : x \in late' <=> x \in late
    BY <1>8, <2>1, FillsFromSlot DEF OnSelectionForward
  <2>3. MenuInv'
    BY <1>8, <2>1, <2>2, MenuRests DEF OnSelectionForward
  <2>4. PickedInv'
    BY <1>8, <2>1, <2>2 DEF OnSelectionForward, OpenForward, dragVars
  <2> QED
    BY <1>8, <2>3, <2>4, NoneAsked DEF OnSelectionForward
<1>9. CASE OnSelectionDelete
  <2>1. /\ {"drag", "forward", "delete"} \subseteq Slots \ {"menu", "select"}
        /\ {"menu", "select"} \subseteq Slots
        /\ "select" \in Slots \ {"menu", "delete"}
    BY DEF Slots
  <2>2. /\ late' \subseteq Slots /\ ("delete" \in late' <=> "select" \in late)
        /\ \A x \in Slots \ {"delete"} : x \in late' <=> x \in late
    BY <1>9, <2>1, FillsFromSlot DEF OnSelectionDelete
  <2>3. MenuInv'
    BY <1>9, <2>1, <2>2, MenuRests DEF OnSelectionDelete
  <2>4. PickedInv'
    BY <1>9, <2>1, <2>2 DEF OnSelectionDelete, OpenDelete, dragVars
  <2> QED
    BY <1>9, <2>3, <2>4, NoneAsked DEF OnSelectionDelete
<1>10. CASE HandleForward
  <2>1. MenuInv'
    BY <1>10, MenuRests DEF HandleForward, MenuInv
  <2>2. forward'.open = forward.open /\ forward'.ids = forward.ids
    BY <1>10 DEF HandleForward, SelectTyped, ForwardType
  <2>3. PickedInv'
    BY <1>10, <2>2 DEF HandleForward, dragVars
  <2> DEFINE homes == {Home[m] : m \in forward.ids}
  <2>4. homes \in SUBSET Chat /\ active \in Chat \cup {NoChat}
    BY ScreenAssumption DEF SelectTyped, ForwardType, MenuInv
  <2>5. "forward" \in late \/ homes \subseteq {active}
    BY <1>10 DEF HandleForward
  <2>6. Asks("forward", active, homes, "forward" \in late)
    BY <1>10 DEF HandleForward
  <2>7. RequestInv'
    <3> HIDE DEF homes
    <3> QED
      BY <2>4, <2>5, <2>6, OneAskedOf DEF Op
  <2> QED
    BY <2>1, <2>3, <2>7
<1>11. ASSUME NEW b \in Batch, NEW everyone \in BOOLEAN, OnDeleteConfirm(b, everyone)
       PROVE  MenuInv' /\ RequestInv' /\ PickedInv'
  <2>1. MenuInv'
    BY <1>11, MenuRests DEF OnDeleteConfirm, MenuInv, Emptied
  <2>2. PickedInv'
    BY <1>11 DEF OnDeleteConfirm, Emptied, NoDelete, dragVars
  <2> QED
    BY <1>11, <2>1, <2>2, NoneAsked DEF OnDeleteConfirm
<1>12. ASSUME NEW b \in Batch, DeleteNext(b) \/ DeleteAnswered(b)
       PROVE  MenuInv' /\ RequestInv' /\ PickedInv'
  <2>1. MenuInv'
    BY <1>12, MenuRests DEF DeleteNext, DeleteAnswered, MenuInv, screenVars
  <2>2. PickedInv'
    BY <1>12 DEF DeleteNext, DeleteAnswered, screenVars, dragVars
  <2> QED
    BY <1>12, <2>1, <2>2, BatchStep
<1>13. ASSUME NEW b \in Batch, DeleteDone(b) PROVE MenuInv' /\ RequestInv' /\ PickedInv'
  <2>1. MenuInv'
    BY <1>13, MenuRests DEF DeleteDone, MenuInv, Emptied
  <2>2. delete'.open = delete.open /\ delete'.ids = {}
    BY <1>13 DEF DeleteDone, SelectTyped, DeleteType
  <2>3. PickedInv'
    BY <1>13, <2>2 DEF DeleteDone, Emptied, ExitSelectionMode, NoSelection, dragVars
  <2> QED
    BY <1>13, <2>1, <2>3, NoneAsked DEF DeleteDone
<1>14. ASSUME NEW c \in Chat \cup {NoChat}, SelectSwitch(c)
       PROVE  MenuInv' /\ RequestInv' /\ PickedInv'
  <2> DEFINE kept == (IF forward.open THEN {"forward"} ELSE {})
                     \cup (IF delete.open THEN {"delete"} ELSE {})
                     \cup (IF drag # NoMessage THEN {"drag"} ELSE {})
  <2>1. kept \in SUBSET Slots /\ SwitchChat(c, kept)
    BY <1>14 DEF SelectSwitch, Slots
  <2>2. MenuInv' /\ RequestInv' /\ kept \subseteq late'
    <3> HIDE DEF kept
    <3> QED
      BY <2>1, Switches
  <2>3. forward'.open = forward.open /\ UNCHANGED <<delete, drag>> /\ selected' = NoSelection
    BY <1>14 DEF SelectSwitch, SelectTyped, ForwardType, ExitSelectionMode, dragVars
  <2>4. PickedInv'
    BY <2>2, <2>3 DEF NoSelection
  <2> QED
    BY <2>2, <2>4
<1> QED
  BY <1>1, <1>2, <1>3, <1>4, <1>5, <1>6, <1>7, <1>8, <1>9, <1>10, <1>11, <1>12, <1>13, <1>14
  DEF SelectNext

\* The deletions that run are those of before, or the step is one of theirs.
LEMMA SelectStep ==
  ASSUME MenuInv, SelectInv, SelectNext
  PROVE  MenuInv' /\ RequestInv' /\ SelectInv'
<1>1. SelectTyped /\ PickedInv /\ BatchInv
  BY SelectParts
<1>2. MenuInv' /\ RequestInv' /\ PickedInv' /\ SelectTyped'
  BY <1>1, PickStep, SelectTypes
<1>3. UNCHANGED batch \/ \E b \in Batch :
             \/ \E everyone \in BOOLEAN : OnDeleteConfirm(b, everyone)
             \/ DeleteNext(b) \/ DeleteAnswered(b) \/ DeleteDone(b)
  BY DEF SelectNext, OnRowClick, OnMouseDown, OnMouseMove, OnSelectMessage, OnForwardMessages,
         OnDeleteMessage, OnMouseUp, HandleSelectMessages, CancelSelection, OnSelectionForward,
         HandleForward, CloseForwardDialog, ForwardFails, OnSelectionDelete, CloseDelete,
         SelectSwitch, selectVars
<1>4. BatchInv'
  BY <1>1, <1>3, BatchStep DEF BatchInv
<1> QED
  BY <1>2, <1>4, SelectPartsNext

-------------------------------------------------------------------------------
\* Attachments, recordings and the voice player.

\* The types of the devices and of the uploads.
MediaTyped == MediaTypeOK /\ attachment \in AttachmentType

UploadsTyped == upload \in [Upload -> UploadType]

\* An upload that begins holds what it was begun with; one that ends holds nothing.
LEMMA Starts ==
  ASSUME UploadsTyped, NEW u \in Upload, NEW op \in Op, NEW of \in SUBSET Chat,
         NEW takes \in SUBSET Take, NEW slot, Start(u, op, of, takes, slot \in late)
  PROVE  /\ UploadsTyped' /\ upload'[u].of = of /\ upload'[u].takes = takes
         /\ upload'[u].late <=> slot \in late
         /\ \A x \in Upload : x # u => upload'[x] = upload[x]
<1>1. PICK wasLate \in BOOLEAN : wasLate <=> slot \in late
  OBVIOUS
<1> DEFINE d == [op |-> op, of |-> of, takes |-> takes, late |-> wasLate]
<1>2. upload' = [upload EXCEPT ![u] = d]
  BY <1>1, Zenon DEF Start
<1>3. d \in UploadType
  BY DEF UploadType
<1>4. d.of = of /\ d.takes = takes /\ d.late = wasLate
  OBVIOUS
<1>5. /\ upload' \in [Upload -> UploadType] /\ upload'[u] = d
      /\ \A x \in Upload : x # u => upload'[x] = upload[x]
  <2> HIDE DEF d
  <2> QED
    BY <1>2, <1>3 DEF UploadsTyped
<1> HIDE DEF d
<1> QED
  BY <1>1, <1>4, <1>5 DEF UploadsTyped

\* An upload that ends leaves the others alone.
LEMMA Ends ==
  ASSUME UploadsTyped, NEW u \in Upload, upload' = [upload EXCEPT ![u] = NoUpload]
  PROVE  /\ UploadsTyped' /\ upload'[u] = NoUpload
         /\ \A x \in Upload : x # u => upload'[x] = upload[x]
<1>1. NoUpload \in UploadType
  BY DEF NoUpload, UploadType, Op
<1> QED
  BY <1>1 DEF UploadsTyped

\* The uploads of a step of the panel's media are of their type.
LEMMA UploadTypes ==
  ASSUME MediaTyped, UploadsTyped, MediaNext
  PROVE  UploadsTyped'
<1>1. ASSUME NEW u \in Upload, OnAttachmentSend(u) PROVE UploadsTyped'
  <2>1. attachment.of \in SUBSET Chat /\ "file" \in Op
    BY DEF MediaTyped, AttachmentType, Op
  <2>2. Start(u, "file", attachment.of, {}, "file" \in late)
    BY <1>1 DEF OnAttachmentSend
  <2> QED
    BY <2>1, <2>2, Starts
<1>2. ASSUME NEW u \in Upload, Uploaded(u) \/ UploadFails(u) PROVE UploadsTyped'
  BY <1>2, Ends DEF Uploaded, UploadFails
<1>3. ASSUME NEW t \in Take, OnStop(t) PROVE UploadsTyped'
  <2>1. madeFor \in SUBSET Chat /\ "voice" \in Op
    BY DEF MediaTyped, MediaTypeOK, Op
  <2>2. chunks' \in SUBSET Take
    BY <1>3 DEF OnStop, LastEvents, MediaTyped, MediaTypeOK
  <2>3. CASE UNCHANGED upload
    BY <2>3 DEF UploadsTyped
  <2>4. ASSUME NEW u \in Upload, Start(u, "voice", madeFor, chunks', "voice" \in late)
        PROVE  UploadsTyped'
    BY <2>1, <2>2, <2>4, Starts
  <2> QED
    BY <1>3, <2>3, <2>4 DEF OnStop
<1>4. ASSUME NEW c \in Chat \cup {NoChat}, MediaSwitch(c) PROVE UploadsTyped'
  <2>1. ASSUME NEW u \in Upload
        PROVE  (IF upload[u] = NoUpload THEN NoUpload ELSE [upload[u] EXCEPT !.late = TRUE])
               \in UploadType
    <3>1. upload[u] \in UploadType
      BY DEF UploadsTyped
    <3>2. [upload[u] EXCEPT !.late = TRUE] \in UploadType
      BY <3>1 DEF UploadType
    <3> QED
      BY <3>1, <3>2
  <2> QED
    BY <1>4, <2>1 DEF MediaSwitch, UploadsTyped
<1> QED
  <2>1. CASE UNCHANGED upload
    BY <2>1 DEF UploadsTyped
  <2> QED
    BY <1>1, <1>2, <1>3, <1>4, <2>1
    DEF MediaNext, ToggleAttachmentMenu, OnAttachmentFileSelected, CancelAttachment, StartRec,
        MicrophoneDenied, StopRec, CancelRec, MicrophoneGranted, StartThrows, RecorderThrows,
        Granted, OnCancelled, ToggleVoice, VoiceEnds, VoiceStalls, VoiceSrcChanges

\* A step of the media keeps the devices typed.
LEMMA MediaTypes ==
  ASSUME MenuInv, MediaTyped, UploadsTyped, TakesInv, MediaNext
  PROVE  MediaTyped'
<1> DEFINE PlayerType == [sound : {"none", "paused", "playing"}, button : BOOLEAN,
                          frame : BOOLEAN]
           Takes == /\ recorder \in Take \cup {NoTake} /\ recording \in BOOLEAN
                    /\ live \subseteq Take /\ chunks \subseteq Take
                    /\ stopping \subseteq Take /\ cancelling \subseteq Take
                    /\ cancelled \subseteq Take /\ astray \subseteq Take
           Devices == /\ prompts \in 0..2 /\ madeFor \subseteq Chat /\ bar \in BOOLEAN
                      /\ Takes
<1>1. Devices /\ attachment \in AttachmentType /\ player \in PlayerType
  BY DEF MediaTyped, MediaTypeOK
<1>2. UploadsTyped'
  BY UploadTypes
<1>3. ASSUME Devices', attachment' \in AttachmentType, player' \in PlayerType
      PROVE  MediaTyped'
  <2>1. attachment'.file \in {"none", "fits", "too large"}
    BY <1>3 DEF AttachmentType
  <2>2. \A u \in Upload : upload'[u].takes \subseteq Take
    BY <1>2 DEF UploadsTyped, UploadType
  <2> QED
    BY <1>3, <2>1, <2>2 DEF MediaTyped, MediaTypeOK
<1>4. CASE ToggleAttachmentMenu \/ CancelAttachment \/ \E u \in Upload : OnAttachmentSend(u)
  <2>1. attachment' \in AttachmentType
    BY <1>1, <1>4 DEF ToggleAttachmentMenu, CancelAttachment, OnAttachmentSend, AttachmentType
  <2>2. Devices' /\ player' \in PlayerType
    BY <1>1, <1>4 DEF ToggleAttachmentMenu, CancelAttachment, OnAttachmentSend, recVars, takeVars
  <2> HIDE DEF Devices, PlayerType
  <2> QED
    BY <1>3, <2>1, <2>2
<1>5. CASE OnAttachmentFileSelected
  <2>1. attachment' \in AttachmentType
    <3>1. PICK size \in {"fits", "too large"} :
            attachment' = [menu |-> FALSE, file |-> size, of |-> {active}]
      BY <1>5 DEF OnAttachmentFileSelected
    <3>2. {active} \in SUBSET Chat
      BY <1>5 DEF OnAttachmentFileSelected, MenuInv
    <3> QED
      BY <3>1, <3>2 DEF AttachmentType
  <2>2. Devices' /\ player' \in PlayerType
    BY <1>1, <1>5 DEF OnAttachmentFileSelected, recVars, takeVars
  <2> HIDE DEF Devices, PlayerType
  <2> QED
    BY <1>3, <2>1, <2>2
<1>6. CASE \E u \in Upload : Uploaded(u) \/ UploadFails(u)
  <2>1. Devices' /\ player' \in PlayerType /\ attachment' \in AttachmentType
    BY <1>1, <1>6 DEF Uploaded, UploadFails, recVars, takeVars
  <2> HIDE DEF Devices, PlayerType
  <2> QED
    BY <1>3, <2>1
<1>7. CASE StartRec \/ MicrophoneDenied \/ StopRec \/ CancelRec
           \/ \E t \in Take : \/ MicrophoneGranted(t) \/ StartThrows(t) \/ RecorderThrows(t)
                           \/ OnStop(t) \/ OnCancelled(t)
  <2>1. attachment' \in AttachmentType /\ player' \in PlayerType
    BY <1>1, <1>7 DEF StartRec, MicrophoneDenied, StopRec, CancelRec, MicrophoneGranted,
                      StartThrows, RecorderThrows, Granted, OnStop, OnCancelled, LastEvents
  <2>2. Running \subseteq Take /\ Displaced \subseteq Take
    <3>1. recording => recorder \in Take
      BY DEF TakesInv, Records, MediaTyped, MediaTypeOK
    <3> QED
      BY <1>1, <3>1 DEF Running, Displaced
  <2>3. ASSUME StartRec PROVE Devices'
    BY <1>1, <2>3 DEF StartRec, MenuInv, takeVars
  <2>4. ASSUME MicrophoneDenied PROVE Devices'
    <3>1. prompts' \in 0..2
      BY <1>1, <2>4 DEF MicrophoneDenied
    <3> QED
      BY <1>1, <2>2, <2>4, <3>1 DEF MicrophoneDenied
  <2>5. ASSUME StopRec PROVE Devices'
    <3>1. recording => recorder \in Take
      BY DEF TakesInv, Records, MediaTyped, MediaTypeOK
    <3> QED
      BY <1>1, <2>5, <3>1 DEF StopRec
  <2>6. ASSUME CancelRec PROVE Devices'
    BY <1>1, <2>2, <2>6 DEF CancelRec
  <2>7. ASSUME NEW t \in Take, OnStop(t) \/ OnCancelled(t) PROVE Devices'
    BY <1>1, <2>7 DEF OnStop, OnCancelled, LastEvents
  <2>8. ASSUME NEW t \in Take, MicrophoneGranted(t) \/ StartThrows(t) \/ RecorderThrows(t)
        PROVE  Devices'
    <3>1. prompts' \in 0..2
      BY <1>1, <2>8 DEF MicrophoneGranted, StartThrows, RecorderThrows, Granted
    <3>2. /\ live' = live \cup {t} /\ chunks' = {}
          /\ UNCHANGED <<madeFor, stopping, cancelling, cancelled>>
      BY <2>8 DEF MicrophoneGranted, StartThrows, RecorderThrows, Granted
    <3>3. /\ recorder' \in {recorder, t} /\ recording' \in BOOLEAN /\ bar' \in BOOLEAN
          /\ astray' \subseteq astray \cup Displaced \cup Running \cup {t}
      BY <1>1, <2>8 DEF MicrophoneGranted, StartThrows, RecorderThrows
    <3> QED
      BY <1>1, <2>2, <3>1, <3>2, <3>3
  <2>9. Devices'
    BY <1>7, <2>3, <2>4, <2>5, <2>6, <2>7, <2>8
  <2> HIDE DEF Devices, PlayerType
  <2> QED
    BY <1>3, <2>1, <2>9
<1>8. CASE \/ ToggleVoice \/ VoiceEnds \/ VoiceStalls \/ VoiceSrcChanges
           \/ \E c \in Chat \cup {NoChat} : MediaSwitch(c)
  <2>1. player' \in PlayerType
    <3>1. CASE ToggleVoice \/ VoiceEnds
      <4>1. \A s \in {"paused", "playing"}, b \in BOOLEAN, f \in BOOLEAN :
              [sound |-> s, button |-> b, frame |-> f] \in PlayerType
        OBVIOUS
      <4>2. /\ [sound |-> "paused", button |-> FALSE, frame |-> FALSE] \in PlayerType
            /\ [sound |-> "playing", button |-> TRUE, frame |-> TRUE] \in PlayerType
        BY <4>1
      <4> HIDE DEF PlayerType
      <4> QED
        BY <3>1, <4>2 DEF ToggleVoice, VoiceEnds
    <3>2. CASE VoiceStalls
      BY <1>1, <3>2 DEF VoiceStalls
    <3>3. CASE player' = DropVoice(player)
      BY <1>1, <3>3 DEF DropVoice, NoPlayer
    <3> QED
      BY <1>8, <3>1, <3>2, <3>3 DEF VoiceSrcChanges, MediaSwitch
  <2>2. Devices' /\ attachment' \in AttachmentType
    BY <1>1, <1>8 DEF ToggleVoice, VoiceEnds, VoiceStalls, VoiceSrcChanges, MediaSwitch,
                      recVars, takeVars
  <2> HIDE DEF Devices, PlayerType
  <2> QED
    BY <1>3, <2>1, <2>2
<1> QED
  BY <1>4, <1>5, <1>6, <1>7, <1>8 DEF MediaNext

\* A step of the media that makes no request, and changes only the chat's own slots.
LEMMA MediaMenu ==
  ASSUME MenuInv, MediaTyped, UploadsTyped, MediaOwn, MediaNext
  PROVE  MenuInv' /\ RequestInv'
<1>1. CASE OnAttachmentFileSelected \/ StartRec
  <2>1. late' \subseteq Slots /\ ("menu" \in late' <=> "menu" \in late)
    BY <1>1 DEF OnAttachmentFileSelected, StartRec, Filled, MenuInv
  <2> QED
    BY <1>1, <2>1, MenuRests, NoneAsked DEF OnAttachmentFileSelected, StartRec
<1>2. ASSUME NEW u \in Upload, Uploaded(u) PROVE MenuInv' /\ RequestInv'
  <2>1. MenuInv'
    BY <1>2, MenuRests DEF Uploaded, MenuInv
  <2>2. upload[u] \in UploadType
    BY DEF UploadsTyped
  <2>3. /\ upload[u].op \in Op /\ upload[u].of \in SUBSET Chat /\ upload[u].late \in BOOLEAN
        /\ active \in Chat \cup {NoChat}
    BY <2>2 DEF UploadType, MenuInv
  <2>4. upload[u].late \/ upload[u].of \subseteq {active}
    BY DEF MediaOwn
  <2>5. Asks(upload[u].op, active, upload[u].of, upload[u].late)
    BY <1>2 DEF Uploaded
  <2>6. RequestInv'
    BY <2>3, <2>4, <2>5, OneAsked
  <2> QED
    BY <2>1, <2>6
<1>3. ASSUME NEW c \in Chat \cup {NoChat}, MediaSwitch(c) PROVE MenuInv' /\ RequestInv'
  <2> DEFINE kept == (IF attachment.file = "none" THEN {} ELSE {"file"})
                     \cup (IF bar \/ prompts > 0 \/ stopping # {} THEN {"voice"} ELSE {})
  <2>1. kept \in SUBSET Slots /\ SwitchChat(c, kept)
    BY <1>3 DEF MediaSwitch, Slots
  <2> HIDE DEF kept
  <2> QED
    BY <2>1, Switches
<1>4. CASE UNCHANGED screenVars /\ Quiet
  <2>1. MenuInv'
    BY <1>4, MenuRests DEF screenVars, MenuInv
  <2> QED
    BY <1>4, <2>1, NoneAsked
<1> QED
  BY <1>1, <1>2, <1>3, <1>4
  DEF MediaNext, ToggleAttachmentMenu, CancelAttachment, OnAttachmentSend, UploadFails,
      MicrophoneDenied, StopRec, CancelRec, MicrophoneGranted, StartThrows, RecorderThrows,
      Granted, OnStop, OnCancelled, LastEvents, ToggleVoice, VoiceEnds, VoiceStalls,
      VoiceSrcChanges

\* A step of the media keeps every file, recording and upload of the chat on screen, or
\* known to be late.
LEMMA OwnStep ==
  ASSUME MenuInv, MediaTyped, UploadsTyped, MediaOwn, MediaNext
  PROVE  MediaOwn'
<1> DEFINE File == attachment.file # "none" /\ "file" \notin late
                   => attachment.of \subseteq {active}
           Voice == (bar \/ prompts > 0 \/ stopping # {}) /\ "voice" \notin late
                    => madeFor \subseteq {active}
           Uploads == \A u \in Upload : ~upload[u].late => upload[u].of \subseteq {active}
<1>0. File /\ Voice /\ Uploads /\ (MediaOwn' <=> File' /\ Voice' /\ Uploads')
  BY DEF MediaOwn
<1>1. CASE ToggleAttachmentMenu \/ CancelAttachment
  <2>1. attachment'.file \in {attachment.file, "none"} /\ attachment'.of = attachment.of
    BY <1>1 DEF ToggleAttachmentMenu, CancelAttachment, MediaTyped, AttachmentType
  <2>2. UNCHANGED <<active, late, bar, prompts, stopping, madeFor, upload>>
    BY <1>1 DEF ToggleAttachmentMenu, CancelAttachment, screenVars, recVars, takeVars
  <2> QED
    BY <1>0, <2>1, <2>2
<1>2. CASE OnAttachmentFileSelected
  <2>1. attachment'.of = {active}
    <3>1. PICK size : attachment' = [menu |-> FALSE, file |-> size, of |-> {active}]
      BY <1>2 DEF OnAttachmentFileSelected
    <3> QED
      BY <3>1
  <2>2. UNCHANGED <<active, bar, prompts, stopping, madeFor, upload>>
        /\ late' = late \ {"file"}
    BY <1>2 DEF OnAttachmentFileSelected, Filled, recVars, takeVars
  <2> QED
    BY <1>0, <2>1, <2>2
<1>3. ASSUME NEW u \in Upload, OnAttachmentSend(u) PROVE MediaOwn'
  <2>1. attachment.of \in SUBSET Chat /\ "file" \in Op
    BY DEF MediaTyped, AttachmentType, Op
  <2>2. Start(u, "file", attachment.of, {}, "file" \in late)
    BY <1>3 DEF OnAttachmentSend
  <2>3. /\ upload'[u].of = attachment.of /\ (upload'[u].late <=> "file" \in late)
        /\ \A x \in Upload : x # u => upload'[x] = upload[x]
    BY <2>1, <2>2, Starts
  <2>4. attachment.file # "none" /\ attachment'.file = "none"
    BY <1>3 DEF OnAttachmentSend, MediaTyped, AttachmentType
  <2>5. UNCHANGED <<active, late, bar, prompts, stopping, madeFor>>
    BY <1>3 DEF OnAttachmentSend, screenVars, recVars, takeVars
  <2>6. Uploads'
    BY <1>0, <2>3, <2>4, <2>5
  <2> QED
    BY <1>0, <2>4, <2>5, <2>6
<1>4. ASSUME NEW u \in Upload, Uploaded(u) \/ UploadFails(u) PROVE MediaOwn'
  <2>1. /\ upload'[u] = NoUpload
        /\ \A x \in Upload : x # u => upload'[x] = upload[x]
    BY <1>4, Ends DEF Uploaded, UploadFails
  <2>2. UNCHANGED <<active, late, attachment, bar, prompts, stopping, madeFor>>
    BY <1>4 DEF Uploaded, UploadFails, screenVars, recVars, takeVars
  <2>3. Uploads'
    BY <1>0, <2>1, <2>2 DEF NoUpload
  <2> QED
    BY <1>0, <2>2, <2>3
<1>5. CASE StartRec
  BY <1>0, <1>5 DEF StartRec, Filled
<1>6. CASE MicrophoneDenied \/ StopRec \/ CancelRec
           \/ \E t \in Take : \/ MicrophoneGranted(t) \/ StartThrows(t) \/ RecorderThrows(t)
                           \/ OnCancelled(t)
  <2>1. UNCHANGED <<active, late, attachment, madeFor, upload>>
    BY <1>6 DEF MicrophoneDenied, StopRec, CancelRec, MicrophoneGranted, StartThrows,
                RecorderThrows, Granted, OnCancelled, LastEvents, screenVars
  <2>2. (bar \/ prompts > 0 \/ stopping # {})' => bar \/ prompts > 0 \/ stopping # {}
    BY <1>6 DEF MicrophoneDenied, StopRec, CancelRec, MicrophoneGranted, StartThrows,
                RecorderThrows, Granted, OnCancelled, LastEvents
  <2> QED
    BY <1>0, <2>1, <2>2
<1>7. ASSUME NEW t \in Take, OnStop(t) PROVE MediaOwn'
  <2>1. UNCHANGED <<active, late, attachment, madeFor, prompts>> /\ ~bar' /\ stopping # {}
    BY <1>7 DEF OnStop, LastEvents, screenVars
  <2>2. File' /\ Voice'
    BY <1>0, <2>1
  <2>3. CASE UNCHANGED upload
    BY <1>0, <2>1, <2>2, <2>3
  <2>4. ASSUME NEW u \in Upload, Start(u, "voice", madeFor, chunks', "voice" \in late)
        PROVE  MediaOwn'
    <3>1. madeFor \in SUBSET Chat /\ "voice" \in Op /\ chunks' \in SUBSET Take
      BY <1>7 DEF MediaTyped, MediaTypeOK, Op, OnStop, LastEvents
    <3>2. /\ upload'[u].of = madeFor /\ (upload'[u].late <=> "voice" \in late)
          /\ \A x \in Upload : x # u => upload'[x] = upload[x]
      BY <2>4, <3>1, Starts
    <3>3. Uploads'
      BY <1>0, <2>1, <3>2
    <3> QED
      BY <1>0, <2>2, <3>3
  <2> QED
    BY <1>7, <2>3, <2>4 DEF OnStop
<1>8. CASE ToggleVoice \/ VoiceEnds \/ VoiceStalls \/ VoiceSrcChanges
  <2>1. UNCHANGED <<active, late, attachment, bar, prompts, stopping, madeFor, upload>>
    BY <1>8 DEF ToggleVoice, VoiceEnds, VoiceStalls, VoiceSrcChanges, screenVars, recVars, takeVars
  <2> QED
    BY <1>0, <2>1
<1>9. ASSUME NEW c \in Chat \cup {NoChat}, MediaSwitch(c) PROVE MediaOwn'
  <2> DEFINE kept == (IF attachment.file = "none" THEN {} ELSE {"file"})
                     \cup (IF bar \/ prompts > 0 \/ stopping # {} THEN {"voice"} ELSE {})
  <2>1. kept \in SUBSET Slots /\ SwitchChat(c, kept)
    BY <1>9 DEF MediaSwitch, Slots
  <2>2. kept \subseteq late'
    <3> HIDE DEF kept
    <3> QED
      BY <2>1, Switches
  <2>3. UNCHANGED <<attachment, madeFor, bar, prompts, stopping>>
    BY <1>9 DEF MediaSwitch, recVars, takeVars
  <2>4. ASSUME NEW u \in Upload, ~upload'[u].late PROVE upload'[u].of = {}
    <3>1. CASE upload[u] = NoUpload
      BY <1>9, <3>1 DEF MediaSwitch, NoUpload
    <3>2. CASE upload[u] # NoUpload
      <4>1. upload'[u] = [upload[u] EXCEPT !.late = TRUE] /\ upload[u] \in UploadType
        BY <1>9, <3>2 DEF MediaSwitch, UploadsTyped
      <4> QED
        BY <2>4, <4>1 DEF UploadType
    <3> QED
      BY <3>1, <3>2
  <2>5. File' /\ Voice'
    BY <2>2, <2>3
  <2>6. Uploads'
    BY <2>4
  <2> QED
    BY <1>0, <2>5, <2>6
<1> QED
  BY <1>1, <1>2, <1>3, <1>4, <1>5, <1>6, <1>7, <1>8, <1>9 DEF MediaNext

\* What the recordings and uploads hold stays right as long as none of them moves.
LEMMA TakesRest ==
  ASSUME TakesInv, UNCHANGED <<takeVars, bar, upload>>
  PROVE  TakesInv'
BY DEF TakesInv, takeVars, Reached, Records, Shows, Unmixed, CancelledNeverSent

\* It also does when an upload of a file begins, ends or is marked late.
LEMMA TakesKept ==
  ASSUME TakesInv, UNCHANGED <<takeVars, bar>>,
         \A u \in Upload : upload'[u].takes \in {upload[u].takes, {}}
  PROVE  TakesInv'
<1>1. Reached' /\ Shows' /\ Unmixed'
  BY DEF TakesInv, takeVars, Reached, Shows, Unmixed
<1>2. Records' /\ CancelledNeverSent'
  BY DEF TakesInv, takeVars, Records, CancelledNeverSent
<1> QED
  BY <1>1, <1>2 DEF TakesInv

\* A stream that is given leaves what is out of reach to history.
LEMMA GrantedTakes ==
  ASSUME TakesInv, NEW t \in Take,
         MicrophoneGranted(t) \/ StartThrows(t) \/ RecorderThrows(t)
  PROVE  TakesInv'
<1>1. /\ t \notin live \cup chunks \cup stopping \cup cancelling \cup cancelled \cup astray
      /\ t # recorder /\ \A u \in Upload : t \notin upload[u].takes
      /\ live' = live \cup {t} /\ chunks' = {}
      /\ UNCHANGED <<stopping, cancelling, cancelled, upload>>
  BY DEF MicrophoneGranted, StartThrows, RecorderThrows, Granted
<1>2. astray \subseteq astray'
  BY DEF MicrophoneGranted, StartThrows, RecorderThrows
<1>3. CancelledNeverSent'
  BY <1>1, <1>2 DEF TakesInv, CancelledNeverSent
<1>4. Unmixed'
  BY <1>1 DEF TakesInv, Unmixed
<1>5. CASE recorder' = t /\ astray \cup Displaced \subseteq astray'
           /\ \/ recording' = TRUE /\ bar' = TRUE
              \/ recording' = FALSE /\ t \in astray'
  BY <1>1, <1>3, <1>4, <1>5 DEF TakesInv, Displaced, Reached, Records, Shows
<1>6. CASE RecorderThrows(t)
  BY <1>1, <1>3, <1>4, <1>6 DEF RecorderThrows, Running, TakesInv, Reached, Records, Shows
<1>7. CASE MicrophoneGranted(t)
  <2>1. recorder' = t /\ recording' = TRUE /\ bar' = TRUE /\ astray' = astray \cup Displaced
    BY <1>7 DEF MicrophoneGranted
  <2>2. astray \cup Displaced \subseteq astray'
    BY <2>1
  <2> QED
    BY <1>5, <2>1, <2>2
<1>8. CASE StartThrows(t)
  <2>1. recorder' = t /\ recording' = FALSE /\ astray' = astray \cup Displaced \cup {t}
    BY <1>8 DEF StartThrows
  <2> QED
    BY <1>5, <2>1
<1> QED
  BY <1>6, <1>7, <1>8

\* The last events of a recording end the tracks of the variable's recorder, and what
\* becomes a file has no cancelled part unless one of it is out of reach.
LEMMA LastTakes ==
  ASSUME MediaTyped, UploadsTyped, TakesInv, NEW t \in Take, OnStop(t) \/ OnCancelled(t)
  PROVE  TakesInv'
<1>1. /\ chunks' = chunks \cup {t} /\ live' = live \ {recorder} /\ ~recording'
      /\ UNCHANGED <<recorder, cancelled, astray>>
  BY DEF OnStop, OnCancelled, LastEvents
<1>2. stopping' \cup cancelling' \subseteq stopping \cup cancelling /\ cancelling' \subseteq cancelling
      /\ stopping' \subseteq stopping
  BY DEF OnStop, OnCancelled
<1>3. Reached' /\ Records' /\ Shows'
  BY <1>1, <1>2 DEF TakesInv, Reached, Records, Shows
<1>4. CASE OnStop(t)
  <2>1. t \in stopping
    BY <1>4 DEF OnStop
  <2>2. chunks' \cap cancelled # {} => chunks' \cap astray # {}
    <3>1. CASE t \in astray
      BY <1>1, <3>1
    <3>2. CASE t \notin astray
      <4>1. t = recorder /\ t \notin cancelled
        BY <2>1, <3>2 DEF TakesInv, Reached, Unmixed
      <4>2. chunks \cap cancelled \subseteq astray
        BY <2>1, <4>1 DEF TakesInv, Unmixed
      <4> QED
        BY <1>1, <4>1, <4>2
    <3> QED
      BY <3>1, <3>2
  <2>3. Unmixed'
    BY <1>1, <1>2, <2>1 DEF TakesInv, Unmixed
  <2>4. CancelledNeverSent'
    <3>1. CASE UNCHANGED upload
      BY <1>1, <3>1 DEF TakesInv, CancelledNeverSent
    <3>2. ASSUME NEW u \in Upload, Start(u, "voice", madeFor, chunks', "voice" \in late)
          PROVE  CancelledNeverSent'
      <4>1. madeFor \in SUBSET Chat /\ "voice" \in Op /\ chunks' \in SUBSET Take
        BY <1>1 DEF MediaTyped, MediaTypeOK, Op
      <4>2. upload'[u].takes = chunks' /\ \A x \in Upload : x # u => upload'[x] = upload[x]
        BY <3>2, <4>1, Starts
      <4> QED
        BY <1>1, <2>2, <4>2 DEF TakesInv, CancelledNeverSent
    <3> QED
      BY <1>4, <3>1, <3>2 DEF OnStop
  <2> QED
    BY <1>3, <2>3, <2>4 DEF TakesInv
<1>5. CASE OnCancelled(t)
  <2>1. UNCHANGED upload /\ t \in cancelled
    BY <1>5 DEF OnCancelled, TakesInv, Unmixed
  <2>2. CancelledNeverSent'
    BY <1>1, <2>1 DEF TakesInv, CancelledNeverSent
  <2>3. Unmixed'
    <3>1. recorder \in stopping' => t \in astray
      BY <1>5, <2>1 DEF OnCancelled, TakesInv, Unmixed, Reached
    <3> QED
      BY <1>1, <1>2, <3>1 DEF TakesInv, Unmixed
  <2> QED
    BY <1>3, <2>2, <2>3 DEF TakesInv
<1> QED
  BY <1>4, <1>5

\* A step of the media keeps the takes right: what runs is reached from the panel or known
\* to be out of reach, and so is what a file has of a cancelled recording.
LEMMA TakesStep ==
  ASSUME MediaTyped, UploadsTyped, TakesInv, MediaNext
  PROVE  TakesInv'
<1>1. ASSUME NEW u \in Upload, OnAttachmentSend(u) PROVE TakesInv'
  <2>1. attachment.of \in SUBSET Chat /\ "file" \in Op
    BY DEF MediaTyped, AttachmentType, Op
  <2>2. Start(u, "file", attachment.of, {}, "file" \in late)
    BY <1>1 DEF OnAttachmentSend
  <2>3. upload'[u].takes = {} /\ \A x \in Upload : x # u => upload'[x] = upload[x]
    BY <2>1, <2>2, Starts
  <2>4. UNCHANGED <<takeVars, bar>>
    BY <1>1 DEF OnAttachmentSend, recVars
  <2> QED
    BY <2>3, <2>4, TakesKept
<1>2. ASSUME NEW u \in Upload, Uploaded(u) \/ UploadFails(u) PROVE TakesInv'
  <2>1. upload'[u] = NoUpload /\ \A x \in Upload : x # u => upload'[x] = upload[x]
    BY <1>2, Ends DEF Uploaded, UploadFails
  <2>2. UNCHANGED <<takeVars, bar>>
    BY <1>2 DEF Uploaded, UploadFails, recVars
  <2> QED
    BY <2>1, <2>2, TakesKept DEF NoUpload
<1>3. ASSUME NEW t \in Take, \/ MicrophoneGranted(t) \/ StartThrows(t) \/ RecorderThrows(t)
                             \/ OnStop(t) \/ OnCancelled(t)
      PROVE  TakesInv'
  BY <1>3, GrantedTakes, LastTakes
<1>4. CASE MicrophoneDenied
  <2>1. /\ ~bar' /\ astray' = astray \cup Running
        /\ UNCHANGED <<recorder, recording, live, chunks, stopping, cancelling, cancelled, upload>>
    BY <1>4 DEF MicrophoneDenied
  <2>2. Reached' /\ Records' /\ Shows' /\ Unmixed'
    BY <2>1 DEF TakesInv, Running, Reached, Records, Shows, Unmixed
  <2>3. CancelledNeverSent'
    BY <2>1 DEF TakesInv, CancelledNeverSent
  <2> QED
    BY <2>2, <2>3 DEF TakesInv
<1>5. CASE StopRec
  <2>1. UNCHANGED <<recorder, live, chunks, cancelling, cancelled, astray, upload>>
    BY <1>5 DEF StopRec
  <2>2. CASE recording /\ stopping' = stopping \cup {recorder} /\ ~recording'
    BY <2>1, <2>2 DEF TakesInv, Reached, Records, Shows, Unmixed, CancelledNeverSent
  <2>3. CASE ~recording /\ UNCHANGED <<stopping, recording>>
    BY <2>1, <2>3 DEF TakesInv, Reached, Records, Shows, Unmixed, CancelledNeverSent
  <2> QED
    BY <1>5, <2>2, <2>3 DEF StopRec
<1>6. CASE CancelRec
  <2>1. /\ cancelling' = cancelling \cup Running /\ cancelled' = cancelled \cup Running
        /\ ~recording' /\ UNCHANGED <<recorder, live, chunks, stopping, astray, upload>>
    BY <1>6 DEF CancelRec
  <2>2. Reached' /\ Records' /\ Shows'
    BY <2>1 DEF TakesInv, Running, Reached, Records, Shows
  <2>3. Unmixed' /\ CancelledNeverSent'
    BY <2>1 DEF TakesInv, Running, Records, Unmixed, CancelledNeverSent
  <2> QED
    BY <2>2, <2>3 DEF TakesInv
<1>7. ASSUME NEW c \in Chat \cup {NoChat}, MediaSwitch(c) PROVE TakesInv'
  <2>1. UNCHANGED <<takeVars, bar>>
    BY <1>7 DEF MediaSwitch, recVars
  <2>2. ASSUME NEW u \in Upload PROVE upload'[u].takes = upload[u].takes
    <3>1. upload[u] \in UploadType
      BY DEF UploadsTyped
    <3>2. CASE upload[u] = NoUpload
      BY <1>7, <3>2 DEF MediaSwitch
    <3>3. CASE upload[u] # NoUpload
      <4>1. upload'[u] = [upload[u] EXCEPT !.late = TRUE]
        BY <1>7, <3>3 DEF MediaSwitch
      <4> QED
        BY <3>1, <4>1 DEF UploadType
    <3> QED
      BY <3>2, <3>3
  <2> QED
    BY <2>1, <2>2, TakesKept
<1>8. CASE StartRec \/ ToggleAttachmentMenu \/ OnAttachmentFileSelected \/ CancelAttachment
           \/ ToggleVoice \/ VoiceEnds \/ VoiceStalls \/ VoiceSrcChanges
  <2>1. UNCHANGED <<takeVars, bar, upload>>
    BY <1>8 DEF StartRec, ToggleAttachmentMenu, OnAttachmentFileSelected, CancelAttachment,
                ToggleVoice, VoiceEnds, VoiceStalls, VoiceSrcChanges, recVars
  <2> QED
    BY <2>1, TakesRest
<1> QED
  BY <1>1, <1>2, <1>3, <1>4, <1>5, <1>6, <1>7, <1>8 DEF MediaNext

\* The player of a bubble plays only with the bubble on screen and its button offering to
\* pause it.
LEMMA PlayerStep ==
  ASSUME MediaTyped, VoiceSeen, MediaNext
  PROVE  VoiceSeen'
<1> USE DEF VoiceSeen
<1>1. CASE ToggleVoice
  BY <1>1 DEF ToggleVoice, screenVars
<1>2. CASE VoiceEnds
  BY <1>2 DEF VoiceEnds
<1>3. CASE VoiceStalls
  <2>1. player'.sound = "paused"
    BY <1>3 DEF VoiceStalls, MediaTyped, MediaTypeOK
  <2> QED
    BY <2>1
<1>4. CASE player' = DropVoice(player)
  BY <1>4 DEF DropVoice, NoPlayer
<1>5. CASE UNCHANGED <<player, active>>
  BY <1>5
<1> QED
  BY <1>1, <1>2, <1>3, <1>4, <1>5
  DEF MediaNext, ToggleAttachmentMenu, OnAttachmentFileSelected, CancelAttachment,
      OnAttachmentSend, Uploaded, UploadFails, StartRec, MicrophoneDenied, StopRec, CancelRec,
      MicrophoneGranted, StartThrows, RecorderThrows, Granted, OnStop, OnCancelled, LastEvents,
      VoiceSrcChanges, MediaSwitch, screenVars

\* The invariants of files and recordings survive every step of that part.
LEMMA MediaStep ==
  ASSUME MenuInv, MediaInv, MediaNext
  PROVE  MenuInv' /\ RequestInv' /\ MediaInv'
<1>1. MediaTyped /\ UploadsTyped /\ MediaOwn /\ TakesInv /\ VoiceSeen
  BY DEF MediaInv, MediaTyped, UploadsTyped
<1>2. MediaTyped' /\ UploadsTyped' /\ MediaOwn' /\ TakesInv' /\ VoiceSeen'
  BY <1>1, MediaTypes, UploadTypes, OwnStep, TakesStep, PlayerStep
<1>3. MenuInv' /\ RequestInv'
  BY <1>1, MediaMenu
<1> QED
  BY <1>2, <1>3 DEF MediaInv, MediaTyped, UploadsTyped

-------------------------------------------------------------------------------
\* Search, pins and jumps.

\* Searches that run are of the chat on screen, as their results are.
SearchInv ==
  /\ searchMode \in BOOLEAN /\ {query, timer} \subseteq Query \cup {""}
  /\ lookups \subseteq [chat : Chat, q : Query \cup {""}, more : BOOLEAN]
  /\ searching \in BOOLEAN /\ results \subseteq Message /\ more \in BOOLEAN
  /\ \A m \in results : Home[m] = active
  /\ \A k \in lookups : k.chat = active
  /\ searchMode => active # NoChat

\* What is held of a chat is the chat's.
HeldInv ==
  /\ held \in [Chat -> SUBSET Message] /\ jumps \subseteq [chat : Chat, to : Message]
  /\ pending \in Message \cup {NoMessage}
  /\ \A c \in Chat : held[c] \subseteq In(c)

PinsTyped ==
  pinned \in [Chat -> Message \cup {NoMessage}] /\ dismissed \subseteq Chat

\* The invariant of searches, jumps and pins in its three parts,
LEMMA FindParts == FindInv <=> SearchInv /\ HeldInv /\ PinsTyped
BY DEF FindInv, SearchInv, HeldInv, PinsTyped, FindTypeOK, NothingOfOtherChats

\* and the same of the next state.
LEMMA FindPartsNext == FindInv' <=> SearchInv' /\ HeldInv' /\ PinsTyped'
BY DEF FindInv, SearchInv, HeldInv, PinsTyped, FindTypeOK, NothingOfOtherChats

\* A search bar that is gone holds nothing.
LEMMA GoneSearch == SearchGone => SearchInv'
BY DEF SearchGone, SearchInv

\* What the search holds stays right as long as neither it nor the active chat moves.
LEMMA SearchRests ==
  ASSUME SearchInv, UNCHANGED <<active, searchVars>>
  PROVE  SearchInv'
BY DEF SearchInv, searchVars

\* A step of the search keeps what it shows to the chat on screen.
LEMMA SearchStep ==
  ASSUME MenuInv, SearchInv, FindNext
  PROVE  SearchInv'
<1>1. CASE OpenSearch
  BY <1>1 DEF OpenSearch, SearchInv, screenVars
<1>2. ASSUME NEW q \in Query \cup {""}, TypeQuery(q) PROVE SearchInv'
  <2>1. UNCHANGED <<active, searchMode, lookups, searching>> /\ query' = q /\ timer' = q
    BY <1>2 DEF TypeQuery, screenVars
  <2>2. \/ results' = {} /\ more' = TRUE
        \/ UNCHANGED <<results, more>>
    BY <1>2 DEF TypeQuery
  <2> QED
    BY <2>1, <2>2 DEF SearchInv
<1>3. CASE DoSearch
  <2> DEFINE k == [chat |-> active, q |-> timer, more |-> FALSE]
  <2>1. /\ lookups' = lookups \cup {k} /\ timer' = "" /\ more' = TRUE /\ searching' = TRUE
        /\ UNCHANGED <<active, searchMode, query, results>>
    BY <1>3 DEF DoSearch, screenVars
  <2>2. active \in Chat /\ timer \in Query
    BY <1>3 DEF DoSearch, MenuInv, SearchInv
  <2>3. k \in [chat : Chat, q : Query \cup {""}, more : BOOLEAN] /\ k.chat = active
    BY <2>2
  <2> HIDE DEF k
  <2> QED
    BY <2>1, <2>3 DEF SearchInv
<1>4. CASE LoadMore
  <2> DEFINE k == [chat |-> active, q |-> query, more |-> TRUE]
  <2>1. /\ lookups' = lookups \cup {k} /\ searching' = TRUE
        /\ UNCHANGED <<active, searchMode, query, timer, results, more>>
    BY <1>4 DEF LoadMore, screenVars
  <2>2. active \in Chat /\ query \in Query \cup {""}
    BY <1>4 DEF LoadMore, MenuInv, SearchInv
  <2>3. k \in [chat : Chat, q : Query \cup {""}, more : BOOLEAN] /\ k.chat = active
    BY <2>2
  <2> HIDE DEF k
  <2> QED
    BY <2>1, <2>3 DEF SearchInv
<1>5. ASSUME NEW k \in lookups, SearchAnswered(k) PROVE SearchInv'
  <2>1. PICK page \in SUBSET In(k.chat), last \in BOOLEAN :
             /\ results' = IF k.more THEN results \cup page ELSE page
             /\ more' = (more /\ ~last)
    BY <1>5 DEF SearchAnswered
  <2>2. k.chat = active /\ page \subseteq Message /\ \A m \in page : Home[m] = active
    BY DEF SearchInv, In
  <2>3. /\ lookups' = lookups \ {k} /\ searching' = FALSE
        /\ UNCHANGED <<active, searchMode, query, timer>>
    BY <1>5 DEF SearchAnswered, screenVars
  <2>4. results' \subseteq Message /\ \A m \in results' : Home[m] = active
    BY <2>1, <2>2 DEF SearchInv
  <2>5. more' \in BOOLEAN
    BY <2>1
  <2> QED
    BY <2>3, <2>4, <2>5 DEF SearchInv
<1>6. ASSUME NEW k \in lookups, SearchFails(k) PROVE SearchInv'
  <2>1. lookups' = lookups \ {k} /\ searching' = FALSE /\ results' \subseteq results
        /\ UNCHANGED <<active, searchMode, query, timer, more>>
    BY <1>6 DEF SearchFails, screenVars
  <2> QED
    BY <2>1 DEF SearchInv
<1>7. CASE SearchGone
  BY <1>7, GoneSearch
<1>8. CASE UNCHANGED <<active, searchVars>>
  BY <1>8, SearchRests
<1> QED
  BY <1>1, <1>2, <1>3, <1>4, <1>5, <1>6, <1>7, <1>8
  DEF FindNext, SearchNext, PinNext, JumpNext, FindSwitch, CloseSearch, OnSearchJump, HandlePin,
      HandleUnpin, ShowMenu, ShowAreaMenu, ClickOutside, findVars, OnPinClick, DismissPin,
      PinEvent, OnReplyClick, DeepLink, PendingScroll, JumpAnswered, screenVars

\* A jump fetches from the chat on screen.
LEMMA JumpTypes ==
  ASSUME MenuInv, HeldInv, NEW m \in Message, Jumps(m)
  PROVE  jumps' \subseteq [chat : Chat, to : Message]
BY DEF Jumps, HeldInv, MenuInv

\* Whatever is answered, each chat's list holds its own messages.
LEMMA HeldStep ==
  ASSUME MenuInv, SearchInv, HeldInv, PinsTyped, FindNext
  PROVE  HeldInv'
<1>1. ASSUME NEW m \in Message, Jumps(m), UNCHANGED held,
             pending' \in {pending, NoMessage}
      PROVE  HeldInv'
  BY <1>1, JumpTypes DEF HeldInv, In
<1>2. ASSUME NEW j \in jumps, JumpAnswered(j) PROVE HeldInv'
  <2>1. PICK page \in SUBSET In(j.chat) :
          held' = IF j.to \in page THEN [held EXCEPT ![j.chat] = page] ELSE held
    BY <1>2 DEF JumpAnswered
  <2>2. page \in SUBSET Message /\ j.chat \in Chat
    BY DEF In, HeldInv
  <2>3. held' \in [Chat -> SUBSET Message] /\ \A c \in Chat : held'[c] \subseteq In(c)
    BY <2>1, <2>2 DEF HeldInv
  <2>4. jumps' = jumps \ {j} /\ UNCHANGED pending
    BY <1>2 DEF JumpAnswered
  <2> QED
    BY <2>3, <2>4 DEF HeldInv, In
<1>3. ASSUME NEW m \in Message, OnSearchJump(m) \/ OnReplyClick(m) PROVE HeldInv'
  BY <1>1, <1>3 DEF OnSearchJump, OnReplyClick
<1>4. CASE OnPinClick
  <2>1. PinnedMessage \in Message
    BY <1>4 DEF OnPinClick, PinnedMessage, PinsTyped, MenuInv
  <2> QED
    BY <1>1, <1>4, <2>1 DEF OnPinClick
<1>5. CASE PendingScroll
  <2>1. pending \in Message
    BY <1>5 DEF PendingScroll, HeldInv
  <2> QED
    BY <1>1, <1>5, <2>1 DEF PendingScroll
<1>6. ASSUME NEW m \in Message, DeepLink(m) PROVE HeldInv'
  BY <1>6 DEF DeepLink, HeldInv, In
<1>7. CASE UNCHANGED jumpVars
  BY <1>7 DEF jumpVars, HeldInv, In
<1> QED
  BY <1>2, <1>3, <1>4, <1>5, <1>6, <1>7
  DEF FindNext, SearchNext, PinNext, JumpNext, FindSwitch, OpenSearch, CloseSearch, TypeQuery,
      DoSearch, LoadMore, SearchAnswered, SearchFails, HandlePin, HandleUnpin, findVars,
      DismissPin, PinEvent

\* A step of search, pins or jumps asks for the message of the menu in the menu's chat.
LEMMA PinStep ==
  ASSUME MenuInv, PinsTyped, FindNext
  PROVE  MenuInv' /\ RequestInv' /\ PinsTyped'
<1>1. ASSUME NEW m \in Message, HandlePin(m) \/ HandleUnpin(m)
      PROVE  MenuInv' /\ RequestInv' /\ PinsTyped'
  <2>1. MenuItem(m) /\ UNCHANGED active /\ late' = late \ {"menu"}
    BY <1>1 DEF HandlePin, HandleUnpin, Filled
  <2>2. menu' = NoMenu /\ Home[m] = menu.chat /\ menu.chat \in Chat
    BY <2>1, MenuItems, ScreenAssumption
  <2>3. MenuInv'
    <3>1. late' \subseteq Slots
      BY <2>1 DEF MenuInv
    <3> QED
      BY <2>1, <2>2, <3>1, MenuHides
  <2>4. {Home[m]} \in SUBSET Chat /\ {Home[m]} \subseteq {menu.chat}
    BY <2>2
  <2>5. PICK op \in Op : Asks(op, menu.chat, {Home[m]}, FALSE)
    BY <1>1 DEF HandlePin, HandleUnpin, Op
  <2>6. RequestInv'
    BY <2>2, <2>4, <2>5, OneAsked
  <2>7. /\ \/ pinned' = [pinned EXCEPT ![menu.chat] = m]
           \/ pinned' = [pinned EXCEPT ![menu.chat] = NoMessage]
        /\ dismissed' \subseteq dismissed
    BY <1>1 DEF HandlePin, HandleUnpin
  <2>8. PinsTyped'
    BY <2>2, <2>7 DEF PinsTyped
  <2> QED
    BY <2>3, <2>6, <2>8
<1>2. CASE /\ (\E m \in Message : ShowMenu(m)) \/ ShowAreaMenu \/ ClickOutside
           /\ UNCHANGED findVars
  <2>1. MenuInv' /\ RequestInv'
    BY <1>2, MenuShows
  <2> QED
    BY <1>2, <2>1 DEF findVars, pinVars, PinsTyped
<1>3. ASSUME NEW c \in Chat \cup {NoChat}, FindSwitch(c)
      PROVE  MenuInv' /\ RequestInv' /\ PinsTyped'
  <2>1. MenuInv' /\ RequestInv'
    BY <1>3, Switches DEF FindSwitch
  <2> QED
    BY <1>3, <2>1 DEF FindSwitch, pinVars, PinsTyped
<1>4. ASSUME UNCHANGED screenVars, Quiet PROVE MenuInv' /\ RequestInv'
  <2>1. MenuInv'
    BY <1>4, MenuRests DEF screenVars, MenuInv
  <2> QED
    BY <1>4, <2>1, NoneAsked
<1>5. CASE UNCHANGED screenVars /\ Quiet /\ UNCHANGED pinVars
  BY <1>4, <1>5 DEF pinVars, PinsTyped
<1>6. CASE DismissPin
  <2>1. active \in Chat
    BY <1>6 DEF DismissPin, PinnedMessage, MenuInv
  <2>2. PinsTyped'
    BY <1>6, <2>1 DEF DismissPin, PinsTyped
  <2> QED
    BY <1>4, <1>6, <2>2 DEF DismissPin
<1>7. ASSUME NEW c \in Chat, PinEvent(c) PROVE MenuInv' /\ RequestInv' /\ PinsTyped'
  <2>1. PICK m \in In(c) \cup {NoMessage} :
             /\ pinned' = [pinned EXCEPT ![c] = m]
             /\ dismissed' = IF m = NoMessage THEN dismissed ELSE dismissed \ {c}
    BY <1>7 DEF PinEvent
  <2>2. PinsTyped'
    BY <2>1 DEF PinsTyped, In
  <2> QED
    BY <1>4, <1>7, <2>2 DEF PinEvent
<1> QED
  BY <1>1, <1>2, <1>3, <1>5, <1>6, <1>7
  DEF FindNext, SearchNext, PinNext, JumpNext, OpenSearch, CloseSearch, TypeQuery, DoSearch,
      LoadMore, SearchAnswered, SearchFails, OnSearchJump, OnReplyClick, OnPinClick, DeepLink,
      PendingScroll, JumpAnswered

\* The invariants of searches, jumps and pins survive every step of that part.
LEMMA FindStep ==
  ASSUME MenuInv, FindInv, FindNext
  PROVE  MenuInv' /\ RequestInv' /\ FindInv'
BY FindParts, FindPartsNext, SearchStep, HeldStep, PinStep

-------------------------------------------------------------------------------
\* The panel: one part moves and the others, which hold nothing of a chat, rest.

\* A part that is idle and not touched stays so, whatever the others do: the composer,
LEMMA ComposeRests ==
  ASSUME ComposeInv, ComposeIdle, UNCHANGED composeVars
  PROVE  ComposeInv' /\ ComposeIdle'
BY DEF ComposeInv, ComposeTypeOK, ComposeIdle, composeVars

\* the selection,
LEMMA SelectRests ==
  ASSUME SelectInv, SelectIdle, UNCHANGED selectVars
  PROVE  SelectInv' /\ SelectIdle'
BY DEF SelectInv, SelectTypeOK, SelectionOnScreen, SelectIdle, selectVars

\* files and recordings,
LEMMA MediaRests ==
  ASSUME MediaInv, MediaIdle, UNCHANGED mediaVars
  PROVE  MediaInv' /\ MediaIdle'
<1> USE DEF mediaVars, recVars, takeVars
<1>1. MediaTypeOK' /\ attachment' \in AttachmentType /\ upload' \in [Upload -> UploadType]
  BY DEF MediaInv, MediaTypeOK
<1>2. TakesInv'
  BY TakesRest DEF MediaInv
<1>3. VoiceSeen'
  BY DEF VoiceSeen, MediaIdle, NoPlayer
<1>4. MediaIdle'
  BY DEF MediaIdle
<1>5. MediaOwn'
  BY DEF MediaOwn, MediaIdle, NoUpload
<1> QED
  BY <1>1, <1>2, <1>3, <1>4, <1>5 DEF MediaInv

\* searches, jumps and pins.
LEMMA FindRests ==
  ASSUME FindInv, FindIdle, UNCHANGED findVars
  PROVE  FindInv' /\ FindIdle'
BY DEF FindInv, FindTypeOK, NothingOfOtherChats, FindIdle, findVars, searchVars, jumpVars,
       pinVars, In

\* The inductive invariant holds at first, and every step of the panel keeps it.
LEMMA ScreenStart == Init => ScreenInv
<1> SUFFICES ASSUME Init PROVE ScreenInv
  OBVIOUS
<1>1. MenuInv /\ RequestInv
  BY DEF Init, ScreenInit, MenuInv, RequestInv, OwnChatUnlessMoved, NoMenu, NoRequest, Op
<1>2. ComposeInv /\ ComposeIdle
  BY DEF Init, ComposeInit, ComposeInv, ComposeTypeOK, ComposeIdle
<1>3. SelectInv /\ SelectIdle
  <2>1. NoBatch \in BatchType /\ NoBatch.todo = {}
    BY DEF NoBatch, BatchType
  <2>2. batch = [b \in Batch |-> NoBatch]
    BY DEF Init, SelectInit
  <2>3. BatchInv
    <3> HIDE DEF NoBatch
    <3> QED
      BY <2>1, <2>2 DEF BatchInv
  <2>4. SelectTyped
    BY SelectionTypes, DialogTypes DEF Init, SelectInit, SelectTyped
  <2>5. PickedInv /\ SelectIdle
    BY DEF Init, SelectInit, PickedInv, SelectionOnScreen, SelectIdle, NoSelection, NoForward,
           NoDelete
  <2> QED
    BY <2>3, <2>4, <2>5, SelectParts
<1>4. MediaInv /\ MediaIdle
  <2>1. NoUpload \in UploadType /\ NoAttachment \in AttachmentType
    BY DEF NoUpload, UploadType, NoAttachment, AttachmentType, Op
  <2>2. upload = [u \in Upload |-> NoUpload] /\ attachment = NoAttachment
    BY DEF Init, MediaInit
  <2>3. upload \in [Upload -> UploadType] /\ \A u \in Upload : upload[u] = NoUpload
    BY <2>1, <2>2
  <2>4. MediaTypeOK
    <3>1. player \in [sound : {"none", "paused", "playing"}, button : BOOLEAN,
                       frame : BOOLEAN]
      BY DEF Init, MediaInit, NoPlayer
    <3>2. \A u \in Upload : upload[u].takes \subseteq Take
      BY <2>3 DEF NoUpload
    <3>3. attachment.file = "none"
      BY <2>2 DEF NoAttachment
    <3>4. /\ prompts = 0 /\ madeFor = {} /\ recorder = NoTake /\ ~bar /\ ~recording
          /\ bar \in BOOLEAN /\ recording \in BOOLEAN /\ live = {} /\ chunks = {}
          /\ stopping = {} /\ cancelling = {} /\ cancelled = {} /\ astray = {}
      BY DEF Init, MediaInit
    <3>5. prompts \in 0..2
      BY <3>4
    <3> QED
      BY <3>1, <3>2, <3>3, <3>4, <3>5, Zenon DEF MediaTypeOK
  <2>5. TakesInv /\ VoiceSeen
    <3>1. /\ live = {} /\ stopping = {} /\ cancelling = {} /\ cancelled = {} /\ ~recording
          /\ chunks = {}
      BY DEF Init, MediaInit
    <3>2. player.sound = "none"
      BY DEF Init, MediaInit, NoPlayer
    <3> QED
      BY <3>1, <3>2
      DEF TakesInv, Reached, Records, Shows, Unmixed, CancelledNeverSent, VoiceSeen
  <2>6. MediaOwn /\ MediaIdle
    BY <2>3 DEF Init, MediaInit, MediaOwn, MediaIdle, NoUpload, NoAttachment
  <2> QED
    BY <2>1, <2>2, <2>3, <2>4, <2>5, <2>6 DEF MediaInv
<1>5. FindInv /\ FindIdle
  BY DEF Init, FindInit, FindInv, FindTypeOK, NothingOfOtherChats, FindIdle
<1> QED
  BY <1>1, <1>2, <1>3, <1>4, <1>5 DEF ScreenInv, PartsInv

\* `ScreenInv` survives every step: of the part that moves, with the others at rest.
LEMMA ScreenStep == ScreenInv /\ [Next]_vars => ScreenInv'
<1> SUFFICES ASSUME ScreenInv, [Next]_vars PROVE ScreenInv'
  OBVIOUS
<1> USE DEF ScreenInv
<1>1. CASE part = "compose" /\ ComposeNext /\ UNCHANGED part
           /\ UNCHANGED <<selectVars, mediaVars, findVars>>
  <2>1. MenuInv' /\ RequestInv' /\ ComposeInv'
    BY <1>1, ComposeStep
  <2>2. SelectInv' /\ SelectIdle' /\ MediaInv' /\ MediaIdle' /\ FindInv' /\ FindIdle'
    BY <1>1, SelectRests, MediaRests, FindRests DEF PartsInv
  <2>3. PartsInv'
    BY <1>1, <2>2 DEF PartsInv
  <2> QED
    BY <2>1, <2>2, <2>3
<1>2. CASE part \in {"forward", "delete"} /\ SelectNext /\ UNCHANGED part
           /\ UNCHANGED <<composeVars, mediaVars, findVars>>
  <2>1. MenuInv' /\ RequestInv' /\ SelectInv'
    BY <1>2, SelectStep
  <2>2. ComposeInv' /\ ComposeIdle' /\ MediaInv' /\ MediaIdle' /\ FindInv' /\ FindIdle'
    BY <1>2, ComposeRests, MediaRests, FindRests DEF PartsInv
  <2>3. PartsInv'
    BY <1>2, <2>2 DEF PartsInv
  <2> QED
    BY <2>1, <2>2, <2>3
<1>3. CASE part \in {"attach", "record", "play"} /\ MediaNext /\ UNCHANGED part
           /\ UNCHANGED <<composeVars, selectVars, findVars>>
  <2>1. MenuInv' /\ RequestInv' /\ MediaInv'
    BY <1>3, MediaStep
  <2>2. ComposeInv' /\ ComposeIdle' /\ SelectInv' /\ SelectIdle' /\ FindInv' /\ FindIdle'
    BY <1>3, ComposeRests, SelectRests, FindRests DEF PartsInv
  <2>3. PartsInv'
    BY <1>3, <2>2 DEF PartsInv
  <2> QED
    BY <2>1, <2>2, <2>3
<1>4. CASE part \in {"search", "pin", "jump"} /\ FindNext /\ UNCHANGED part
           /\ (part # "search" => UNCHANGED searchVars)
           /\ UNCHANGED <<composeVars, selectVars, mediaVars>>
  <2>1. MenuInv' /\ RequestInv' /\ FindInv'
    BY <1>4, FindStep
  <2>2. ComposeInv' /\ ComposeIdle' /\ SelectInv' /\ SelectIdle' /\ MediaInv' /\ MediaIdle'
    BY <1>4, ComposeRests, SelectRests, MediaRests DEF PartsInv
  <2>3. part # "search" => FindIdle'
    BY <1>4 DEF PartsInv, FindIdle, searchVars
  <2>4. PartsInv'
    BY <1>4, <2>2, <2>3 DEF PartsInv
  <2> QED
    BY <2>1, <2>2, <2>4
<1>5. CASE UNCHANGED vars
  <2>1. UNCHANGED <<active, menu, late, request, part>>
        /\ UNCHANGED <<composeVars, selectVars, mediaVars, findVars>>
    BY <1>5 DEF vars, screenVars
  <2>2. MenuInv' /\ RequestInv'
    BY <2>1 DEF MenuInv, RequestInv, OwnChatUnlessMoved
  <2>3. ComposeInv' /\ (ComposeIdle => ComposeIdle')
    BY <2>1 DEF ComposeInv, ComposeTypeOK, OnScreen, ComposeIdle, composeVars
  <2>4. SelectInv' /\ (SelectIdle => SelectIdle')
    BY <2>1 DEF SelectInv, SelectTypeOK, SelectionOnScreen, OnScreen, SelectIdle, selectVars
  <2>5. MediaInv' /\ (MediaIdle => MediaIdle')
    <3>1. MediaTypeOK' /\ attachment' \in AttachmentType
          /\ upload' \in [Upload -> UploadType] /\ (MediaIdle => MediaIdle')
      BY <2>1 DEF MediaInv, MediaTypeOK, MediaIdle, mediaVars, recVars, takeVars
    <3>2. TakesInv' /\ VoiceSeen'
      BY <2>1, TakesRest DEF MediaInv, VoiceSeen, mediaVars, recVars
    <3>3. MediaOwn'
      BY <2>1 DEF MediaInv, MediaOwn, mediaVars, recVars, takeVars
    <3> QED
      BY <3>1, <3>2, <3>3 DEF MediaInv
  <2>6. FindInv' /\ (FindIdle => FindIdle')
    BY <2>1 DEF FindInv, FindTypeOK, NothingOfOtherChats, FindIdle, findVars, searchVars,
                jumpVars, pinVars, In
  <2>7. PartsInv'
    BY <2>1, <2>3, <2>4, <2>5, <2>6 DEF PartsInv
  <2> QED
    BY <2>2, <2>3, <2>4, <2>5, <2>6, <2>7
<1> QED
  BY <1>1, <1>2, <1>3, <1>4, <1>5 DEF Next

\* It holds in every state.
LEMMA ScreenKept == Spec => []ScreenInv
BY ScreenStart, ScreenStep, PTL DEF Spec

\* The state of every part is of its type, for any number of chats and messages.
THEOREM ScreenTypeCorrect == Spec => []TypeOK
<1>1. ScreenInv => TypeOK
  <2> SUFFICES ASSUME ScreenInv PROVE TypeOK
    OBVIOUS
  <2>1. ScreenTypeOK
    BY SlotsFinite DEF ScreenInv, MenuInv, RequestInv, ScreenTypeOK
  <2> QED
    BY <2>1 DEF ScreenInv, ComposeInv, SelectInv, MediaInv, FindInv, TypeOK
<1> QED
  BY ScreenKept, <1>1, PTL

\* A request about messages, a file or a recording goes to the chat these were picked in,
\* unless the chat on screen changed since.
THEOREM RequestsGoHome == Spec => []OwnChatUnlessMoved
<1>1. ScreenInv => OwnChatUnlessMoved
  BY DEF ScreenInv, RequestInv
<1> QED
  BY ScreenKept, <1>1, PTL

\* What is selected is on screen, unless a menu or a drag of an earlier chat selected it.
THEOREM SelectionCorrect == Spec => []SelectionOnScreen
<1>1. ScreenInv => SelectionOnScreen
  BY DEF ScreenInv, SelectInv
<1> QED
  BY ScreenKept, <1>1, PTL

\* Whatever the order of permissions, stops, cancels and their late events, the sound of a
\* cancelled recording is sent, and the microphone stays on beside the bar, only where
\* another press of the button or a recorder that threw put a recording out of reach; a
\* voice message is heard only from a bubble on screen that offers to pause it.
THEOREM MediaCorrect == Spec => []MediaRight
<1>1. ScreenInv => MediaRight
  BY DEF ScreenInv, MediaInv, TakesInv, Reached, Shows, MediaRight, MicrophoneReached
<1> QED
  BY ScreenKept, <1>1, PTL

\* A chat's list and the search results hold no message of another chat.
THEOREM ListsCorrect == Spec => []NothingOfOtherChats
<1>1. ScreenInv => NothingOfOtherChats
  BY DEF ScreenInv, FindInv
<1> QED
  BY ScreenKept, <1>1, PTL
===============================================================================
