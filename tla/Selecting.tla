------------------------------ MODULE Selecting -------------------------------
(***************************************************************************)
(* Message selection (menu, clicks, dragging), the selection bar, and the  *)
(* two dialogs that act on messages: forward and delete.  A dialog's       *)
(* backdrop covers the page, so that nothing below it can be clicked; the  *)
(* chat on screen can still change and answers still arrive.               *)
(***************************************************************************)
EXTENDS ActiveChat

CONSTANT Batch     \* names for deletions under way

VARIABLES
  selected,  \* [mode, ids]: the selection store
  drag,      \* useDragSelect: "off", or the message the button went down on
  dragging,  \* thresholdMet
  forward,   \* [open, ids, busy]: the forward dialog
  delete,    \* [open, ids, all]: the delete dialog
  batch      \* onDeleteConfirm runs: the captured ids still to delete

selectVars == <<selected, drag, dragging, forward, delete, batch>>
dragVars == <<drag, dragging>>

NoSelection == [mode |-> FALSE, ids |-> {}]
NoForward == [open |-> FALSE, ids |-> {}, busy |-> FALSE]
NoDelete == [open |-> FALSE, ids |-> {}, all |-> FALSE]
NoBatch == [chat |-> NoChat, todo |-> {}, now |-> NoMessage, all |-> FALSE,
            late |-> FALSE]

SelectInit ==
  /\ selected = NoSelection /\ drag = NoMessage /\ dragging = FALSE
  /\ forward = NoForward /\ delete = NoDelete /\ batch = [b \in Batch |-> NoBatch]

SelectTypeOK ==
  /\ selected \in [mode : BOOLEAN, ids : SUBSET Message]
  /\ drag \in Message \cup {NoMessage} /\ dragging \in BOOLEAN
  /\ forward \in [open : BOOLEAN, ids : SUBSET Message, busy : BOOLEAN]
  /\ delete \in [open : BOOLEAN, ids : SUBSET Message, all : BOOLEAN]
  /\ \A b \in Batch : batch[b].todo \subseteq Message

\* The chat view is on screen and no backdrop covers it.
Uncovered == active # NoChat /\ ~forward.open /\ ~delete.open

EnterSelectionMode(ids) == selected' = [mode |-> TRUE, ids |-> ids]
ExitSelectionMode == selected' = NoSelection

ToggleMessage(m) ==
  LET next == IF m \in selected.ids THEN selected.ids \ {m}
              ELSE selected.ids \cup {m}
  IN  IF next = {} THEN ExitSelectionMode ELSE EnterSelectionMode(next)

AddMessage(s, m) == IF s.mode THEN [s EXCEPT !.ids = @ \cup {m}] ELSE s

\* A click on a row, or a right click on a bubble, toggles in selection mode.
OnRowClick(m) ==
  /\ Uncovered /\ active = Home[m] /\ selected.mode
  /\ ToggleMessage(m)
  /\ Quiet /\ UNCHANGED <<screenVars, dragVars, forward, delete, batch>>

OnMouseDown(m) ==
  /\ Uncovered /\ active = Home[m]
  /\ drag' = m /\ dragging' = FALSE /\ Filled("drag")
  /\ Quiet /\ UNCHANGED <<active, menu, selected, forward, delete, batch>>

\* The pointer has moved far enough and is now over message m: on the first
\* such move the selection starts with the message the button went down on.
OnMouseMove(m) ==
  /\ Uncovered /\ active = Home[m] /\ drag # NoMessage
  /\ dragging' = TRUE
  /\ selected' =
       AddMessage(IF dragging THEN selected
                  ELSE IF selected.mode THEN AddMessage(selected, drag)
                  ELSE [mode |-> TRUE, ids |-> {drag}], m)
  /\ IF ~dragging /\ (~selected.mode \/ "drag" \in late)
       THEN FilledFrom("select", "drag") ELSE UNCHANGED late
  /\ Quiet /\ UNCHANGED <<active, menu, drag, forward, delete, batch>>

\* Only a release over the list is heard.
OnMouseUp ==
  /\ Uncovered /\ drag # NoMessage
  /\ drag' = NoMessage /\ dragging' = FALSE /\ Emptied("drag")
  /\ Quiet /\ UNCHANGED <<active, menu, selected, forward, delete, batch>>

OnSelectMessage(m) ==
  /\ Uncovered /\ MenuItem(m)
  /\ EnterSelectionMode({m}) /\ FilledFrom("select", "menu")
  /\ Quiet /\ UNCHANGED <<active, dragVars, forward, delete, batch>>

\* "Select Messages" of the area menu: selection mode with nothing selected.
HandleSelectMessages ==
  /\ Uncovered /\ menu.chat # NoChat /\ MenuItem(NoMessage)
  /\ EnterSelectionMode({}) /\ FilledFrom("select", "menu")
  /\ Quiet /\ UNCHANGED <<active, dragVars, forward, delete, batch>>

CancelSelection ==
  /\ Uncovered /\ selected.mode
  /\ ExitSelectionMode /\ Emptied("select")
  /\ Quiet /\ UNCHANGED <<active, menu, dragVars, forward, delete, batch>>

-----------------------------------------------------------------------------
OpenForward(ids) == forward' = [open |-> TRUE, ids |-> ids, busy |-> FALSE]

OnForwardMessages(m) ==
  /\ Uncovered /\ MenuItem(m) /\ OpenForward({m}) /\ FilledFrom("forward", "menu")
  /\ Quiet /\ UNCHANGED <<active, selected, dragVars, delete, batch>>

OnSelectionForward ==
  /\ Uncovered /\ selected.ids # {}
  /\ OpenForward(selected.ids) /\ FilledFrom("forward", "select")
  /\ Quiet /\ UNCHANGED <<active, menu, selected, dragVars, delete, batch>>

\* A chat was picked: from_chat_id is the chat on screen now.
HandleForward ==
  /\ active # NoChat /\ forward.open /\ ~forward.busy
  /\ forward' = [forward EXCEPT !.busy = TRUE]
  /\ Asks("forward", active, {Home[m] : m \in forward.ids}, "forward" \in late)
  /\ UNCHANGED <<active, menu, late, selected, dragVars, delete, batch>>

\* Closed by the user, or by the answer: both leave selection mode.
CloseForwardDialog ==
  /\ active # NoChat /\ forward.open
  /\ forward' = NoForward /\ ExitSelectionMode /\ late' = late \ {"forward", "select"}
  /\ Quiet /\ UNCHANGED <<active, menu, dragVars, delete, batch>>

ForwardFails ==
  /\ active # NoChat /\ forward.open /\ forward.busy
  /\ forward' = [forward EXCEPT !.busy = FALSE]
  /\ Quiet /\ UNCHANGED <<screenVars, selected, dragVars, delete, batch>>

-----------------------------------------------------------------------------
\* Offered for everyone only if every message is among the chat's on screen
\* and this user's own.
CanDeleteForEveryone(ids) == \A m \in ids : Home[m] = active /\ m \in Mine

OpenDelete(ids) ==
  delete' = [open |-> TRUE, ids |-> ids, all |-> CanDeleteForEveryone(ids)]

OnDeleteMessage(m) ==
  /\ Uncovered /\ MenuItem(m) /\ OpenDelete({m}) /\ FilledFrom("delete", "menu")
  /\ Quiet /\ UNCHANGED <<active, selected, dragVars, forward, batch>>

OnSelectionDelete ==
  /\ Uncovered /\ selected.ids # {}
  /\ OpenDelete(selected.ids) /\ FilledFrom("delete", "select")
  /\ Quiet /\ UNCHANGED <<active, menu, selected, dragVars, forward, batch>>

\* (The ids of a closed dialog stay, but nobody reads them.)
CloseDelete ==
  /\ active # NoChat /\ delete.open
  /\ delete' = NoDelete /\ Emptied("delete")
  /\ Quiet /\ UNCHANGED <<active, menu, selected, dragVars, forward, batch>>

\* The run captures the chat and the array of ids before its first await.
OnDeleteConfirm(b, everyone) ==
  /\ active # NoChat /\ delete.open /\ batch[b] = NoBatch
  /\ everyone => delete.all
  /\ batch' = [batch EXCEPT ![b] =
       [chat |-> active, todo |-> delete.ids, now |-> NoMessage,
        all |-> everyone, late |-> "delete" \in late]]
  /\ delete' = NoDelete /\ Emptied("delete")
  /\ Quiet /\ UNCHANGED <<active, menu, selected, dragVars, forward>>

\* Mutant: the loop reads activeChatId again for every message.
DeleteNextActive(b) ==
  /\ batch[b].now = NoMessage
  /\ \E m \in batch[b].todo :
       /\ batch' = [batch EXCEPT ![b].now = m]
       /\ Asks("delete", active, {Home[m]}, batch[b].late)
  /\ UNCHANGED <<active, menu, late, selected, dragVars, forward, delete>>

\* The 600 ms of the animation are over: the request goes out.
DeleteNext(b) ==
  /\ batch[b].now = NoMessage
  /\ \E m \in batch[b].todo :
       /\ batch' = [batch EXCEPT ![b].now = m]
       /\ Asks(IF batch[b].all THEN "delete for everyone" ELSE "delete",
               batch[b].chat, {Home[m]}, batch[b].late)
  /\ UNCHANGED <<active, menu, late, selected, dragVars, forward, delete>>

\* Mutant: the loop goes on with the ids the dialog holds by now.
DeleteAnsweredReread(b) ==
  /\ batch[b].now # NoMessage
  /\ batch' = [batch EXCEPT ![b].now = NoMessage, ![b].todo =
       (IF delete.open THEN delete.ids ELSE @) \ {batch[b].now}]
  /\ Quiet /\ UNCHANGED <<screenVars, selected, dragVars, forward, delete>>

\* Its answer, or its failure: the loop goes on with the next message.
DeleteAnswered(b) ==
  /\ batch[b].now # NoMessage
  /\ batch' = [batch EXCEPT ![b].todo = @ \ {batch[b].now}, ![b].now = NoMessage]
  /\ Quiet /\ UNCHANGED <<screenVars, selected, dragVars, forward, delete>>

\* After the loop the ids and the selection are cleared, whoever set them.
DeleteDone(b) ==
  /\ batch[b] # NoBatch /\ batch[b].todo = {}
  /\ batch' = [batch EXCEPT ![b] = NoBatch]
  /\ delete' = [delete EXCEPT !.ids = {}]
  /\ ExitSelectionMode /\ Emptied("select")
  /\ Quiet /\ UNCHANGED <<active, menu, dragVars, forward>>

\* Mutant: the selection survives a change of chat.
SelectSwitchKeeps(c) ==
  /\ SwitchChat(c, IF delete.open THEN {"delete"} ELSE {})
  /\ UNCHANGED <<selected, dragVars, forward, delete, batch>>

\* The watcher of activeChatId leaves selection mode; the dialogs stay as they
\* are (unmounted and mounted again if there was no chat in between).
SelectSwitch(c) ==
  /\ SwitchChat(c, (IF forward.open THEN {"forward"} ELSE {})
                   \cup (IF delete.open THEN {"delete"} ELSE {})
                   \cup (IF drag # NoMessage THEN {"drag"} ELSE {}))
  /\ ExitSelectionMode
  /\ forward' = IF c = NoChat THEN [forward EXCEPT !.busy = FALSE] ELSE forward
  /\ UNCHANGED <<dragVars, delete, batch>>

SelectNext ==
  \/ \E m \in Message : \/ OnRowClick(m) \/ OnMouseDown(m) \/ OnMouseMove(m)
                        \/ OnSelectMessage(m) \/ OnForwardMessages(m)
                        \/ OnDeleteMessage(m)
                        \/ Uncovered /\ ShowMenu(m) /\ UNCHANGED selectVars
  \/ Uncovered /\ (ShowAreaMenu \/ ClickOutside) /\ UNCHANGED selectVars
  \/ OnMouseUp \/ HandleSelectMessages \/ CancelSelection
  \/ OnSelectionForward \/ HandleForward \/ CloseForwardDialog \/ ForwardFails
  \/ OnSelectionDelete \/ CloseDelete
  \/ \E b \in Batch : \/ \E everyone \in BOOLEAN : OnDeleteConfirm(b, everyone)
                      \/ DeleteNext(b) \/ DeleteAnswered(b) \/ DeleteDone(b)
  \/ \E c \in Chat \cup {NoChat} : SelectSwitch(c)

DeleteFairness ==
  \A b \in Batch : WF_selectVars(DeleteNext(b)) /\ WF_selectVars(DeleteAnswered(b))
                   /\ WF_selectVars(DeleteDone(b))

-----------------------------------------------------------------------------
\* What is selected is on screen: every selected message belongs to the active
\* chat, unless a menu or a drag begun in an earlier chat selected it.
SelectionOnScreen ==
  "select" \in late \/ \A m \in selected.ids : Home[m] = active

\* Every message that was confirmed is asked for, although the dialog's ids are
\* replaced or cleared while the loop is still running.
ConfirmedIsAsked ==
  \A b \in Batch, m \in Message :
    m \in batch[b].todo ~> batch[b].now = m
===============================================================================
