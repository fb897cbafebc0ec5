------------------------------- MODULE Compose --------------------------------
(***************************************************************************)
(* The composer with its reply and edit targets, the emoji panel, the      *)
(* reaction picker, and the role that decides whether a composer is shown. *)
(* The composer is not keyed by the chat: it survives a direct switch to a *)
(* chat whose composer is shown, with its text and targets.                *)
(***************************************************************************)
EXTENDS ActiveChat

VARIABLES
  text,     \* the text area: "empty" or "typed"
  reply,    \* replyTarget
  edit,     \* editTarget
  panel,    \* emojiPanelOpen
  emoji,    \* emojiPickerMessageId while the picker is visible
  myRole,   \* the role the panel believes in
  loading,  \* chats whose watcher run awaits the messages
  asked     \* chats whose getChat (the role) is in flight

composeVars == <<text, reply, edit, panel, emoji, myRole, loading, asked>>
targetVars == <<text, reply, edit>>
roleVars == <<myRole, loading, asked>>

ComposeInit ==
  /\ text = "empty" /\ reply = NoMessage /\ edit = NoMessage
  /\ panel = FALSE /\ emoji = NoMessage
  /\ myRole = "member" /\ loading = {} /\ asked = {}

ComposeTypeOK ==
  /\ text \in {"empty", "typed"}
  /\ {reply, edit, emoji} \subseteq Message \cup {NoMessage}
  /\ panel \in BOOLEAN /\ myRole \in {"member", "admin"}
  /\ loading \subseteq Chat /\ asked \subseteq Chat

IsChannelReadonly(c, role) == Kind[c] = "channel" /\ role = "member"

ComposerShown == active # NoChat /\ ~IsChannelReadonly(active, myRole)

OnInput ==
  /\ ComposerShown
  /\ text' = "typed"
  /\ \/ Quiet                                    \* throttled to one in 2 s
     \/ Asks("typing", active, {active}, FALSE)
  /\ UNCHANGED <<active, menu, late, reply, edit, panel, emoji, roleVars>>

ClearText ==
  /\ ComposerShown /\ text = "typed" /\ text' = "empty"
  /\ Quiet /\ UNCHANGED <<screenVars, reply, edit, panel, emoji, roleVars>>

SendEdit ==
  /\ ComposerShown /\ text = "typed" /\ edit # NoMessage
  /\ Asks("edit", active, {Home[edit]}, "target" \in late)
  /\ text' = "empty" /\ edit' = NoMessage
  /\ UNCHANGED <<active, menu, late, reply, panel, emoji, roleVars>>

SendReply ==
  /\ ComposerShown /\ text = "typed" /\ edit = NoMessage /\ reply # NoMessage
  /\ Asks("reply", active, {Home[reply]}, "target" \in late)
  /\ text' = "empty" /\ reply' = NoMessage
  /\ UNCHANGED <<active, menu, late, edit, panel, emoji, roleVars>>

SendPlain ==
  /\ ComposerShown /\ text = "typed" /\ edit = NoMessage /\ reply = NoMessage
  /\ Asks("send", active, {active}, FALSE)
  /\ text' = "empty"
  /\ UNCHANGED <<active, menu, late, reply, edit, panel, emoji, roleVars>>

CancelReply ==
  /\ ComposerShown /\ reply # NoMessage
  /\ reply' = NoMessage
  /\ Quiet /\ UNCHANGED <<screenVars, text, edit, panel, emoji, roleVars>>

CancelEdit ==
  /\ ComposerShown /\ edit # NoMessage /\ reply = NoMessage
  /\ edit' = NoMessage /\ text' = "empty"
  /\ Quiet /\ UNCHANGED <<screenVars, reply, panel, emoji, roleVars>>

\* The composer listens only while it is mounted.
OnReplyToMessage(m) ==
  /\ MenuItem(m)
  /\ IF ComposerShown
       THEN reply' = m /\ edit' = NoMessage /\ FilledFrom("target", "menu")
       ELSE UNCHANGED <<reply, edit>> /\ Emptied("menu")
  /\ Quiet /\ UNCHANGED <<active, text, panel, emoji, roleVars>>

OnEditMessage(m) ==
  /\ MenuItem(m) /\ m \in Mine
  /\ IF ComposerShown
       THEN edit' = m /\ reply' = NoMessage /\ text' = "typed"
            /\ FilledFrom("target", "menu")
       ELSE UNCHANGED targetVars /\ Emptied("menu")
  /\ Quiet /\ UNCHANGED <<active, panel, emoji, roleVars>>

ToggleEmojiPanel ==
  /\ ComposerShown
  /\ panel' = ~panel
  /\ Quiet /\ UNCHANGED <<screenVars, targetVars, emoji, roleVars>>

\* Escape reaches the panel's own listener or handleEsc: the panel closes.
CloseEmojiPanel ==
  /\ active # NoChat /\ panel /\ panel' = FALSE
  /\ Quiet /\ UNCHANGED <<screenVars, targetVars, emoji, roleVars>>

\* insertText into the composer, if there is one.
OnEmojiPanelSelect ==
  /\ active # NoChat /\ panel
  /\ text' = IF ComposerShown THEN "typed" ELSE text
  /\ Quiet /\ UNCHANGED <<screenVars, reply, edit, panel, emoji, roleVars>>

OnOpenEmojiPicker(m) ==
  /\ active = Home[m] /\ emoji' = m
  /\ Filled("emoji")
  /\ Quiet /\ UNCHANGED <<active, menu, targetVars, panel, roleVars>>

OnEmojiSelect ==
  /\ active # NoChat /\ emoji # NoMessage
  /\ Asks("react", active, {Home[emoji]}, "emoji" \in late)
  /\ emoji' = NoMessage
  /\ UNCHANGED <<active, menu, late, targetVars, panel, roleVars>>

CloseEmojiPicker ==
  /\ active # NoChat /\ emoji # NoMessage /\ emoji' = NoMessage
  /\ Quiet /\ UNCHANGED <<screenVars, targetVars, panel, roleVars>>

\* A chip under a bubble on screen.
OnToggleReaction(m) ==
  /\ active = Home[m]
  /\ Asks("react", active, {Home[m]}, FALSE)
  /\ UNCHANGED <<active, menu, late, composeVars>>

-----------------------------------------------------------------------------
Targets == IF reply = NoMessage /\ edit = NoMessage THEN {} ELSE {"target"}

Unmount(shown) ==
  IF shown THEN UNCHANGED targetVars
  ELSE text' = "empty" /\ reply' = NoMessage /\ edit' = NoMessage

\* The rest of the watcher of activeChatId: once the messages of chat c are
\* there it asks for the role in c, if the chat active by then has roles.
AskRole(c) ==
  /\ c \in loading /\ loading' = loading \ {c}
  /\ asked' = IF active # NoChat /\ Kind[active] # "direct" THEN asked \cup {c}
             ELSE asked
  /\ Quiet /\ UNCHANGED <<screenVars, targetVars, panel, emoji, myRole>>

\* The answer is applied to whatever chat is active by then.
RoleArrives(c) ==
  /\ c \in asked /\ asked' = asked \ {c}
  /\ myRole' = Role[c]
  /\ Unmount(ComposerShown /\ ~IsChannelReadonly(active, myRole'))
  /\ Quiet /\ UNCHANGED <<screenVars, panel, emoji, loading>>

RoleFails(c) ==
  /\ c \in asked /\ asked' = asked \ {c}
  /\ Quiet /\ UNCHANGED <<screenVars, targetVars, panel, emoji, myRole, loading>>

\* The watchers of activeChatId, and the re-render that follows.
ComposeSwitch(c) ==
  /\ SwitchChat(c, (IF c # NoChat THEN Targets ELSE {})
                   \cup (IF emoji # NoMessage THEN {"emoji"} ELSE {}))
  /\ panel' = FALSE /\ myRole' = "member"
  /\ loading' = IF c = NoChat THEN loading ELSE loading \cup {c}
  /\ Unmount(c # NoChat /\ ComposerShown /\ ~IsChannelReadonly(c, "member"))
  /\ UNCHANGED <<emoji, asked>>

ComposeNext ==
  \/ OnInput \/ ClearText \/ SendEdit \/ SendReply \/ SendPlain
  \/ CancelReply \/ CancelEdit \/ ToggleEmojiPanel \/ CloseEmojiPanel
  \/ OnEmojiPanelSelect \/ OnEmojiSelect \/ CloseEmojiPicker
  \/ \E m \in Message : \/ OnReplyToMessage(m) \/ OnEditMessage(m)
                        \/ OnOpenEmojiPicker(m) \/ OnToggleReaction(m)
  \/ \E m \in Message : ShowMenu(m) /\ UNCHANGED composeVars
  \/ (ShowAreaMenu \/ ClickOutside) /\ UNCHANGED composeVars
  \/ \E c \in Chat : AskRole(c) \/ RoleArrives(c) \/ RoleFails(c)
  \/ \E c \in Chat \cup {NoChat} : ComposeSwitch(c)

===============================================================================
