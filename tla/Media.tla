-------------------------------- MODULE Media ---------------------------------
(***************************************************************************)
(* Attachments, voice recordings and the voice player of a bubble: what    *)
(* the panel uploads before it sends, and the media devices it holds.      *)
(***************************************************************************)
EXTENDS ActiveChat

CONSTANTS
  Upload,       \* names for uploads under way
  Take,         \* recordings, in the order they are made
  NoTake

ASSUME TakeAssumption == NoTake \notin Take

VARIABLES
  attachment,   \* [menu, file, of]: the attachment menu and preview
  prompts,      \* startRecording calls awaiting getUserMedia
  madeFor,      \* the chat in which the microphone was pressed last
  recorder,     \* the recording the composable's recorder variable holds
  recording,    \* the state of that recorder is "recording"
  live,         \* recordings whose microphone tracks run
  chunks,       \* the recordings whose sound the composable's chunks hold
  stopping,     \* recordings stopped to be sent, awaiting onstop
  cancelling,   \* recordings stopped by a cancel, awaiting onstop
  bar,          \* isRecording of the panel: the bar of a chat on screen
  upload,       \* uploads under way
  cancelled,    \* history: recordings cancelled while they ran
  astray,       \* history: recordings that another press of the button took out of
                \* reach, and those whose recorder threw
  player        \* [sound, button, frame] of one bubble's voice player

takeVars == <<recorder, recording, live, chunks, stopping, cancelling, cancelled, astray>>
recVars == <<prompts, madeFor, bar, takeVars>>
mediaVars == <<attachment, recVars, upload, player>>

NoAttachment == [menu |-> FALSE, file |-> "none", of |-> {}]
NoUpload == [op |-> "none", of |-> {}, takes |-> {}, late |-> FALSE]
NoPlayer == [sound |-> "none", button |-> FALSE, frame |-> FALSE]

MediaInit ==
  /\ attachment = NoAttachment /\ prompts = 0 /\ madeFor = {} /\ bar = FALSE
  /\ recorder = NoTake /\ recording = FALSE /\ live = {} /\ chunks = {}
  /\ stopping = {} /\ cancelling = {} /\ cancelled = {} /\ astray = {}
  /\ upload = [u \in Upload |-> NoUpload]
  /\ player = NoPlayer

MediaTypeOK ==
  /\ attachment.file \in {"none", "fits", "too large"}
  /\ prompts \in 0..2 /\ madeFor \subseteq Chat /\ bar \in BOOLEAN
  /\ recorder \in Take \cup {NoTake} /\ recording \in BOOLEAN
  /\ live \subseteq Take /\ chunks \subseteq Take /\ stopping \subseteq Take
  /\ cancelling \subseteq Take /\ cancelled \subseteq Take /\ astray \subseteq Take
  /\ \A u \in Upload : upload[u].takes \subseteq Take
  /\ player \in [sound : {"none", "paused", "playing"}, button : BOOLEAN,
                 frame : BOOLEAN]

Start(u, op, of, takes, wasLate) ==
  /\ upload[u] = NoUpload
  /\ upload' = [upload EXCEPT ![u] =
                  [op |-> op, of |-> of, takes |-> takes, late |-> wasLate]]

-----------------------------------------------------------------------------
ToggleAttachmentMenu ==
  /\ active # NoChat /\ attachment.file = "none" /\ ~bar
  /\ attachment' = [attachment EXCEPT !.menu = ~@]
  /\ Quiet /\ UNCHANGED <<screenVars, recVars, upload, player>>

OnAttachmentFileSelected ==
  /\ active # NoChat /\ attachment.menu
  /\ \E size \in {"fits", "too large"} :
       attachment' = [menu |-> FALSE, file |-> size, of |-> {active}]
  /\ Filled("file")
  /\ Quiet /\ UNCHANGED <<active, menu, recVars, upload, player>>

CancelAttachment ==
  /\ active # NoChat /\ attachment.file # "none"
  /\ attachment' = [attachment EXCEPT !.file = "none"]
  /\ Quiet /\ UNCHANGED <<screenVars, recVars, upload, player>>

\* The preview refuses a file over the limit; the upload starts at once.
OnAttachmentSend(u) ==
  /\ active # NoChat /\ attachment.file = "fits"
  /\ attachment' = [attachment EXCEPT !.file = "none"]
  /\ Start(u, "file", attachment.of, {}, "file" \in late)
  /\ Quiet /\ UNCHANGED <<screenVars, recVars, player>>

\* The upload is answered: the message goes to the chat on screen by now (with
\* none there is no such route, and the request fails).
Uploaded(u) ==
  /\ upload[u] # NoUpload
  /\ upload' = [upload EXCEPT ![u] = NoUpload]
  /\ Asks(upload[u].op, active, upload[u].of, upload[u].late)
  /\ UNCHANGED <<active, menu, late, attachment, recVars, player>>

UploadFails(u) ==
  /\ upload[u] # NoUpload
  /\ upload' = [upload EXCEPT ![u] = NoUpload]
  /\ Quiet /\ UNCHANGED <<screenVars, attachment, recVars, player>>

-----------------------------------------------------------------------------
\* The microphone button of the composer, hidden once the bar is shown; while
\* the browser asks for the permission it can be pressed again.
StartRec ==
  /\ active # NoChat /\ ~bar /\ prompts < 2
  /\ prompts' = prompts + 1 /\ madeFor' = {active} /\ Filled("voice")
  /\ Quiet /\ UNCHANGED <<active, menu, attachment, bar, takeVars, upload, player>>

\* The recording of the variable that runs, or awaits its onstop: out of reach with
\* another recorder in the variable.
Displaced == {recorder} \cap (live \cup stopping \cup cancelling)

\* The recording that runs: out of reach without the bar.
Running == IF recording THEN {recorder} ELSE {}

\* getUserMedia gave a stream: its tracks run, and the chunks are emptied.
Granted(t) ==
  /\ prompts > 0 /\ prompts' = prompts - 1
  /\ t \notin live \cup chunks \cup stopping \cup cancelling \cup cancelled \cup astray
  /\ t # recorder /\ \A u \in Upload : t \notin upload[u].takes
  /\ live' = live \cup {t} /\ chunks' = {}
  /\ Quiet /\ UNCHANGED <<screenVars, attachment, madeFor, stopping, cancelling, cancelled,
                          upload, player>>

\* A new recorder takes the variable, whatever becomes of the one in it.
MicrophoneGranted(t) ==
  /\ Granted(t)
  /\ recorder' = t /\ recording' = TRUE /\ bar' = TRUE
  /\ astray' = astray \cup Displaced

\* Its start() throws: the variable holds it, and nothing ends its tracks.
StartThrows(t) ==
  /\ Granted(t)
  /\ recorder' = t /\ recording' = FALSE /\ bar' = FALSE
  /\ astray' = astray \cup Displaced \cup {t}

\* The constructor throws: the variable keeps the recorder it has.
RecorderThrows(t) ==
  /\ Granted(t)
  /\ bar' = FALSE
  /\ astray' = astray \cup Running \cup {t}
  /\ UNCHANGED <<recorder, recording>>

MicrophoneDenied ==
  /\ prompts > 0 /\ prompts' = prompts - 1 /\ bar' = FALSE
  /\ astray' = astray \cup Running
  /\ Quiet /\ UNCHANGED <<screenVars, attachment, madeFor, recorder, recording, live, chunks,
                          stopping, cancelling, cancelled, upload, player>>

\* stopRec while the recorder records; a second press is refused and hides the bar.
StopRec ==
  /\ active # NoChat /\ bar
  /\ IF recording
     THEN stopping' = stopping \cup {recorder} /\ recording' = FALSE /\ UNCHANGED bar
     ELSE bar' = FALSE /\ UNCHANGED <<stopping, recording>>
  /\ Quiet /\ UNCHANGED <<screenVars, attachment, prompts, madeFor, recorder, live, chunks,
                          cancelling, cancelled, astray, upload, player>>

\* The last events of recording t: its sound comes to the chunks, whoever they are of
\* by now, and onstop ends the tracks of whatever recorder the variable holds.
LastEvents(t) ==
  /\ chunks' = chunks \cup {t} /\ live' = live \ {recorder} /\ recording' = FALSE
  /\ Quiet /\ UNCHANGED <<screenVars, attachment, prompts, madeFor, recorder, cancelled,
                          astray, player>>

\* onstop of a recording to be sent: the bar goes, and the file of the chunks is
\* uploaded if a chat is on screen.
OnStop(t) ==
  /\ t \in stopping /\ stopping' = stopping \ {t} /\ bar' = FALSE
  /\ LastEvents(t)
  /\ IF active = NoChat THEN UNCHANGED upload
     ELSE \E u \in Upload : Start(u, "voice", madeFor, chunks', "voice" \in late)
  /\ UNCHANGED cancelling

\* Mutant: the onstop of a cancelled recording ends no track.
OnCancelledKeepsTracks(t) ==
  /\ t \in cancelling /\ cancelling' = cancelling \ {t}
  /\ chunks' = chunks \cup {t}
  /\ Quiet /\ UNCHANGED <<screenVars, attachment, prompts, madeFor, recorder, recording, live,
                          stopping, bar, cancelled, astray, upload, player>>

\* onstop of a cancelled one.
OnCancelled(t) ==
  /\ t \in cancelling /\ cancelling' = cancelling \ {t}
  /\ LastEvents(t)
  /\ UNCHANGED <<stopping, bar, upload>>

\* cancelRec: the bar goes at once; a recorder that records is stopped, with an
\* onstop that sends nothing.
CancelRec ==
  /\ active # NoChat /\ bar /\ bar' = FALSE
  /\ cancelling' = cancelling \cup Running /\ cancelled' = cancelled \cup Running
  /\ recording' = FALSE
  /\ Quiet /\ UNCHANGED <<screenVars, attachment, prompts, madeFor, recorder, live, chunks,
                          stopping, astray, upload, player>>

-----------------------------------------------------------------------------
\* toggleVoice: the audio element is created on first use.
ToggleVoice ==
  /\ active # NoChat
  /\ player' = IF player.button
               THEN [sound |-> "paused", button |-> FALSE, frame |-> FALSE]
               ELSE [sound |-> "playing", button |-> TRUE, frame |-> TRUE]
  /\ Quiet /\ UNCHANGED <<screenVars, attachment, recVars, upload>>

\* The "ended" event of the audio element.
VoiceEnds ==
  /\ player.sound = "playing"
  /\ player' = [sound |-> "paused", button |-> FALSE, frame |-> FALSE]
  /\ Quiet /\ UNCHANGED <<screenVars, attachment, recVars, upload>>

\* The browser refuses or interrupts playing: nothing tells the button.
VoiceStalls ==
  /\ player.sound = "playing"
  /\ player' = [player EXCEPT !.sound = "paused"]
  /\ Quiet /\ UNCHANGED <<screenVars, attachment, recVars, upload>>

\* attachment_url changed, or the bubble is unmounted: pause and forget.
DropVoice(p) ==
  IF p.sound = "none" THEN p ELSE NoPlayer

VoiceSrcChanges ==
  /\ active # NoChat /\ player' = DropVoice(player)
  /\ Quiet /\ UNCHANGED <<screenVars, attachment, recVars, upload>>

-----------------------------------------------------------------------------
\* Another chat: its bubbles are others, and uploads and recordings go on.
MediaSwitch(c) ==
  /\ SwitchChat(c, (IF attachment.file = "none" THEN {} ELSE {"file"})
                   \cup (IF bar \/ prompts > 0 \/ stopping # {} THEN {"voice"} ELSE {}))
  /\ player' = DropVoice(player)
  /\ upload' = [u \in Upload |-> IF upload[u] = NoUpload THEN NoUpload
                                 ELSE [upload[u] EXCEPT !.late = TRUE]]
  /\ UNCHANGED <<attachment, recVars>>

MediaNext ==
  \/ ToggleAttachmentMenu \/ OnAttachmentFileSelected \/ CancelAttachment
  \/ \E u \in Upload : OnAttachmentSend(u) \/ Uploaded(u) \/ UploadFails(u)
  \/ StartRec \/ MicrophoneDenied \/ StopRec \/ CancelRec
  \/ \E t \in Take : \/ MicrophoneGranted(t) \/ StartThrows(t) \/ RecorderThrows(t)
                     \/ OnStop(t) \/ OnCancelled(t)
  \/ ToggleVoice \/ VoiceEnds \/ VoiceStalls \/ VoiceSrcChanges
  \/ \E c \in Chat \cup {NoChat} : MediaSwitch(c)

-----------------------------------------------------------------------------
\* The sound of a cancelled recording is in no file that is uploaded, except in one
\* that a recording out of reach has a part in: onstop comes late, and then finds the
\* chunks of another recording.
CancelledNeverSent ==
  \A u \in Upload : upload[u].takes \cap cancelled # {} => upload[u].takes \cap astray # {}

\* The microphone is on only for the recording of the panel's bar, or one that awaits
\* its onstop; a recording for which it stays on beside these was put out of reach by
\* another press of the button, before its own start or stop was over, or by a
\* recorder that threw. (The bar is the panel's isRecording: with no chat open it is not
\* rendered, and the recording goes on unseen until a chat is opened again.)
MicrophoneReached ==
  \A t \in live \ astray : t \in stopping \cup cancelling \/ (bar /\ t = recorder)

\* A voice message is heard only from a bubble on screen whose button offers to pause it.
VoiceSeen == player.sound = "playing" => active # NoChat /\ player.button /\ player.frame

\* What is cancelled is gone, and what runs can be ended, in whatever order permissions,
\* stops, cancels and their late events come.
MediaRight == CancelledNeverSent /\ MicrophoneReached /\ VoiceSeen
===============================================================================
