------------------------------- MODULE WsClient -------------------------------
(***************************************************************************)
(* The closure of useWebSocket for one mounted messenger view: the socket, *)
(* its timers, and the presence this client reports.  The view awaits its  *)
(* first loads before it connects, so that it may be unmounted in between. *)
(* What the handlers do to the chat list is in ChatList; Client joins them.*)
(***************************************************************************)
EXTENDS Naturals, FiniteSetsExt

VARIABLES
  view,             \* "off" or "on": the messenger view is mounted
  loading,          \* onMounted awaits; connect() comes after it
  leftEarly,        \* the view was unmounted while onMounted still awaited
  token,            \* localStorage holds an access token
  sock,             \* the readyState of ws, "none" while ws is null
  intentionalClose,
  hasConnectedBefore,
  reconnectTimer, reconnectDelay,
  pingTimer, fallbackPollTimer,
  presenceSetup, isPresenceActive, awayGraceTimer,
  windowHasFocus,
  hidden,           \* document.hidden
  recent,           \* lastUserActivity lies within ACTIVITY_TIMEOUT
  told              \* what the server was last told on this socket: "active",
                    \* "away", or "nothing" without an auth message

socketVars == <<view, loading, leftEarly, sock, intentionalClose, hasConnectedBefore,
                reconnectTimer, reconnectDelay, pingTimer, fallbackPollTimer>>
linkVars == <<token, socketVars>>
presenceVars == <<presenceSetup, isPresenceActive, awayGraceTimer,
                  windowHasFocus, hidden, recent, told>>
wsVars == <<linkVars, presenceVars>>

Delays == {1, 2, 4, 8, 16, 30}    \* seconds

WsInit ==
  /\ view = "off" /\ loading = FALSE /\ leftEarly = FALSE
  /\ token \in BOOLEAN
  /\ sock = "none" /\ intentionalClose = FALSE /\ hasConnectedBefore = FALSE
  /\ reconnectTimer = FALSE /\ reconnectDelay = 1
  /\ pingTimer = FALSE /\ fallbackPollTimer = FALSE
  /\ presenceSetup = FALSE /\ isPresenceActive = FALSE /\ awayGraceTimer = FALSE
  /\ windowHasFocus = TRUE /\ hidden = FALSE /\ recent = TRUE
  /\ told = "nothing"

WsTypeOK ==
  /\ view \in {"off", "on"} /\ sock \in {"none", "connecting", "open", "closed"}
  /\ reconnectDelay \in Delays
  /\ \A b \in {loading, leftEarly, token, intentionalClose, hasConnectedBefore,
               reconnectTimer, pingTimer, fallbackPollTimer, presenceSetup,
               isPresenceActive, awayGraceTimer, windowHasFocus, hidden,
               recent} : b \in BOOLEAN
  /\ told \in {"nothing", "active", "away"}

-----------------------------------------------------------------------------
\* The socket.

\* A new instance of the closure.  One that was left early lives on beside
\* the new one; only one of the two is followed, so the view stays away.
Mount ==
  /\ view = "off" /\ ~leftEarly
  /\ view' = "on" /\ loading' = TRUE
  /\ intentionalClose' = FALSE /\ hasConnectedBefore' = FALSE /\ reconnectDelay' = 1
  /\ isPresenceActive' = FALSE /\ windowHasFocus' = TRUE /\ recent' = TRUE
  /\ UNCHANGED <<leftEarly, sock, reconnectTimer, pingTimer, fallbackPollTimer,
                 presenceSetup, awayGraceTimer, hidden, told>>

connect ==
  IF sock \in {"open", "connecting"} \/ ~token
  THEN UNCHANGED <<sock, intentionalClose>>
  ELSE sock' = "connecting" /\ intentionalClose' = FALSE

\* onMounted goes on after its last await, whether or not the view is still there.
Mounted ==
  /\ loading
  /\ loading' = FALSE
  /\ connect
  /\ UNCHANGED <<view, leftEarly, token, hasConnectedBefore, reconnectTimer,
                 reconnectDelay, pingTimer, fallbackPollTimer, presenceVars>>

Status(active) == IF active THEN "active" ELSE "away"

\* Without a token no auth message is sent.
onopen ==
  /\ sock = "connecting"
  /\ sock' = "open"
  /\ reconnectDelay' = 1 /\ fallbackPollTimer' = FALSE
  /\ hasConnectedBefore' = TRUE
  /\ recent' = TRUE /\ isPresenceActive' = ~hidden
  /\ told' = IF token THEN Status(~hidden) ELSE "nothing"
  /\ pingTimer' = TRUE /\ presenceSetup' = TRUE
  /\ UNCHANGED <<view, loading, leftEarly, token, intentionalClose,
                 reconnectTimer, awayGraceTimer, windowHasFocus, hidden>>

\* Mutant: only a connection that had been open is tried again.
oncloseOnlyOpen ==
  /\ sock \in {"connecting", "open"}
  /\ sock' = "closed"
  /\ pingTimer' = FALSE
  /\ IF intentionalClose THEN UNCHANGED <<reconnectTimer, fallbackPollTimer>>
                         ELSE reconnectTimer' = (sock = "open") /\ fallbackPollTimer' = TRUE
  /\ UNCHANGED <<view, loading, leftEarly, token, intentionalClose,
                 hasConnectedBefore, reconnectDelay, presenceVars>>

\* Refused, lost, or closed by the server.
onclose ==
  /\ sock \in {"connecting", "open"}
  /\ sock' = "closed"
  /\ pingTimer' = FALSE
  /\ IF intentionalClose THEN UNCHANGED <<reconnectTimer, fallbackPollTimer>>
                         ELSE reconnectTimer' = TRUE /\ fallbackPollTimer' = TRUE
  /\ UNCHANGED <<view, loading, leftEarly, token, intentionalClose,
                 hasConnectedBefore, reconnectDelay, presenceVars>>

\* Mutant: the delay doubles without end.
ReconnectUncapped ==
  /\ reconnectTimer
  /\ reconnectTimer' = FALSE
  /\ connect
  /\ reconnectDelay' = 2 * reconnectDelay
  /\ UNCHANGED <<view, loading, leftEarly, token, hasConnectedBefore, pingTimer,
                 fallbackPollTimer, presenceVars>>

Reconnect ==
  /\ reconnectTimer
  /\ reconnectTimer' = FALSE
  /\ connect
  /\ reconnectDelay' = Min({2 * reconnectDelay, 30})
  /\ UNCHANGED <<view, loading, leftEarly, token, hasConnectedBefore, pingTimer,
                 fallbackPollTimer, presenceVars>>

\* Mutant: disconnect forgets the reconnect timer.
LeaveKeepsTimer ==
  /\ view = "on"
  /\ view' = "off" /\ leftEarly' = loading
  /\ intentionalClose' = TRUE /\ sock' = "none"
  /\ pingTimer' = FALSE /\ fallbackPollTimer' = FALSE
  /\ presenceSetup' = FALSE /\ awayGraceTimer' = FALSE
  /\ UNCHANGED <<loading, hasConnectedBefore, reconnectTimer, reconnectDelay,
                 isPresenceActive, windowHasFocus, hidden, recent, told>>

\* The view is unmounted.
disconnect ==
  /\ view = "on"
  /\ view' = "off" /\ leftEarly' = loading
  /\ intentionalClose' = TRUE /\ sock' = "none"
  /\ pingTimer' = FALSE /\ fallbackPollTimer' = FALSE /\ reconnectTimer' = FALSE
  /\ presenceSetup' = FALSE /\ awayGraceTimer' = FALSE
  /\ UNCHANGED <<loading, hasConnectedBefore, reconnectDelay, isPresenceActive,
                 windowHasFocus, hidden, recent, told>>

\* The view comes with the token, and goes with it (another page) or without
\* it (logout).
LinkNext ==
  \/ token /\ Mount /\ UNCHANGED token
  \/ disconnect /\ token' \in BOOLEAN
  \/ Mounted \/ onopen \/ onclose \/ Reconnect
  \/ view = "off" /\ token' = TRUE /\ UNCHANGED <<socketVars, presenceVars>>

-----------------------------------------------------------------------------
\* Presence.  Hidden windows get neither input nor focus.

\* The server ignores whoever has not sent the auth message.
sendPresenceUpdate(status) ==
  told' = IF sock = "open" /\ told # "nothing" THEN status ELSE told

BecomesActive(when) ==
  IF ~isPresenceActive /\ when
  THEN isPresenceActive' = TRUE /\ sendPresenceUpdate("active")
  ELSE UNCHANGED <<isPresenceActive, told>>

\* Mutant: activity sets the flag without telling the server.
onUserActivitySilent ==
  /\ presenceSetup /\ windowHasFocus /\ ~hidden
  /\ recent' = TRUE /\ isPresenceActive' = TRUE
  /\ UNCHANGED <<linkVars, presenceSetup, awayGraceTimer, windowHasFocus, hidden, told>>

onUserActivity ==
  /\ presenceSetup /\ windowHasFocus /\ ~hidden
  /\ recent' = TRUE
  /\ BecomesActive(TRUE)
  /\ UNCHANGED <<linkVars, presenceSetup, awayGraceTimer, windowHasFocus, hidden>>

\* Mutant: hiding the document starts no grace timer.
OnHideNoGrace ==
  /\ ~hidden
  /\ hidden' = TRUE
  /\ UNCHANGED <<linkVars, presenceSetup, isPresenceActive, awayGraceTimer,
                 windowHasFocus, recent, told>>

\* visibilitychange to hidden: startAwayGrace.
OnHide ==
  /\ ~hidden
  /\ hidden' = TRUE
  /\ awayGraceTimer' = (awayGraceTimer \/ (presenceSetup /\ isPresenceActive))
  /\ UNCHANGED <<linkVars, presenceSetup, isPresenceActive, windowHasFocus,
                 recent, told>>

OnShow ==
  /\ hidden
  /\ hidden' = FALSE
  /\ awayGraceTimer' = FALSE
  /\ BecomesActive(presenceSetup /\ recent)
  /\ UNCHANGED <<linkVars, presenceSetup, windowHasFocus, recent>>

onWindowBlur ==
  /\ presenceSetup
  /\ windowHasFocus' = FALSE
  /\ awayGraceTimer' = (awayGraceTimer \/ isPresenceActive)
  /\ UNCHANGED <<linkVars, presenceSetup, isPresenceActive, hidden, recent, told>>

onWindowFocus ==
  /\ presenceSetup /\ ~hidden
  /\ windowHasFocus' = TRUE /\ awayGraceTimer' = FALSE /\ recent' = TRUE
  /\ BecomesActive(TRUE)
  /\ UNCHANGED <<linkVars, presenceSetup, hidden>>

GoesAway ==
  /\ isPresenceActive' = FALSE
  /\ IF isPresenceActive THEN sendPresenceUpdate("away") ELSE UNCHANGED told

AwayGraceEnds ==
  /\ awayGraceTimer
  /\ awayGraceTimer' = FALSE
  /\ GoesAway
  /\ UNCHANGED <<linkVars, presenceSetup, windowHasFocus, hidden, recent>>

\* Thirty seconds without interaction.
TimePasses ==
  /\ recent
  /\ recent' = FALSE
  /\ UNCHANGED <<linkVars, presenceSetup, isPresenceActive, awayGraceTimer,
                 windowHasFocus, hidden, told>>

presenceCheck ==
  /\ presenceSetup /\ ~hidden /\ ~recent /\ isPresenceActive
  /\ GoesAway
  /\ UNCHANGED <<linkVars, presenceSetup, awayGraceTimer, windowHasFocus, hidden, recent>>

PresenceNext ==
  \/ onUserActivity \/ OnHide \/ OnShow \/ onWindowBlur \/ onWindowFocus
  \/ AwayGraceEnds \/ TimePasses \/ presenceCheck

-----------------------------------------------------------------------------
\* The server knows this client's presence: whatever order focus, visibility,
\* activity and timers come in, an open socket was last told isPresenceActive, if
\* there was a token to open it with.
ServerKnowsPresence ==
  sock = "open" => told \in {"nothing", Status(isPresenceActive)}

\* A mounted view gets its connection back after every loss, as long as the
\* network lets a connection through now and then.
Reconnects == (view = "on" /\ ~loading) ~> (sock = "open" \/ view = "off")

\* A client whose window stays hidden, or stays visible without focus, reports
\* itself away, by the grace timer or by the periodic check.
AwayWhenGone ==
  \A h \in BOOLEAN :
    (sock = "open" /\ isPresenceActive /\ hidden = h /\ (h \/ ~windowHasFocus))
      ~> (~isPresenceActive \/ sock # "open" \/ hidden # h \/ (~h /\ windowHasFocus))

\* Timers fire; a connection that is tried again and again succeeds once.
LinkFairness ==
  /\ WF_wsVars(Mounted) /\ WF_wsVars(Reconnect) /\ SF_wsVars(onopen)
  /\ WF_wsVars(sock = "connecting" /\ (onopen \/ onclose))

===============================================================================
