------------------------------- MODULE AppProofs -------------------------------
(***************************************************************************)
(* For any number of requests and of expiries: a view that has left leaves *)
(* nothing running but the markRead timer, and starts nothing, an open     *)
(* socket was told the presence, a logout holds, and everything is of its  *)
(* type.                                                                   *)
(***************************************************************************)
EXTENDS App, TLAPS

-------------------------------------------------------------------------------
\* What happens to the view.

\* What a step may do to the view: the session mounts it, unmounts it, or loads
\* the page again, and the rest is its own.
ViewStep ==
  \/ Mount \/ disconnect \/ Mounted \/ onopen \/ onclose \/ Reconnect
  \/ PresenceNext \/ Reload
  \/ UNCHANGED <<socketVars, presenceVars>>

\* A route that is shown mounts the view, unmounts it or leaves it alone.
LEMMA ShowsView ==
  ASSUME NEW to, Shows(to)
  PROVE  Mount \/ disconnect \/ UNCHANGED <<socketVars, presenceVars>>
BY DEF Shows

\* So does the end of a navigation.
LEMMA ArrivesView ==
  ASSUME NEW to, NEW loggedIn, NEW known, Arrives(to, loggedIn, known)
  PROVE  Mount \/ disconnect \/ UNCHANGED <<socketVars, presenceVars>>
BY ShowsView DEF Arrives

\* Every step of the page is such a step of its view.
LEMMA StepOfView == [Next]_vars => ViewStep
<1> SUFFICES ASSUME [Next]_vars PROVE ViewStep
  OBVIOUS
<1>1. CASE UNCHANGED vars
  BY <1>1 DEF vars, wsVars, linkVars, ViewStep
<1>2. CASE LinkNext
  BY <1>2 DEF LinkNext, ViewStep
<1>3. CASE PresenceNext
  BY <1>3 DEF ViewStep
<1>4. CASE SessionNext
  <2>1. ASSUME NEW to \in {"login", "app", "admin"}, Navigate(to) PROVE ViewStep
    BY <2>1, ArrivesView DEF Navigate, ViewStep
  <2>2. ASSUME NEW r \in Request, Succeeds(r) PROVE ViewStep
    BY <2>2, ArrivesView DEF Succeeds, pageVars, ViewStep
  <2>3. ASSUME NEW r \in Request, Rejected(r) PROVE ViewStep
    BY <2>3, ShowsView DEF Rejected, pageVars, ViewStep
  <2>4. ASSUME NEW r \in Request,
               Call(r) \/ MarkReadEnds(r) \/ handleLogin(r) \/ Fails(r) \/ Unauthorized(r)
        PROVE  ViewStep
    BY <2>4 DEF Call, MarkReadEnds, handleLogin, Fails, Unauthorized, pageVars, ViewStep
  <2>5. ASSUME logout PROVE ViewStep
    BY <2>5, ShowsView DEF logout, ViewStep
  <2>6. ASSUME RefreshSucceeds \/ RefreshFails PROVE ViewStep
    BY <2>6 DEF RefreshSucceeds, RefreshFails, pageVars, ViewStep
  <2> QED
    BY <1>4, <2>1, <2>2, <2>3, <2>4, <2>5, <2>6 DEF SessionNext, ViewStep
<1>5. CASE Mounted \/ onopen \/ onclose \/ Reconnect
  BY <1>5 DEF ViewStep
<1>6. CASE Expires \/ debouncedMarkRead
  BY <1>6 DEF Expires, debouncedMarkRead, pageVars, ViewStep
<1> QED
  BY <1>1, <1>2, <1>3, <1>4, <1>5, <1>6 DEF Next

\* The types of the presence variables.
PresenceTyped ==
  /\ presenceSetup \in BOOLEAN /\ isPresenceActive \in BOOLEAN /\ awayGraceTimer \in BOOLEAN
  /\ windowHasFocus \in BOOLEAN /\ hidden \in BOOLEAN /\ recent \in BOOLEAN
  /\ told \in {"nothing", "active", "away"}

\* Types of the presence over steps that leave it alone,
LEMMA PresenceUnchanged == PresenceTyped /\ UNCHANGED presenceVars => PresenceTyped'
BY DEF PresenceTyped, presenceVars

\* What the presence handlers do to status and report keeps their types.
LEMMA ReportType ==
  ASSUME PresenceTyped, NEW when \in BOOLEAN
  PROVE  BecomesActive(when) \/ GoesAway =>
           isPresenceActive' \in BOOLEAN /\ told' \in {"nothing", "active", "away"}
BY DEF PresenceTyped, BecomesActive, GoesAway, sendPresenceUpdate

\* and over its own.
LEMMA PresenceType ==
  ASSUME PresenceTyped, PresenceNext
  PROVE  PresenceTyped'
<1>1. CASE onUserActivity
  BY <1>1, ReportType DEF PresenceTyped, onUserActivity
<1>2. CASE OnHide
  BY <1>2 DEF PresenceTyped, OnHide
<1>3. CASE OnShow
  <2>1. (presenceSetup /\ recent) \in BOOLEAN
    OBVIOUS
  <2> QED
    BY <1>3, <2>1, ReportType DEF PresenceTyped, OnShow
<1>4. CASE onWindowBlur
  BY <1>4 DEF PresenceTyped, onWindowBlur
<1>5. CASE onWindowFocus
  BY <1>5, ReportType DEF PresenceTyped, onWindowFocus
<1>6. CASE AwayGraceEnds
  BY <1>6, ReportType DEF PresenceTyped, AwayGraceEnds
<1>7. CASE TimePasses
  BY <1>7 DEF PresenceTyped, TimePasses
<1>8. CASE presenceCheck
  BY <1>8, ReportType DEF PresenceTyped, presenceCheck
<1> QED
  BY <1>1, <1>2, <1>3, <1>4, <1>5, <1>6, <1>7, <1>8 DEF PresenceNext

\* So does every step of the view.
LEMMA ViewKeepsPresence ==
  ASSUME PresenceTyped, ViewStep
  PROVE  PresenceTyped'
<1>1. CASE Mount
  BY <1>1 DEF Mount, PresenceTyped
<1>2. CASE disconnect
  BY <1>2 DEF disconnect, PresenceTyped
<1>3. CASE Mounted \/ onclose \/ Reconnect
  BY <1>3, PresenceUnchanged DEF Mounted, onclose, Reconnect
<1>4. CASE onopen
  BY <1>4 DEF onopen, Status, PresenceTyped
<1>5. CASE PresenceNext
  BY <1>5, PresenceType
<1>6. CASE Reload
  BY <1>6 DEF Reload, PresenceTyped
<1>7. CASE UNCHANGED <<socketVars, presenceVars>>
  BY <1>7, PresenceUnchanged
<1> QED
  BY <1>1, <1>2, <1>3, <1>4, <1>5, <1>6, <1>7 DEF ViewStep

-------------------------------------------------------------------------------
\* The view and its socket.

\* A view that left after onMounted was through has no connect to come, no socket and
\* none of the timers that disconnect clears.
Left ==
  view = "off" /\ ~leftEarly =>
    /\ ~loading /\ sock = "none"
    /\ ~(reconnectTimer \/ pingTimer \/ fallbackPollTimer \/ presenceSetup
         \/ awayGraceTimer)

LinkInv == PresenceTyped /\ Left /\ ServerKnowsPresence

\* The view's own steps keep the invariant.
LEMMA StepLink ==
  ASSUME LinkInv, ViewStep
  PROVE  LinkInv'
<1> SUFFICES Left' /\ ServerKnowsPresence'
  BY ViewKeepsPresence DEF LinkInv
<1> USE DEF LinkInv, Left, ServerKnowsPresence, Status, PresenceTyped
<1>1. CASE Mount
  BY <1>1 DEF Mount
<1>2. CASE disconnect
  BY <1>2 DEF disconnect
<1>3. CASE Mounted
  BY <1>3 DEF Mounted, connect, presenceVars
<1>4. CASE onopen
  BY <1>4 DEF onopen
<1>5. CASE onclose
  BY <1>5 DEF onclose, presenceVars
<1>6. CASE Reconnect
  BY <1>6 DEF Reconnect, connect, presenceVars
<1>7. CASE PresenceNext
  <2>1. CASE onUserActivity
    BY <2>1 DEF onUserActivity, BecomesActive, sendPresenceUpdate, linkVars, socketVars
  <2>2. CASE OnHide
    BY <2>2 DEF OnHide, linkVars, socketVars
  <2>3. CASE OnShow
    BY <2>3 DEF OnShow, BecomesActive, sendPresenceUpdate, linkVars, socketVars
  <2>4. CASE onWindowBlur
    BY <2>4 DEF onWindowBlur, linkVars, socketVars
  <2>5. CASE onWindowFocus
    BY <2>5 DEF onWindowFocus, BecomesActive, sendPresenceUpdate, linkVars, socketVars
  <2>6. CASE AwayGraceEnds
    BY <2>6 DEF AwayGraceEnds, GoesAway, sendPresenceUpdate, linkVars, socketVars
  <2>7. CASE TimePasses
    BY <2>7 DEF TimePasses, linkVars, socketVars
  <2>8. CASE presenceCheck
    BY <2>8 DEF presenceCheck, GoesAway, sendPresenceUpdate, linkVars, socketVars
  <2> QED
    BY <1>7, <2>1, <2>2, <2>3, <2>4, <2>5, <2>6, <2>7, <2>8 DEF PresenceNext
<1>8. CASE Reload
  BY <1>8 DEF Reload
<1>9. CASE UNCHANGED <<socketVars, presenceVars>>
  BY <1>9 DEF socketVars, presenceVars
<1> QED
  BY <1>1, <1>2, <1>3, <1>4, <1>5, <1>6, <1>7, <1>8, <1>9 DEF ViewStep

\* `LinkInv` holds in every state.
LEMMA LinkCorrect == Spec => []LinkInv
<1>1. Init => LinkInv
  BY DEF Init, WsInit, LinkInv, PresenceTyped, Left, ServerKnowsPresence, Status
<1>2. LinkInv /\ [Next]_vars => LinkInv'
  BY StepOfView, StepLink
<1> QED
  BY <1>1, <1>2, PTL DEF Spec

\* Whatever order focus, visibility, activity, timers and connections come in,
\* the server was last told, over an open socket, the presence that useWebSocket
\* holds for its own.
THEOREM ServerKnows == Spec => []ServerKnowsPresence
BY LinkCorrect, PTL DEF LinkInv

\* The markRead timer is started by a message on an open socket, and by nothing else.
LEMMA TimerStep ==
  ASSUME [Next]_vars, markReadTimer' # markReadTimer, markReadTimer' # FALSE
  PROVE  debouncedMarkRead
<1>1. \A to : Shows(to) => UNCHANGED markReadTimer
  BY DEF Shows
<1>2. \A to, loggedIn, known : Arrives(to, loggedIn, known) => UNCHANGED markReadTimer
  BY <1>1 DEF Arrives
<1>3. UNCHANGED vars \/ UNCHANGED sessionVars \/ Expires => UNCHANGED markReadTimer
  BY DEF vars, sessionVars, Expires, pageVars
<1>4. SessionNext => markReadTimer' \in {markReadTimer, FALSE}
  <2>1. ASSUME NEW to, Navigate(to) PROVE UNCHANGED markReadTimer
    BY <1>2, <2>1 DEF Navigate
  <2>2. ASSUME NEW r, Succeeds(r) \/ Rejected(r) PROVE UNCHANGED markReadTimer
    BY <1>1, <1>2, <2>2 DEF Succeeds, Rejected, pageVars
  <2>3. ASSUME NEW r, Call(r) \/ handleLogin(r) \/ Fails(r) \/ Unauthorized(r)
        PROVE  UNCHANGED markReadTimer
    BY <2>3 DEF Call, handleLogin, Fails, Unauthorized, pageVars
  <2>4. logout \/ RefreshSucceeds \/ RefreshFails => UNCHANGED markReadTimer
    BY <1>1 DEF logout, RefreshSucceeds, RefreshFails, pageVars
  <2>5. Reload \/ (\E r \in Request : MarkReadEnds(r)) => markReadTimer' = FALSE
    BY DEF Reload, MarkReadEnds
  <2> QED
    BY <2>1, <2>2, <2>3, <2>4, <2>5 DEF SessionNext
<1> QED
  BY <1>3, <1>4 DEF Next

\* Nothing of a view that has left runs on but the markRead timer, which useWebSocket's
\* disconnect does not clear, and nothing of it is started; unless it left while it
\* still loaded.
THEOREM NothingLeft == Spec => NothingAfterLeaving
<1>1. ASSUME LinkInv, LinkInv', [Next]_vars PROVE LeavesNothing
  <2> SUFFICES ASSUME view' = "off", ~leftEarly' PROVE markReadTimer' => markReadTimer
    BY <1>1 DEF LinkInv, Left, LeavesNothing
  <2>1. ASSUME debouncedMarkRead PROVE FALSE
    <3>1. view = "off" /\ ~leftEarly /\ sock = "open"
      BY <2>1 DEF debouncedMarkRead, socketVars
    <3> QED
      BY <1>1, <3>1 DEF LinkInv, Left
  <2> QED
    BY <1>1, <2>1, TimerStep
<1>2. LinkInv /\ LinkInv' /\ [Next]_vars => [LeavesNothing]_<<wsVars, sessionVars>>
  BY <1>1
<1> QED
  BY <1>2, LinkCorrect, PTL DEF Spec, NothingAfterLeaving

-------------------------------------------------------------------------------
\* The session.

\* LogoutHolds with what it rests on: no refresh is under way, and it speaks of
\* behaviours of the session only.
LogoutInv ==
  /\ loggedOut => part # "link"
  /\ loggedOut /\ ~undone =>
       ~isRefreshing /\ ~token /\ ~refreshToken /\ ~accessToken /\ view # "on"

\* Without a token the guard lets nobody into the view, and one who was in it
\* has to leave.
LEMMA GuardsView == \A to : Guarded(to, FALSE, FALSE) # "app"
BY DEF Guarded

\* Any route but the app leaves the view.
LEMMA GoesOut ==
  ASSUME NEW to, to # "app", Shows(to)
  PROVE  view' # "on"
BY DEF Shows, socketVars, disconnect

\* A navigation without a token leaves the user without view and without token.
LEMMA ArrivesOut ==
  ASSUME NEW to, NEW known, NEW loggedIn, ~loggedIn, Arrives(to, loggedIn, known)
  PROVE  /\ view' # "on" /\ ~accessToken'
         /\ UNCHANGED <<loggedOut, undone>>
<1>1. Guarded(to, loggedIn, known /\ IsAdmin) # "app"
  BY DEF Guarded
<1> QED
  BY <1>1, GoesOut DEF Arrives

\* A logged in user is logged out by a navigation only where no refresh is under
\* way, or undone says so.
LEMMA ArrivesIn ==
  ASSUME NEW to, NEW known, NEW loggedIn, Arrives(to, loggedIn, known)
  PROVE  \/ UNCHANGED <<loggedOut, undone>>
         \/ /\ undone' = isRefreshing /\ Cleared /\ view' # "on"
            /\ to = "admin" /\ ~(known /\ IsAdmin)
<1>1. to = "admin" /\ ~(known /\ IsAdmin) => Guarded(to, loggedIn, known /\ IsAdmin) = "login"
  BY DEF Guarded
<1> QED
  BY <1>1, GoesOut DEF Arrives

\* However a navigation ends, a logout holds.
LEMMA ArrivesKeepsLogout ==
  ASSUME LogoutInv, part' # "link", NEW to, NEW known, NEW loggedIn,
         loggedIn = accessToken, Arrives(to, loggedIn, known), isRefreshing' = isRefreshing,
         ~(to = "admin" /\ loggedIn /\ ~(known /\ IsAdmin))
           => UNCHANGED <<token, refreshToken, expired>>
  PROVE  LogoutInv'
<1>1. CASE undone' = isRefreshing /\ Cleared /\ view' # "on"
  BY <1>1 DEF LogoutInv, Cleared
<1>2. CASE UNCHANGED <<loggedOut, undone>> /\ loggedOut /\ ~undone
  <2>1. ~loggedIn
    BY <1>2 DEF LogoutInv
  <2> QED
    BY <1>2, <2>1, ArrivesOut DEF LogoutInv
<1>3. CASE UNCHANGED <<loggedOut, undone>> /\ ~(loggedOut /\ ~undone)
  BY <1>3 DEF LogoutInv
<1> QED
  BY <1>1, <1>2, <1>3, ArrivesIn

\* `LogoutInv` survives every step of the page.
LEMMA StepLogout ==
  ASSUME LogoutInv, [Next]_vars
  PROVE  LogoutInv'
<1>1. CASE UNCHANGED vars
  BY <1>1 DEF vars, wsVars, linkVars, socketVars, sessionVars, LogoutInv
<1>2. CASE part = "link" /\ UNCHANGED <<sessionVars, part>>
  BY <1>2 DEF sessionVars, LogoutInv
<1>3. CASE (Mounted \/ onopen \/ onclose \/ Reconnect) /\ UNCHANGED <<sessionVars, part>>
  BY <1>3 DEF Mounted, onopen, onclose, Reconnect, sessionVars, LogoutInv
<1>4. CASE part # "link" /\ SessionNext /\ UNCHANGED part
  <2>1. ASSUME NEW to \in {"login", "app", "admin"}, Navigate(to) PROVE LogoutInv'
    <3>1. CASE accessToken /\ ~user
      BY <1>4, <2>1, <3>1 DEF Navigate, tokenVars, socketVars, LogoutInv
    <3>2. CASE ~(accessToken /\ ~user)
      <4>1. /\ Arrives(to, accessToken, user) /\ isRefreshing' = isRefreshing
            /\ ~(to = "admin" /\ accessToken /\ ~(user /\ IsAdmin))
                 => UNCHANGED <<token, refreshToken, expired>>
        BY <2>1, <3>2 DEF Navigate
      <4> QED
        BY <1>4, <4>1, ArrivesKeepsLogout
    <3> QED
      BY <3>1, <3>2
  <2>2. ASSUME NEW r \in Request, Succeeds(r) PROVE LogoutInv'
    <3>1. CASE requests[r].kind = "call"
      BY <1>4, <2>2, <3>1 DEF Succeeds, tokenVars, pageVars, socketVars, LogoutInv
    <3>2. CASE requests[r].kind = "login"
      BY <1>4, <2>2, <3>2 DEF Succeeds, LogoutInv
    <3>3. CASE requests[r].kind \in {"loginMe", "me"}
      <4> DEFINE to == IF requests[r].kind = "me" THEN going ELSE "app"
      <4>1. /\ Arrives(to, accessToken, TRUE) /\ isRefreshing' = isRefreshing
            /\ ~(to = "admin" /\ accessToken /\ ~(TRUE /\ IsAdmin))
                 => UNCHANGED <<token, refreshToken, expired>>
        BY <2>2, <3>3 DEF Succeeds
      <4> QED
        BY <1>4, <4>1, ArrivesKeepsLogout
    <3> QED
      BY <2>2, <3>1, <3>2, <3>3 DEF Succeeds
  <2>3. ASSUME NEW r \in Request, Rejected(r) PROVE LogoutInv'
    BY <1>4, <2>3, GuardsView, GoesOut
       DEF Rejected, Cleared, tokenVars, pageVars, socketVars, LogoutInv
  <2>4. ASSUME NEW r \in Request, Call(r) \/ MarkReadEnds(r) \/ handleLogin(r) \/ Fails(r)
        PROVE  LogoutInv'
    BY <1>4, <2>4
       DEF Call, MarkReadEnds, handleLogin, Fails, tokenVars, pageVars, socketVars, LogoutInv
  <2>5. ASSUME NEW r \in Request, Unauthorized(r) PROVE LogoutInv'
    BY <1>4, <2>5 DEF Unauthorized, pageVars, socketVars, LogoutInv
  <2>6. ASSUME logout PROVE LogoutInv'
    BY <1>4, <2>6, GoesOut DEF logout, Cleared, LogoutInv
  <2>7. ASSUME RefreshSucceeds \/ RefreshFails PROVE LogoutInv'
    <3>1. isRefreshing /\ UNCHANGED <<loggedOut, undone>>
      BY <2>7 DEF RefreshSucceeds, RefreshFails
    <3> QED
      BY <1>4, <3>1 DEF LogoutInv
  <2>8. ASSUME Reload PROVE LogoutInv'
    BY <1>4, <2>8 DEF Reload, LogoutInv
  <2> QED
    BY <1>4, <2>1, <2>2, <2>3, <2>4, <2>5, <2>6, <2>7, <2>8 DEF SessionNext
<1>5. CASE part # "link" /\ (Expires \/ debouncedMarkRead) /\ UNCHANGED part
  BY <1>5 DEF Expires, debouncedMarkRead, tokenVars, pageVars, socketVars, LogoutInv
<1> QED
  BY <1>1, <1>2, <1>3, <1>4, <1>5 DEF Next

\* After a logout no token and no view comes back before the next login, unless a
\* refresh was under way.
THEOREM LogoutHoldsCorrect == Spec => []LogoutHolds
<1>1. Init => LogoutInv
  BY DEF Init, SessionInit, LogoutInv
<1>2. LogoutInv /\ [Next]_vars => LogoutInv'
  BY StepLogout
<1>3. LogoutInv => LogoutHolds
  BY DEF LogoutInv, LogoutHolds
<1> QED
  BY <1>1, <1>2, <1>3, PTL DEF Spec

-------------------------------------------------------------------------------
\* Types.

\* The types of the socket's variables.
SocketTyped ==
  /\ view \in {"off", "on"} /\ sock \in {"none", "connecting", "open", "closed"}
  /\ reconnectDelay \in Delays
  /\ loading \in BOOLEAN /\ leftEarly \in BOOLEAN
  /\ intentionalClose \in BOOLEAN /\ hasConnectedBefore \in BOOLEAN
  /\ reconnectTimer \in BOOLEAN /\ pingTimer \in BOOLEAN /\ fallbackPollTimer \in BOOLEAN

\* The least of two numbers.
LEMMA MinOfTwo ==
  ASSUME NEW m \in Nat, NEW n \in Nat
  PROVE  Min({m, n}) = IF m =< n THEN m ELSE n
BY DEF Min

\* The delay doubles from 1 up to 30 seconds.
LEMMA DelayDoubles ==
  ASSUME reconnectDelay \in Delays
  PROVE  Min({2 * reconnectDelay, 30}) \in Delays
<1>1. 2 * reconnectDelay \in {2, 4, 8, 16, 32, 60}
  BY DEF Delays
<1>2. Min({2 * reconnectDelay, 30}) =
        IF 2 * reconnectDelay =< 30 THEN 2 * reconnectDelay ELSE 30
  BY <1>1, MinOfTwo
<1> QED
  BY <1>1, <1>2 DEF Delays

\* Every step of the view keeps them.
LEMMA ViewKeepsSocket ==
  ASSUME SocketTyped, PresenceTyped, ViewStep
  PROVE  SocketTyped'
<1> USE DEF SocketTyped
<1>1. CASE Mount
  BY <1>1 DEF Mount, Delays
<1>2. CASE disconnect
  BY <1>2 DEF disconnect
<1>3. CASE Mounted
  BY <1>3 DEF Mounted, connect
<1>4. CASE onopen
  BY <1>4 DEF onopen, Delays
<1>5. CASE onclose
  BY <1>5 DEF onclose
<1>6. CASE Reconnect
  BY <1>6, DelayDoubles DEF Reconnect, connect
<1>7. CASE PresenceNext
  <2>1. UNCHANGED socketVars
    BY <1>7 DEF PresenceNext, onUserActivity, OnHide, OnShow, onWindowBlur, onWindowFocus,
       AwayGraceEnds, TimePasses, presenceCheck, linkVars
  <2> QED
    BY <2>1 DEF socketVars
<1>8. CASE Reload
  BY <1>8 DEF Reload, Delays
<1>9. CASE UNCHANGED <<socketVars, presenceVars>>
  BY <1>9 DEF socketVars
<1> QED
  BY <1>1, <1>2, <1>3, <1>4, <1>5, <1>6, <1>7, <1>8, <1>9 DEF ViewStep

Routes == {"login", "app", "admin"}
RequestType == [state : {"none", "sent", "queued", "refreshing", "rejected"},
                kind : {"call", "login", "loginMe", "me"}, good : BOOLEAN, retry : BOOLEAN]

\* The types of the tokens and the flags.
FlagsTyped ==
  /\ token \in BOOLEAN /\ refreshToken \in BOOLEAN /\ accessToken \in BOOLEAN
  /\ user \in BOOLEAN /\ expired \in BOOLEAN /\ isRefreshing \in BOOLEAN
  /\ replacing \in BOOLEAN /\ loggedOut \in BOOLEAN /\ undone \in BOOLEAN
  /\ markReadTimer \in BOOLEAN

\* The guard's fetch ends where the user was going: at most one request is about
\* the session, and while it is the guard's there is a route that is waited for.
OneAuth ==
  /\ \A r \in Request : requests[r].state = "none" => requests[r].kind = "call"
  /\ \A r, s \in Request : requests[r].kind # "call" /\ requests[s].kind # "call" => r = s
  /\ \A r \in Request : requests[r].kind = "me" => going # "none"

RoutesTyped ==
  /\ requests \in [Request -> RequestType] /\ expiries \in 0 .. MaxExpiries
  /\ route \in Routes /\ going \in Routes \cup {"none"}
  /\ OneAuth

\* The guard lets every navigation end at a route.
LEMMA GuardedRoute ==
  ASSUME NEW to \in Routes, NEW loggedIn, NEW admin
  PROVE  Guarded(to, loggedIn, admin) \in Routes
BY DEF Guarded, Routes

\* A navigation that is let through ends at a route, and nobody waits for one.
LEMMA ArrivesTyped ==
  ASSUME NEW to \in Routes, NEW loggedIn, NEW known, Arrives(to, loggedIn, known)
  PROVE  route' \in Routes /\ going' = "none"
BY GuardedRoute DEF Arrives, Shows

\* It takes the tokens, or leaves them, and no more.
LEMMA ArrivesFlags ==
  ASSUME FlagsTyped, NEW to, NEW loggedIn \in BOOLEAN, NEW known \in BOOLEAN,
         Arrives(to, loggedIn, known),
         ~(to = "admin" /\ loggedIn /\ ~(known /\ IsAdmin))
           => UNCHANGED <<token, refreshToken, expired>>,
         isRefreshing' = isRefreshing, replacing' = replacing
  PROVE  FlagsTyped'
<1>1. CASE to = "admin" /\ loggedIn /\ ~(known /\ IsAdmin)
  BY <1>1 DEF FlagsTyped, Arrives, Cleared, Shows
<1>2. CASE ~(to = "admin" /\ loggedIn /\ ~(known /\ IsAdmin))
  BY <1>2 DEF FlagsTyped, Arrives, Shows
<1> QED
  BY <1>1, <1>2

\* Every step of the page keeps the types of its flags.
LEMMA StepFlags ==
  ASSUME FlagsTyped, [Next]_vars
  PROVE  FlagsTyped'
<1>1. CASE UNCHANGED vars
  BY <1>1 DEF vars, wsVars, linkVars, sessionVars, FlagsTyped
<1>2. CASE (LinkNext \/ PresenceNext) /\ UNCHANGED sessionVars
  <2>1. token' \in BOOLEAN
    BY <1>2 DEF FlagsTyped, LinkNext, Mounted, onopen, onclose, Reconnect, PresenceNext,
       onUserActivity, OnHide, OnShow, onWindowBlur, onWindowFocus,
       AwayGraceEnds, TimePasses, presenceCheck, linkVars
  <2> QED
    BY <1>2, <2>1 DEF sessionVars, FlagsTyped
<1>3. CASE (Mounted \/ onopen \/ onclose \/ Reconnect) /\ UNCHANGED sessionVars
  BY <1>3 DEF Mounted, onopen, onclose, Reconnect, sessionVars, FlagsTyped
<1>4. CASE SessionNext
  <2>1. ASSUME NEW to \in {"login", "app", "admin"}, Navigate(to) PROVE FlagsTyped'
    <3>1. CASE accessToken /\ ~user
      BY <2>1, <3>1 DEF Navigate, tokenVars, FlagsTyped
    <3>2. CASE ~(accessToken /\ ~user)
      <4>1. /\ Arrives(to, accessToken, user)
            /\ ~(to = "admin" /\ accessToken /\ ~(user /\ IsAdmin))
                 => UNCHANGED <<token, refreshToken, expired>>
            /\ isRefreshing' = isRefreshing /\ replacing' = replacing
        BY <2>1, <3>2 DEF Navigate
      <4> QED
        BY <4>1, ArrivesFlags DEF FlagsTyped
    <3> QED
      BY <3>1, <3>2
  <2>2. ASSUME NEW r \in Request, Succeeds(r) PROVE FlagsTyped'
    <3>1. CASE requests[r].kind \in {"call", "login"}
      BY <2>2, <3>1 DEF Succeeds, tokenVars, pageVars, FlagsTyped
    <3>2. CASE requests[r].kind \in {"loginMe", "me"}
      <4> DEFINE to == IF requests[r].kind = "me" THEN going ELSE "app"
      <4>1. /\ Arrives(to, accessToken, TRUE)
            /\ isRefreshing' = isRefreshing /\ replacing' = replacing
            /\ ~(to = "admin" /\ accessToken /\ ~(TRUE /\ IsAdmin))
                 => UNCHANGED <<token, refreshToken, expired>>
        BY <2>2, <3>2 DEF Succeeds
      <4>2. accessToken \in BOOLEAN
        BY DEF FlagsTyped
      <4> HIDE DEF to
      <4> QED
        BY <4>1, <4>2, ArrivesFlags
    <3> QED
      BY <2>2, <3>1, <3>2 DEF Succeeds
  <2>3. ASSUME NEW r \in Request, Rejected(r) PROVE FlagsTyped'
    BY <2>3 DEF Rejected, Cleared, Shows, tokenVars, pageVars, FlagsTyped
  <2>4. ASSUME NEW r \in Request,
               Call(r) \/ MarkReadEnds(r) \/ handleLogin(r) \/ Fails(r) \/ Unauthorized(r)
        PROVE  FlagsTyped'
    BY <2>4, ZenonT(30) DEF Call, MarkReadEnds, handleLogin, Fails, Unauthorized, tokenVars,
                            pageVars, FlagsTyped
  <2>5. CASE logout
    BY <2>5 DEF logout, Cleared, Shows, FlagsTyped
  <2>6. CASE RefreshSucceeds \/ RefreshFails
    BY <2>6 DEF RefreshSucceeds, RefreshFails, pageVars, FlagsTyped
  <2>7. CASE Reload
    BY <2>7 DEF Reload, FlagsTyped
  <2> QED
    BY <1>4, <2>1, <2>2, <2>3, <2>4, <2>5, <2>6, <2>7 DEF SessionNext
<1>5. CASE Expires \/ debouncedMarkRead
  BY <1>5 DEF Expires, debouncedMarkRead, tokenVars, pageVars, FlagsTyped
<1> QED
  BY <1>1, <1>2, <1>3, <1>4, <1>5 DEF Next

\* What may take the place of a request.
LEMMA BecomesTyped ==
  ASSUME requests \in [Request -> RequestType], NEW r \in Request, NEW q \in RequestType,
         Becomes(r, q)
  PROVE  /\ requests' \in [Request -> RequestType]
         /\ requests'[r] = q /\ \A s \in Request : s # r => requests'[s] = requests[s]
BY DEF Becomes

\* Requests are sent, and end, of their type.
LEMMA SentTyped ==
  /\ NoRequest \in RequestType /\ NoRequest.kind = "call"
  /\ \A kind \in {"call", "login", "loginMe", "me"}, good \in BOOLEAN :
       Sent(kind, good) \in RequestType /\ Sent(kind, good).kind = kind
                                        /\ Sent(kind, good).state = "sent"
BY DEF NoRequest, Sent, RequestType

\* A request that goes on as what it was leaves it at one.
LEMMA SameKinds ==
  ASSUME RoutesTyped, requests' \in [Request -> RequestType],
         \A r \in Request : \/ requests'[r].kind = "call"
                            \/ requests'[r].kind = requests[r].kind /\ requests'[r].state # "none",
         going' = going, route' = route, expiries' \in 0 .. MaxExpiries
  PROVE  RoutesTyped'
BY DEF RoutesTyped, OneAuth

\* The request about the session is done.
LEMMA AuthDone ==
  ASSUME RoutesTyped, NEW r \in Request, requests[r].kind # "call", Becomes(r, NoRequest),
         route' \in Routes, going' = "none", expiries' = expiries
  PROVE  RoutesTyped'
<1>1. /\ requests' \in [Request -> RequestType]
      /\ requests'[r] = NoRequest /\ \A s \in Request : s # r => requests'[s] = requests[s]
  BY BecomesTyped, SentTyped DEF RoutesTyped
<1>2. \A s \in Request : requests'[s].kind = "call"
  BY <1>1, SentTyped DEF RoutesTyped, OneAuth
<1> QED
  BY <1>1, <1>2 DEF RoutesTyped, OneAuth

\* There was no request about the session, and now there is one.
LEMMA AuthSent ==
  ASSUME RoutesTyped, NEW r \in Request, NEW q \in RequestType, Becomes(r, q),
         \A s \in Request : requests[s].kind = "call" \/ s = r,
         q.state # "none", q.kind = "me" => going' # "none",
         route' = route, going' \in Routes \cup {"none"}, expiries' = expiries
  PROVE  RoutesTyped'
<1>1. /\ requests' \in [Request -> RequestType]
      /\ requests'[r] = q /\ \A s \in Request : s # r => requests'[s] = requests[s]
  BY BecomesTyped DEF RoutesTyped
<1> QED
  BY <1>1 DEF RoutesTyped, OneAuth

\* No request is the guard's while nobody waits for a route.
LEMMA NobodyWaits ==
  ASSUME RoutesTyped, UNCHANGED <<requests, expiries>>, going = "none",
         route' \in Routes, going' = "none"
  PROVE  RoutesTyped'
BY DEF RoutesTyped, OneAuth

\* A request that takes another state stays of its kind.
LEMMA StateChanges ==
  ASSUME RoutesTyped, NEW r \in Request, NEW q \in RequestType, Becomes(r, q),
         q.kind = requests[r].kind, q.state # "none" \/ q.kind = "call",
         UNCHANGED <<route, going, expiries>>
  PROVE  RoutesTyped'
<1>1. /\ requests' \in [Request -> RequestType]
      /\ requests'[r] = q /\ \A s \in Request : s # r => requests'[s] = requests[s]
  BY BecomesTyped DEF RoutesTyped
<1>2. \A s \in Request : \/ requests'[s].kind = "call"
                         \/ requests'[s].kind = requests[s].kind /\ requests'[s].state # "none"
  BY <1>1 DEF RoutesTyped, OneAuth
<1>3. expiries' \in 0 .. MaxExpiries
  BY DEF RoutesTyped
<1> QED
  BY <1>1, <1>2, <1>3, SameKinds

\* Every step of the page leaves routes and requests of their types.
LEMMA StepRoutes ==
  ASSUME RoutesTyped, FlagsTyped, [Next]_vars
  PROVE  RoutesTyped'
<1>0. /\ requests \in [Request -> RequestType] /\ expiries \in 0 .. MaxExpiries
      /\ expiries \in Nat /\ MaxExpiries \in Nat /\ (token /\ ~expired) \in BOOLEAN
  BY SessionAssumption DEF RoutesTyped
<1>1. CASE UNCHANGED vars \/ UNCHANGED sessionVars
  BY <1>1 DEF vars, sessionVars, RoutesTyped, OneAuth
<1>2. CASE SessionNext
  <2>1. ASSUME NEW to \in {"login", "app", "admin"}, Navigate(to) PROVE RoutesTyped'
    <3>1. CASE accessToken /\ ~user
      <4>1. PICK r \in Request : Becomes(r, Sent("me", token /\ ~expired))
        BY <2>1, <3>1 DEF Navigate, Waiting
      <4> DEFINE q == Sent("me", token /\ ~expired)
      <4>2. q \in RequestType /\ q.kind = "me" /\ q.state = "sent"
        BY <1>0, SentTyped
      <4>3. \A s \in Request : requests[s].kind = "call"
        BY <1>0, <2>1, SentTyped DEF Navigate, RoutesTyped, OneAuth, RequestType
      <4>4. going' = to /\ route' = route /\ expiries' = expiries
        BY <2>1, <3>1 DEF Navigate
      <4> HIDE DEF q
      <4> QED
        BY <4>1, <4>2, <4>3, <4>4, AuthSent DEF q, Routes
    <3>2. CASE ~(accessToken /\ ~user)
      <4>1. Arrives(to, accessToken, user) /\ UNCHANGED <<requests, expiries>> /\ going = "none"
        BY <2>1, <3>2 DEF Navigate
      <4>2. to \in Routes
        BY DEF Routes
      <4> QED
        BY <4>1, <4>2, ArrivesTyped, NobodyWaits
    <3> QED
      BY <3>1, <3>2
  <2>2. ASSUME NEW r \in Request, Succeeds(r) PROVE RoutesTyped'
    <3>1. CASE requests[r].kind = "call"
      BY <2>2, <3>1, SentTyped, StateChanges DEF Succeeds, pageVars
    <3>2. CASE requests[r].kind = "login"
      <4> DEFINE q == Sent("loginMe", TRUE)
      <4>1. q \in RequestType /\ q.kind = "loginMe" /\ q.state = "sent"
        BY SentTyped
      <4>2. Becomes(r, q) /\ UNCHANGED <<route, going, expiries>>
        BY <2>2, <3>2 DEF Succeeds, pageVars
      <4>3. \A s \in Request : requests[s].kind = "call" \/ s = r
        BY <3>2 DEF RoutesTyped, OneAuth
      <4> HIDE DEF q
      <4> QED
        BY <4>1, <4>2, <4>3, AuthSent DEF RoutesTyped
    <3>3. CASE requests[r].kind \in {"loginMe", "me"}
      <4> DEFINE to == IF requests[r].kind = "me" THEN going ELSE "app"
      <4>1. Arrives(to, accessToken, TRUE) /\ Becomes(r, NoRequest) /\ expiries' = expiries
        BY <2>2, <3>3 DEF Succeeds
      <4>2. to \in Routes
        BY DEF RoutesTyped, OneAuth, Routes
      <4> HIDE DEF to
      <4>3. route' \in Routes /\ going' = "none"
        BY <4>1, <4>2, ArrivesTyped
      <4> QED
        BY <3>3, <4>1, <4>3, AuthDone
    <3> QED
      BY <2>2, <3>1, <3>2, <3>3 DEF Succeeds
  <2>3. ASSUME NEW r \in Request, Rejected(r) PROVE RoutesTyped'
    <3>1. CASE requests[r].kind = "call"
      BY <2>3, <3>1, SentTyped, StateChanges DEF Rejected, pageVars
    <3>2. CASE requests[r].kind = "login"
      <4>1. Becomes(r, NoRequest) /\ UNCHANGED <<route, going, expiries>>
        BY <2>3, <3>2 DEF Rejected, pageVars
      <4>2. /\ requests' \in [Request -> RequestType]
            /\ requests'[r] = NoRequest /\ \A s \in Request : s # r => requests'[s] = requests[s]
        BY <1>0, <4>1, BecomesTyped, SentTyped
      <4> QED
        BY <1>0, <4>1, <4>2, SentTyped DEF RoutesTyped, OneAuth
    <3>3. CASE requests[r].kind \in {"loginMe", "me"}
      <4> DEFINE to == IF requests[r].kind = "me" THEN going ELSE "app"
      <4>1. /\ Shows(Guarded(to, FALSE, FALSE)) /\ Becomes(r, NoRequest) /\ expiries' = expiries
        BY <2>3, <3>3 DEF Rejected
      <4>2. to \in Routes
        BY DEF RoutesTyped, OneAuth, Routes
      <4> HIDE DEF to
      <4>3. route' \in Routes /\ going' = "none"
        BY <4>1, <4>2, GuardedRoute DEF Shows
      <4> QED
        BY <3>3, <4>1, <4>3, AuthDone
    <3> QED
      BY <1>0, <3>1, <3>2, <3>3 DEF RequestType
  <2>4. ASSUME NEW r \in Request, Call(r) \/ MarkReadEnds(r) PROVE RoutesTyped'
    <3> DEFINE q == Sent("call", token /\ ~expired)
    <3>1. q \in RequestType /\ q.kind = "call" /\ requests[r].kind = "call"
      BY <1>0, <2>4, SentTyped DEF Call, MarkReadEnds
    <3>2. Becomes(r, q) /\ UNCHANGED <<route, going, expiries>>
      BY <2>4 DEF Call, MarkReadEnds, pageVars
    <3> HIDE DEF q
    <3> QED
      BY <3>1, <3>2, StateChanges
  <2>5. ASSUME NEW r \in Request, handleLogin(r) PROVE RoutesTyped'
    <3>1. PICK right \in BOOLEAN : Becomes(r, Sent("login", right))
      BY <2>5 DEF handleLogin
    <3> DEFINE q == Sent("login", right)
    <3>2. q \in RequestType /\ q.kind = "login" /\ q.state = "sent"
      BY SentTyped
    <3>3. \A s \in Request : requests[s].kind = "call"
      BY <2>5 DEF handleLogin, RoutesTyped, OneAuth
    <3>4. UNCHANGED <<route, going, expiries>> /\ Becomes(r, q)
      BY <2>5, <3>1 DEF handleLogin, pageVars
    <3> HIDE DEF q
    <3> QED
      BY <3>2, <3>3, <3>4, AuthSent DEF RoutesTyped
  <2>6. ASSUME NEW r \in Request, Fails(r) \/ Unauthorized(r) PROVE RoutesTyped'
    <3>1. requests[r] \in RequestType /\ UNCHANGED <<route, going, expiries>>
      BY <1>0, <2>6 DEF Fails, Unauthorized, pageVars
    <3>2. PICK q \in RequestType :
            Becomes(r, q) /\ q.kind = requests[r].kind /\ q.state # "none"
      <4>1. \A state \in {"rejected", "queued", "refreshing"}, b \in BOOLEAN :
              LET q == [requests[r] EXCEPT !.state = state, !.retry = b]
                  p == [requests[r] EXCEPT !.state = state]
              IN /\ p \in RequestType /\ p.kind = requests[r].kind /\ p.state # "none"
                 /\ q \in RequestType /\ q.kind = requests[r].kind /\ q.state # "none"
        BY <3>1 DEF RequestType
      <4> QED
        BY <2>6, <4>1 DEF Fails, Unauthorized
    <3> QED
      BY <3>1, <3>2, StateChanges
  <2>7. CASE logout
    <3>1. Shows("login") /\ UNCHANGED <<requests, expiries>> /\ going = "none"
      BY <2>7 DEF logout
    <3> QED
      BY <3>1, NobodyWaits DEF Shows, Routes
  <2>8. CASE RefreshSucceeds \/ RefreshFails
    <3> DEFINE again(q) == [q EXCEPT !.state = "sent", !.good = q.kind # "login"]
               givenUp(q) == [q EXCEPT !.state = "rejected"]
    <3>1. \A q \in RequestType :
            /\ again(q) \in RequestType /\ again(q).kind = q.kind /\ again(q).state = "sent"
            /\ givenUp(q) \in RequestType /\ givenUp(q).kind = q.kind
            /\ givenUp(q).state = "rejected"
      BY DEF RequestType
    <3>2. \/ requests' = [r \in Request |->
               IF requests[r].state \in {"queued", "refreshing"} THEN again(requests[r])
                                                               ELSE requests[r]]
          \/ requests' = [r \in Request |->
               IF requests[r].state \in {"queued", "refreshing"} THEN givenUp(requests[r])
                                                               ELSE requests[r]]
      BY <2>8 DEF RefreshSucceeds, RefreshFails
    <3> HIDE DEF again, givenUp
    <3>3. requests' \in [Request -> RequestType]
      BY <1>0, <3>1, <3>2
    <3>4. \A r \in Request : \/ requests'[r] = requests[r]
                             \/ /\ requests'[r].kind = requests[r].kind
                                /\ requests'[r].state \in {"sent", "rejected"}
      BY <1>0, <3>1, <3>2
    <3>5. UNCHANGED <<route, going, expiries>>
      BY <2>8 DEF RefreshSucceeds, RefreshFails, pageVars
    <3>6. \A r \in Request : \/ requests'[r].kind = "call"
                             \/ requests'[r].kind = requests[r].kind /\ requests'[r].state # "none"
      BY <3>4 DEF RoutesTyped, OneAuth
    <3> QED
      BY <1>0, <3>5, <3>3, <3>6, SameKinds
  <2>9. CASE Reload
    <3>1. CASE ~token
      <4>1. /\ \A r \in Request : requests'[r] = NoRequest
            /\ requests' \in [Request -> RequestType]
        BY <2>9, <3>1, SentTyped DEF Reload
      <4> QED
        BY <2>9, <3>1, <4>1, SentTyped, <1>0 DEF Reload, RoutesTyped, OneAuth, Routes
    <3>2. CASE token
      <4> DEFINE q == Sent("me", ~expired)
      <4>1. q \in RequestType /\ q.kind = "me" /\ q.state = "sent"
        BY SentTyped
      <4>2. PICK r \in Request : requests' = [s \in Request |-> IF s = r THEN q ELSE NoRequest]
        BY <2>9, <3>2 DEF Reload
      <4> HIDE DEF q
      <4>3. requests' \in [Request -> RequestType] /\ requests'[r] = q
            /\ \A s \in Request : s # r => requests'[s] = NoRequest
        BY <4>1, <4>2, SentTyped
      <4>4. going' = "login" /\ route' = "login" /\ expiries' = expiries
        BY <2>9, <3>2 DEF Reload
      <4> QED
        BY <1>0, <4>1, <4>3, <4>4, SentTyped DEF RoutesTyped, OneAuth, Routes
    <3> QED
      BY <3>1, <3>2
  <2> QED
    BY <1>2, <2>1, <2>2, <2>3, <2>4, <2>5, <2>6, <2>7, <2>8, <2>9 DEF SessionNext
<1>3. CASE Expires
  <2>1. requests' \in [Request -> RequestType]
        /\ \A r \in Request : requests'[r].kind = requests[r].kind
                           /\ requests'[r].state = requests[r].state
    BY <1>0, <1>3 DEF Expires, RequestType
  <2>2. expiries' \in 0 .. MaxExpiries
    BY <1>0, <1>3 DEF Expires
  <2>3. UNCHANGED <<route, going>>
    BY <1>3 DEF Expires, pageVars
  <2> QED
    BY <2>1, <2>2, <2>3, SameKinds DEF RoutesTyped, OneAuth
<1>4. CASE debouncedMarkRead
  BY <1>4 DEF debouncedMarkRead, RoutesTyped, OneAuth
<1> QED
  BY <1>1, <1>2, <1>3, <1>4 DEF Next

\* The page's variables are of their types: no navigation ends anywhere but at a route,
\* for the guard's fetch that brings it there is the only one, and remembers where to.
THEOREM AppTypeCorrect == Spec => []TypeOK
<1> DEFINE Typed == PresenceTyped /\ SocketTyped /\ FlagsTyped /\ RoutesTyped
<1>1. Init => Typed
  <2> SUFFICES ASSUME Init PROVE Typed
    OBVIOUS
  <2> USE DEF Init, WsInit, SessionInit
  <2>1. PresenceTyped
    BY DEF PresenceTyped
  <2>2. SocketTyped
    BY DEF SocketTyped, Delays
  <2>3. FlagsTyped
    BY DEF FlagsTyped
  <2>4. RoutesTyped
    BY SentTyped, SessionAssumption DEF RoutesTyped, OneAuth, Routes
  <2> QED
    BY <2>1, <2>2, <2>3, <2>4
<1>2. Typed /\ [Next]_vars => Typed'
  BY StepOfView, ViewKeepsPresence, ViewKeepsSocket, StepFlags, StepRoutes
<1>3. Typed => TypeOK
  <2> SUFFICES ASSUME Typed PROVE TypeOK
    OBVIOUS
  <2>1. WsTypeOK
    BY DEF PresenceTyped, SocketTyped, FlagsTyped, WsTypeOK
  <2>2. SessionTypeOK
    BY DEF FlagsTyped, RoutesTyped, SessionTypeOK, RequestType, Routes
  <2> QED
    BY <2>1, <2>2 DEF TypeOK
<1> QED
  BY <1>1, <1>2, <1>3, PTL DEF Spec
===============================================================================
