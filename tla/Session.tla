-------------------------------- MODULE Session --------------------------------
(***************************************************************************)
(* The session of one page: the tokens in localStorage and in the auth     *)
(* store, the requests of api/client.ts with the one refresh they wait     *)
(* for, the guard of the router, and the view that a route mounts.         *)
(***************************************************************************)
EXTENDS WsClient

CONSTANTS
  Request,      \* bounds the requests in flight
  IsAdmin,      \* the account's is_admin
  MaxExpiries   \* bounds how often an access token expires

ASSUME SessionAssumption == IsAdmin \in BOOLEAN /\ MaxExpiries \in Nat

VARIABLES
  refreshToken,   \* localStorage holds a refresh token
  accessToken,    \* the auth store's copy of the access token: logged in
  user,           \* the auth store has a user
  expired,        \* the token in localStorage has expired
  expiries,
  requests,       \* what each request waits for
  isRefreshing,   \* failedQueue holds the requests in state "queued"
  route,          \* "login", "app" or "admin"
  going,          \* the route whose guard awaits fetchMe, or "none"
  replacing,      \* location.replace('/login') was called
  markReadTimer,  \* runs, in this view or in one that has left (two count for one)
  loggedOut,      \* history: the user logged out, and did not log in again
  undone          \* history: a refresh was under way at the logout

tokenVars == <<token, refreshToken, accessToken, user, expired>>
pageVars == <<socketVars, presenceVars, route, going, markReadTimer>>
sessionVars == <<refreshToken, accessToken, user, expired, expiries, requests,
                 isRefreshing, route, going, replacing, markReadTimer, loggedOut, undone>>

\* good: the server will accept what was sent; retry: it carries _retry.
NoRequest == [state |-> "none", kind |-> "call", good |-> FALSE, retry |-> FALSE]

SessionInit ==
  /\ token = FALSE /\ refreshToken = FALSE /\ accessToken = FALSE /\ user = FALSE
  /\ expired = FALSE /\ expiries = 0
  /\ requests = [r \in Request |-> NoRequest] /\ isRefreshing = FALSE
  /\ route = "login" /\ going = "none" /\ replacing = FALSE
  /\ markReadTimer = FALSE /\ loggedOut = FALSE /\ undone = FALSE

SessionTypeOK ==
  /\ \A b \in {refreshToken, accessToken, user, expired, isRefreshing, replacing,
               markReadTimer, loggedOut, undone} : b \in BOOLEAN
  /\ requests \in [Request -> [state : {"none", "sent", "queued", "refreshing", "rejected"},
       kind : {"call", "login", "loginMe", "me"}, good : BOOLEAN, retry : BOOLEAN]]
  /\ expiries \in 0..MaxExpiries
  /\ route \in {"login", "app", "admin"} /\ going \in {"none", "login", "app", "admin"}

Waiting(state) == {r \in Request : requests[r].state = state}

Sent(kind, good) == [state |-> "sent", kind |-> kind, good |-> good, retry |-> FALSE]

Becomes(r, q) == requests' = [requests EXCEPT ![r] = q]

Cleared ==
  /\ token' = FALSE /\ refreshToken' = FALSE /\ accessToken' = FALSE /\ user' = FALSE
  /\ UNCHANGED expired

-----------------------------------------------------------------------------
\* The router: where beforeEach lets a navigation end, given the store.
Guarded(to, loggedIn, admin) ==
  CASE to = "app" /\ ~loggedIn            -> "login"
    [] to = "admin" /\ ~(loggedIn /\ admin) -> "login"
    [] to = "login" /\ loggedIn           -> "app"
    [] OTHER                              -> to

\* The messenger view is mounted by its route and unmounted with it; the markRead
\* timer is not cleared.
Shows(to) ==
  /\ route' = to /\ going' = "none" /\ UNCHANGED markReadTimer
  /\ IF view = "off" /\ to = "app" THEN Mount
     ELSE IF view = "on" /\ to # "app" THEN disconnect
     ELSE UNCHANGED <<socketVars, presenceVars>>

\* The guard lets the navigation end; a logged in user who is no admin is
\* logged out by the attempt.
Arrives(to, loggedIn, known) ==
  /\ Shows(Guarded(to, loggedIn, known /\ IsAdmin))
  /\ IF to = "admin" /\ loggedIn /\ ~(known /\ IsAdmin)
     THEN Cleared /\ loggedOut' = TRUE /\ undone' = isRefreshing
     ELSE /\ accessToken' = loggedIn /\ user' = known
          /\ UNCHANGED <<loggedOut, undone>>

\* The guard fetches the user first when there is a token and no user.
Navigate(to) ==
  /\ going = "none" /\ ~replacing
  /\ \A r \in Request : requests[r].kind \in {"login", "loginMe"} => requests[r] = NoRequest
  /\ to # route
  /\ IF accessToken /\ ~user
     THEN /\ going' = to
          /\ \E r \in Waiting("none") : Becomes(r, Sent("me", token /\ ~expired))
          /\ UNCHANGED <<tokenVars, socketVars, presenceVars, route, markReadTimer, loggedOut,
                         undone>>
     ELSE /\ Arrives(to, accessToken, user)
          /\ (~(to = "admin" /\ accessToken /\ ~(user /\ IsAdmin))
                => UNCHANGED <<token, refreshToken, expired>>)
          /\ UNCHANGED requests
  /\ UNCHANGED <<expiries, isRefreshing, replacing>>

\* The page is loaded again: all that is left is localStorage.
Reload ==
  /\ replacing
  /\ replacing' = FALSE /\ isRefreshing' = FALSE /\ user' = FALSE
  /\ markReadTimer' = FALSE
  /\ accessToken' = token
  /\ view' = "off" /\ loading' = FALSE /\ leftEarly' = FALSE /\ sock' = "none"
  /\ intentionalClose' = FALSE /\ hasConnectedBefore' = FALSE
  /\ reconnectTimer' = FALSE /\ reconnectDelay' = 1
  /\ pingTimer' = FALSE /\ fallbackPollTimer' = FALSE
  /\ presenceSetup' = FALSE /\ awayGraceTimer' = FALSE /\ isPresenceActive' = FALSE
  /\ windowHasFocus' = TRUE /\ recent' = TRUE
  /\ route' = "login" /\ going' = IF token THEN "login" ELSE "none"
  /\ IF token
     THEN \E r \in Request : requests' = [q \in Request |->
            IF q = r THEN Sent("me", ~expired) ELSE NoRequest]
     ELSE requests' = [r \in Request |-> NoRequest]
  /\ UNCHANGED <<token, refreshToken, expired, expiries, hidden, told, loggedOut, undone>>

-----------------------------------------------------------------------------
\* The user and the clock.

Call(r) ==
  /\ requests[r] = NoRequest /\ route # "login"
  /\ Becomes(r, Sent("call", token /\ ~expired))
  /\ UNCHANGED <<tokenVars, pageVars, expiries, isRefreshing, replacing, loggedOut, undone>>

\* A message arrives in the chat that is open and watched, on a socket the server knows.
debouncedMarkRead ==
  /\ sock = "open" /\ told # "nothing" /\ isPresenceActive /\ windowHasFocus
  /\ ~markReadTimer /\ markReadTimer' = TRUE
  /\ UNCHANGED <<tokenVars, socketVars, presenceVars, route, going, expiries, requests,
                 isRefreshing, replacing, loggedOut, undone>>

\* A second later markRead is called, whoever is there by then.
MarkReadEnds(r) ==
  /\ markReadTimer /\ markReadTimer' = FALSE
  /\ requests[r] = NoRequest
  /\ Becomes(r, Sent("call", token /\ ~expired))
  /\ UNCHANGED <<tokenVars, socketVars, presenceVars, route, going, expiries, isRefreshing,
                 replacing, loggedOut, undone>>

\* handleLogin, with the right password or not; the form waits for its answer.
handleLogin(r) ==
  /\ route = "login" /\ going = "none" /\ ~replacing
  /\ \A q \in Request : requests[q].state = "none" \/ requests[q].kind = "call"
  /\ requests[r] = NoRequest
  /\ \E right \in BOOLEAN : Becomes(r, Sent("login", right))
  /\ UNCHANGED <<tokenVars, pageVars, expiries, isRefreshing, replacing, loggedOut, undone>>

\* Mutant: logout clears the store only.
logoutStoreOnly ==
  /\ user /\ route # "login" /\ going = "none"
  /\ accessToken' = FALSE /\ user' = FALSE
  /\ Shows("login")
  /\ loggedOut' = TRUE /\ undone' = isRefreshing
  /\ UNCHANGED <<token, refreshToken, expired, expiries, requests, isRefreshing, replacing>>

logout ==
  /\ user /\ route # "login" /\ going = "none"
  /\ Cleared /\ Shows("login")
  /\ loggedOut' = TRUE /\ undone' = isRefreshing
  /\ UNCHANGED <<expiries, requests, isRefreshing, replacing>>

Expires ==
  /\ token /\ ~expired /\ expiries < MaxExpiries
  /\ expired' = TRUE /\ expiries' = expiries + 1
  /\ requests' = [r \in Request |->
       IF requests[r].state = "sent" /\ requests[r].kind # "login"
       THEN [requests[r] EXCEPT !.good = FALSE] ELSE requests[r]]
  /\ UNCHANGED <<token, refreshToken, accessToken, user, pageVars, isRefreshing,
                 replacing, loggedOut, undone>>

-----------------------------------------------------------------------------
\* The answers.

\* login stores the tokens and fetches the user; getMe lets the guard or the
\* login go on.
Succeeds(r) ==
  /\ requests[r].state = "sent" /\ requests[r].good
  /\ \/ /\ requests[r].kind = "call"
        /\ Becomes(r, NoRequest)
        /\ UNCHANGED <<tokenVars, pageVars, loggedOut, undone>>
     \/ /\ requests[r].kind = "login"
        /\ token' = TRUE /\ refreshToken' = TRUE /\ accessToken' = TRUE /\ expired' = FALSE
        /\ Becomes(r, Sent("loginMe", TRUE))
        /\ loggedOut' = FALSE /\ undone' = FALSE
        /\ UNCHANGED <<user, pageVars>>
     \/ /\ requests[r].kind \in {"loginMe", "me"}
        /\ Becomes(r, NoRequest)
        /\ LET to == IF requests[r].kind = "me" THEN going ELSE "app" IN
             /\ Arrives(to, accessToken, TRUE)
             /\ (~(to = "admin" /\ accessToken /\ ~IsAdmin)
                   => UNCHANGED <<token, refreshToken, expired>>)
  /\ UNCHANGED <<expiries, isRefreshing, replacing>>

\* Any error but a 401.
Fails(r) ==
  /\ requests[r].state = "sent"
  /\ Becomes(r, [requests[r] EXCEPT !.state = "rejected"])
  /\ UNCHANGED <<tokenVars, pageVars, expiries, isRefreshing, replacing, loggedOut, undone>>

\* A 401: the first of several refreshes, the others wait for it; a request
\* that was tried again is given up, and without a refresh token all is over.
Unauthorized(r) ==
  /\ requests[r].state = "sent" /\ ~requests[r].good
  /\ LET q == requests[r] IN
     \/ /\ q.retry
        /\ Becomes(r, [q EXCEPT !.state = "rejected"])
        /\ UNCHANGED <<token, refreshToken, isRefreshing, replacing>>
     \/ /\ ~q.retry /\ isRefreshing
        /\ Becomes(r, [q EXCEPT !.state = "queued"])
        /\ UNCHANGED <<token, refreshToken, isRefreshing, replacing>>
     \/ /\ ~q.retry /\ ~isRefreshing /\ refreshToken
        /\ Becomes(r, [q EXCEPT !.state = "refreshing", !.retry = TRUE])
        /\ isRefreshing' = TRUE
        /\ UNCHANGED <<token, refreshToken, replacing>>
     \/ /\ ~q.retry /\ ~isRefreshing /\ ~refreshToken
        /\ Becomes(r, [q EXCEPT !.state = "rejected", !.retry = TRUE])
        /\ token' = FALSE /\ refreshToken' = FALSE /\ replacing' = TRUE
        /\ UNCHANGED isRefreshing
  /\ UNCHANGED <<accessToken, user, expired, pageVars, expiries, loggedOut, undone>>

\* Mutant: what is sent again still carries the old token, and lost its _retry.
RefreshSucceedsStale ==
  /\ isRefreshing
  /\ isRefreshing' = FALSE
  /\ token' = TRUE /\ expired' = FALSE
  /\ requests' = [r \in Request |->
       IF requests[r].state \in {"queued", "refreshing"}
       THEN [requests[r] EXCEPT !.state = "sent", !.retry = FALSE]
       ELSE requests[r]]
  /\ UNCHANGED <<refreshToken, accessToken, user, pageVars, expiries, replacing,
                 loggedOut, undone>>

\* The new token goes to localStorage, and every request is sent once more.
RefreshSucceeds ==
  /\ isRefreshing
  /\ isRefreshing' = FALSE
  /\ token' = TRUE /\ expired' = FALSE
  /\ requests' = [r \in Request |->
       IF requests[r].state \in {"queued", "refreshing"}
       THEN [requests[r] EXCEPT !.state = "sent", !.good = requests[r].kind # "login"]
       ELSE requests[r]]
  /\ UNCHANGED <<refreshToken, accessToken, user, pageVars, expiries, replacing,
                 loggedOut, undone>>

RefreshFails ==
  /\ isRefreshing
  /\ isRefreshing' = FALSE
  /\ token' = FALSE /\ refreshToken' = FALSE /\ replacing' = TRUE
  /\ requests' = [r \in Request |->
       IF requests[r].state \in {"queued", "refreshing"}
       THEN [requests[r] EXCEPT !.state = "rejected"] ELSE requests[r]]
  /\ UNCHANGED <<accessToken, user, expired, pageVars, expiries, loggedOut, undone>>

\* The caller's catch: fetchMe clears all, and the guard or the login goes on.
Rejected(r) ==
  /\ requests[r].state = "rejected"
  /\ Becomes(r, NoRequest)
  /\ IF requests[r].kind \in {"call", "login"}
     THEN UNCHANGED <<tokenVars, pageVars>>
     ELSE /\ Cleared
          /\ Shows(Guarded(IF requests[r].kind = "me" THEN going ELSE "app", FALSE, FALSE))
  /\ UNCHANGED <<expiries, isRefreshing, replacing, loggedOut, undone>>

SessionNext ==
  \/ \E to \in {"login", "app", "admin"} : Navigate(to)
  \/ \E r \in Request : Call(r) \/ MarkReadEnds(r) \/ handleLogin(r) \/ Succeeds(r)
                        \/ Fails(r) \/ Unauthorized(r) \/ Rejected(r)
  \/ logout \/ RefreshSucceeds \/ RefreshFails \/ Reload

\* The server answers, promises settle, the page that was asked for is loaded.
SessionFairness ==
  LET v == <<wsVars, sessionVars>> IN
  /\ \A r \in Request : WF_v(Succeeds(r) \/ Fails(r) \/ Unauthorized(r)) /\ WF_v(Rejected(r))
  /\ WF_v(RefreshSucceeds \/ RefreshFails) /\ WF_v(Reload)

-----------------------------------------------------------------------------
LeavesNothing ==
  view' = "off" /\ ~leftEarly' =>
    /\ sock' = "none"
    /\ ~(reconnectTimer \/ pingTimer \/ fallbackPollTimer \/ presenceSetup \/ awayGraceTimer)'
    /\ markReadTimer' => markReadTimer

\* What a view that has left leaves running: no socket, no listener, and of the timers
\* only the one of markRead, which disconnect does not clear, until it has run out; none
\* is started again.  A view that left while onMounted still awaited is no part of this:
\* connect then comes after disconnect, and nobody is left to close what it opens.
NothingAfterLeaving == [][LeavesNothing]_<<wsVars, sessionVars>>

\* No request waits for ever: what fails with a 401 while another one refreshes
\* is sent again or rejected, whatever becomes of the refresh.
RequestsSettle == \A r \in Request : (requests[r] # NoRequest) ~> (requests[r] = NoRequest)

\* A logout holds: no token comes back until the next login, unless a refresh
\* was under way, whose answer stores a new token whoever is logged in by then.
LogoutHolds == loggedOut /\ ~undone => ~(token \/ refreshToken \/ accessToken \/ view = "on")

===============================================================================
