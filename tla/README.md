# A formal model of the prilka messenger

prilka is a messenger: a C++ api process (drogon) over PostgreSQL and Redis, and a web and
desktop client (Vue, Pinia, Tauri). This directory holds TLA+ modules translated from its code,
TLC configurations that check them on small instances, and TLAPS proofs for every value of the
constants. Paths below are relative to the repository.

## Reading order

| module | models | checked by | proved in |
|---|---|---|---|
| `Presence` | presence tracker of the api process, `backend/src/ws/WsHandler.cpp` | `MCPresence` | `PresenceProofs` |
| `Fanout` | subscriptions and the Redis fan-out of the api process, same file | `MCFanout` | `FanoutProofs` |
| `Channel` | what `Fanout` promises to a subscribed connection | `MCFanout`, as a refinement | `FanoutProofs` |
| `ChatView` | what the client shows of one chat, `frontend/src/stores/messages.ts` | `MCChatView` | `ChatViewProofs` |
| `Delivery` | the way of a message from its row to that view; instantiates `ChatView` | `MCDelivery` | `DeliveryProofs` |
| `Membership` | chats, members, roles and invites, `ChatsController.cpp`, `InvitesController.cpp` | `MCRequests` | `RequestsProofs` |
| `Forwarding` | one `forwardMessages` and the callbacks of its inserts, `MessagesController.cpp` | `MCRequests` | `RequestsProofs` |
| `Requests` | the two above, of which one moves in a behaviour | `MCRequests` | `RequestsProofs` |
| `WsClient` | socket, timers and presence of one view, `frontend/src/composables/useWebSocket.ts` | `MCApp`, `MCClient` | `AppProofs` |
| `Session` | tokens, requests, refresh, routes, `frontend/src/api/client.ts`, `stores/auth.ts`, `router/` | `MCApp` | `AppProofs` |
| `App` | `Session` with the view it mounts and its socket | `MCApp` | `AppProofs` |
| `Chats`, `ChatList` | the chat list, badges and flags, `frontend/src/stores/chats.ts` | `MCClient` | `ClientProofs` |
| `Peers` | who is online and who types, as the list shows it | `MCClient` | `ClientProofs` |
| `ChatInfo` | the info dialog of a group or channel with its stores | `MCClient` | `ClientProofs` |
| `Dialogs` | the layers of `MessengerView.vue` and the ways they open a chat | `MCClient` | `ClientProofs` |
| `Client` | the four above over one socket | `MCClient` | `ClientProofs` |
| `ActiveChat` | what the parts of the chat panel share, `ChatPanel.vue`, `MessageContextMenu.vue` | `MCChatScreen` | `ScreenProofs` |
| `Compose`, `Selecting`, `Media`, `Finding` | the parts: composer; selection, forward, delete; files, voice; search, jumps, pins | `MCChatScreen` | `ScreenProofs` |
| `ChatScreen` | the parts over one active chat | `MCChatScreen` | `ScreenProofs` |

## Inventory

**Presence tracker** (`WsHandler.cpp`: `s_userConns`, `s_offlineTimers`, `ConnCtx`). State: the
connections registered per user, their `authed` and `active` flags, one debounce timer per user.
Operations: `auth` and the callback of its query, `ping`, `presence_update`, the close, the timer
callback. Threads: the event loop of each connection, database threads, the main loop for timers;
`s_userMu` is released between deciding and acting. Correct when the last announcement agrees, in
the end, with whether some live connection is active. Hard: every order of the sections of two
devices, a callback and a timer; pruning of connections whose close is still to come.

**Presence broadcast** (`broadcastPresence`). Two queries and one publish per contact, over several
Redis connections; privacy settings choose the audience. The client keeps a `presenceCache`.
Who hides his presence is announced to admins
only, while `listChats` names him online to all. Correct when every contact's view settles on the last
announcement.

**Connection registry and fan-out** (`s_subs`, `s_redisSubs`, `subscribe`, `broadcast`,
`broadcastToUser`). Correct when a subscribed connection gets each event once, a closed one is
forgotten, and the process listens to a channel as long as somebody is subscribed.

**Messages** (`MessagesController.cpp`). Rows with an id drawn from a sequence and a `created_at`;
send, list (newest page, after an id, before), delete, edit, pin, forward. Every handler is a chain
of autocommitted statements with callbacks. Correct when clients can fetch all rows page by page.

**Client message store** (`stores/messages.ts`). Per chat an array and a resume point `lastMsgId`;
loads with an `await` in the middle, pushes from the socket, own sends, removals, reaction counters,
pins, read receipts. The panel's jump to a message writes array and resume point from outside
(`ChatPanel.vue:816`). Correct when no message is shown twice, lost or passed over.

**Client socket** (`composables/useWebSocket.ts`). State: the socket, a reconnect timer that is also
the lock against a second one, its delay, heartbeat and polling timers, and of the presence focus,
visibility, recent activity, a grace timer and the status. Connect, resync, back-off, fallback
polling, presence reports, event dispatch. Correct when the client converges after any outage, and
when a view that has gone leaves nothing running.

**Client chat list** (`stores/chats.ts`): entries with badge and flags, contacts' presence, typing.
`loadChats` replaces everything by an answer that was taken earlier; events add to it; `markRead` is
debounced by one timer for all chats. Correct when, once all is quiet, it shows what the server has.

**Chat panel** (`ChatPanel.vue`, `Composer.vue`, `MessageBubble.vue`, `SearchBar.vue`, dialogs,
`useRecorder.ts`, `useDragSelect.ts`, `stores/selection.ts`). One instance for all chats: targets,
menus and dialogs survive a change of `activeChatId`, which the handlers name when they run. Correct
when what was picked in a chat goes to that chat, and nothing runs without its control.

**Info dialog** (`ChannelInfoModal.vue` and its views, `stores/channel.ts`, `stores/invites.ts`). Its
`chat-id` is the active chat; its stores are shared by all chats. Correct when it shows, and edits,
the chat on screen.

**Messenger view** (`MessengerView.vue`, drawer and dialogs). Layers with one order for Escape, and
chains of create or join, load the list, make active. Correct when the chat on screen is listed.

**Client session** (`api/client.ts`, `stores/auth.ts`, `router/index.ts`). Tokens in localStorage and
in the store, which are not kept together; one refresh at a time with a queue behind it; a guard
that may await. Correct when every request settles and a logout holds.

**Chats and membership** (`ChatsController.cpp`, `InvitesController.cpp`): create with detached
member inserts, direct-chat lookup, leave, promote, demote, delete, invites. Correct when a chat
with members has an owner, two users share one direct chat, and every member is notified.

**Reactions** (`ReactionsController.cpp`): DELETE, then INSERT if nothing was deleted; the clients
count by increments. **Read receipts**: `chat_last_read` with GREATEST, and overwritten by the
client's load. **Sessions of the api process** (`AuthController.cpp`, `JwtService.cpp`): stateless
tokens. **Settings, users, files, stickers, admin, metrics**: single statements or two in a row;
little protocol.

How they interact: controllers write a row, then `WsDispatch` publishes to `chat:<id>` or
`user:<id>`; the process that listens sends to the connections registered there; the client's socket
dispatches into the stores; the stores also ask the controllers over HTTP. No step is atomic with
the next.

## Presence

`s_userConns` is keyed by user and every handler touches one entry, so the module follows one user.
A locked section is an action; `pc`, `cb` and `timerPc` hold what a handler, an auth callback or the
timer callback does next. `sock` tells a dropped connection (`disconnected()` holds) from a closed
one (its close handler ran). `announced` is the status of the last `broadcastPresence` that started.
`invalidateTimer` takes effect through the main loop's queue; a timer that expires in between is in
the model one that expired just before the cancel. A socket authenticates once, as the client does;
a second `auth` on a live socket is left out. The refresh of `last_activity` is left out.

Two history variables name the windows the code leaves open. `missed`: an auth callback that is
overtaken by the close or the away report of its own connection announces online, or cancels the
timer, when nobody is left to take it back; and a close that finds the entry already erased
schedules nothing. `raced`: the timer callback checked, somebody came online and was announced, and
then the callback announced offline.

* `MCPresence.cfg` (two connections, two timers): the handlers' assumptions between sections hold
  (`HandlersStand`), outside those windows no announcement is forgotten (`OfflineNotForgotten`,
  `OnlineNotForgotten`), and each change is at last announced (`ChangesAnnounced`). A name of
  `Conn` is used again after its close, so reconnecting devices are covered. Two timers suffice: at
  most one is in `s_offlineTimers`, and one more can have been forgotten by a late `TimerErase`.
  When both are armed and neither is entered, a schedule waits for one to run; the proofs do not
  depend on that bound.
* `MCPresenceErase.cfg` shows the erased entry: two devices, the active one is dropped by TCP, the
  away one closes first, prunes it and erases the entry; nothing is scheduled, then or later.

Fairness: loops run what is queued on them, a query answers or fails, timers expire. Devices owe
nothing.

## Fanout

One chat in one api process: `s_subs`, `s_redisSubs`, the contexts' `subscriptions` and the Redis
subscriber. A subscribe message is a task that goes through the membership query, the registration,
the claim of the channel and the subscription to Redis (or its failure and the release of the claim),
each a locked section of its own; closes, other tasks and events run between them. Events are numbered
in the order in which Redis takes them. The vector of `s_subs` is counted per connection, so that one
entered twice would be sent everything twice. Whether a Redis is configured is chosen at the start;
without it `publishMessage` broadcasts itself. The user channels take the same steps.

`Channel` is what the process promises: from its first event on, a connection is sent every event
that is not lost to all, once and in order, until it ends. `ChannelKept` says that `Fanout` implements
it, with `passed <- published - Len(relay)`: an event waits in the relay or has been dealt with.

* `MCFanout.cfg` (two connections, two subscribes at a time, three events): `ChannelKept`;
  `OnceInOrder`, the property of `Channel`; what stays in `s_subs` after its close was registered
  after it (`ClosedForgotten`, with the history `late`: the callback looks at `disconnected()` before
  it locks); a registered connection is listened for or somebody is about to listen, whatever attempts
  failed before it was registered (`SubscriberListens`, with the history `deaf`: nothing tries again
  after a failure until the next subscribe); and it is at last listened for (`ListensAtLast`). Two
  tasks are enough for the race of two first subscribers and for one client that subscribes twice;
  three events for one before, one during and one after a listener is replaced.

Fairness: callbacks that were started go on, and Redis answers a SUBSCRIBE.

## ChatView

One chat of one client. The array is a bag of ids; its order is left out, its identity is not:
`loadOlder` holds a reference across its `await`, which `push` changes in place and a reload or a
removal replaces (`detached`, `olderArray`). The jump of `scrollToMessage` is a load as well (`JumpTo`,
`JumpLoaded`): its page takes the array's place and sets the resume point, forwards or back; that the
message is not on screen is left open, which allows more jumps than the code makes. A load is a request
and an arrival, any step may run between them, and the answers are arbitrary. The fetch of reactions
after an answer is left out; `loadingChat` and the panel's `loadingOlder` therefore end a little earlier
than in the code, which allows the model more, not less. Edits change no membership of the array and are
left out, and so are messages hidden or sent by others than through the operations here.

`MCChatView.cfg` (three messages, three loads): no message twice, in the view or in an array about
to come back (`NoDuplicates`); a shown message leaves only by a deletion, a reload of the newest page, a
jump, or an older page that was asked for before one of these replaced the array (`ShownStays`, with the
history `replaced`). In that last case the code loses what came to the new array, which the property
grants; it does not grant the loss of anything the older load's own array held. Three loads are an older
one with any two of the others.

## Delivery

One chat, one client, one api process. Actions: `sendMessage` up to its INSERT, the commit with the
publish and the answer, deletion for everyone, the pages of `listMessages` (newest, after an id,
before; and that of a jump, which is after an id as well), the pass of an
event through Redis, `subscribe`, the socket's opening and end, polls, scrolls, jumps, and the arrival of
answers, events and replies at `Store`, an instance of `ChatView`. Failures: a failed INSERT, a
failed PUBLISH, a failed request, a lost reply, the end of the process.

What the code leaves open is a variable, not an assumption: rows commit in any order (`overtaken`),
and the order of `created_at` may differ from that of the ids (`createdAt`), as `NOW()` is taken when
a statement starts and the id when it inserts.

* `MCDelivery.cfg` (three messages, one of them there from the start and the last perhaps the
  client's own; pages of one; scrolling, jumps, swapped creation times and every failure):
  `NewerSkipsNothing`, the resume point never passes a row that is not shown, except one committed
  or created out of order. Pages of one make every second message a page boundary.
* `MCDeliveryCatchUp.cfg` (fairness; three messages, one of them there from the start, pages of one):
  while the socket is down, polls show what is above the resume point, over more than one page. A
  message below one the client sent itself is not asked for again, which the property excuses; this
  run has no own sends, no scrolling and no jumps, so that TLC can check liveness, and does not exercise
  that excuse. A jump back (`ChatPanel.vue:818`) lowers the resume point; the next push raises it past what
  is not fetched, which nothing excuses and nothing repairs, so the property is not claimed with jumps.
* What neither covers is open in the code: after a reconnect the one page of the resync is asked for
  before the subscription stands (`useWebSocket.ts:259`), and a message published in between comes by
  neither and is not polled for.
* `MCDeliveryOlder.cfg` (no failures): `before` is a time stamp on one side and an id on the other;
  `Year` is the number the time stamp starts with.

Bounds: `MaxId` messages, of which `Earlier` exist and those in `Own` may be sent by the client itself;
`Load` requests in flight; `Limit`, the page; `Backlog` events on the socket (one loses nothing: a later
event may as well still be in Redis, from where it goes the same ways); `Scrolls`, `Jumps` and `Swaps`
turn older loads, jumps and swapped creation times on (`MCDeliveryOlder.cfg` needs the first only). With
one load in flight two newer loads never overlap here; `MCChatView` covers their effect on the array.
Fairness: a poll ticks while the socket is down (strong, since `Load` slots are the model's), every
request is answered or fails, and not every poll fails.

## Requests

`Membership` has the rows of `chats`, `chat_members` and `invites`, and the requests that change them:
`at` is the statement a request executes next, with what its earlier callbacks decided. Statements of
different requests interleave freely; none of the handlers uses a transaction. `detached` are the
member inserts of `createChat` that nobody waits for. A statement may fail, and the process may end
(`Crash`). Groups and channels differ in nothing here; the support chats of the admin pages are left out.

`Forwarding` is one request. Its callbacks run on the threads of the pool's ten connections and share
`newMessages`, `*remaining` and `*hasError` without a lock; a decrement is a read and a write, and of
two overlapping appends one may be lost. `lost` is the history of such overlaps. Other outcomes of
the race, such as an end of the process, are left out. The INSERTs go out at once, so the new ids
need not have the order of the originals.

`MCRequests.cfg` (three users, one chat, one invite, two requests; or three forwarded messages):

* `MembersRight`. A chat with members has one owner, unless he left as the only member
  (`OwnedUnlessLeft`, with the history `ownerLeft`: a detached insert or a join after that leaves a chat
  with members and no owner, which `ChatsController.cpp:443` means to prevent). No third member comes
  into a direct chat, although `joinInvite` looks at no type (`DirectStaysPrivate`). Whoever was a
  member when a chat was deleted is told, unless he came after the list was read (`late`) or the
  process ended (`DeletionTold`).
* `RoleStays`: no late statement lowers a role; an owner is one until he leaves or the chat goes.
* `AnswerRight`: a forward is told success once, only when all rows and events are there, and never
  together with an error, since lost decrements keep the counter too high; and it is answered, unless
  two decrements overlap. If they do, the client waits for good.

Two requests are enough for every pair of handlers that overlap; three users for an owner, one who
changes and one who is changed; one chat, since no invariant relates two (what two look-ups of the
same direct chat do is left open by the code); three messages for one callback between two that
overlap. `CHECK_DEADLOCK FALSE`: the one forward ends.

## The chat panel

`ActiveChat` holds the active chat, the open message menu with what it captured (`menu`) and the last
`request` the panel made: the chat it names, the chats its subjects belong to, and whether these were
picked before the active chat last changed. `late` is the history of the filled slots (reply, edit,
selection, dialog, file, recording) with such a target. The parts extend it:

* `Compose`: text area, reply and edit targets, emoji panel, reaction picker; `myRole`, which decides
  whether the composer is shown, is set by a watcher that awaits two answers (`loading`, `asked`). The
  composer is unmounted with a channel in which one may not write, and else keeps its state.
* `Selecting`: selection by menu, click and drag; the forward and delete dialogs. `onDeleteConfirm` is
  a loop with an `await` in it: a `batch` per run, which iterates over the array it captured.
* `Media`: attachment menu and preview, uploads under way, the recorder with its open prompts for the
  microphone (`prompts`), and the player of one bubble. A take has its microphone on (`live`) from the
  moment `getUserMedia` gave a stream until an `onstop` ends its tracks; that comes later, for a take to be
  sent (`stopping`) as for a cancelled one (`cancelling`), and reads the `recorder` variable when it
  runs. After the permission the constructor or `start()` may throw (`RecorderThrows`, `StartThrows`). `astray`
  is the history of the takes which another press of the button put out of reach before their own start
  or stop was over, and of those whose recorder threw.
* `Finding`: the search bar with its debounce timer, its searches in flight and its one `loading` flag
  (`searching`), which the first of two answers clears; jumps that fetch messages (`jumps`), deep links,
  the pinned message and the events about it.

`ChatScreen` composes them. The parts meet only in the active chat, the menu and the request, so a
behaviour lets the user work with one of them (`part`) while the chat changes freely; the number of
states is the sum over the parts, not their product.

`MCChatScreen.cfg` (a group and a channel in which the user is a plain member; two messages of the
group, one foreign, and one of the channel; one deletion loop, two uploads, three takes, one jump at a
time; with `DeleteFairness`, the loop goes on and its requests are answered):

* `OwnChatUnlessMoved`: a request about messages, files or recordings names the chat they were picked
  in, or the chat changed since. The code has no other protection; the run shows that `late` is
  complete, in particular that the delete loop keeps its chat through its awaits.
* `SelectionOnScreen`: what is selected is of the active chat, unless an older menu or drag did it.
* `MediaRight`: a microphone is on only for the take of the recording bar (`isRecording`), for one that
  awaits its `onstop`, or for one that went `astray`; no cancelled take is in a file that is uploaded,
  unless one that went astray has a part in that file; and a voice is heard only from a bubble on screen
  that offers to pause it. The bar itself is rendered with a chat: with none open a recording goes on
  unseen (`ChatPanel.vue:10`), until a chat is opened again, and the property does not claim otherwise.
  That takes go astray is how the code is: a press of the button during a prompt, or after a cancel and
  before its `onstop`, leaves a microphone on that no control ends.
* `NothingOfOtherChats`: the messages held of a chat, and the search results, are of that chat.
* `ConfirmedIsAsked`: each message whose deletion was confirmed is at last asked for.

Two chats are enough for every change of chat, and two messages for a loop with an await between two
requests; three takes for a recording that follows a cancelled one, with another prompt pending.

## The client

`ChatList` has the server's side (`member`, `news`, `pins`), the socket (`wire`, `subs`), the list and
the calls in flight: a load is asked, answered with the list of that moment, and arrives. `stale` names
the chats whose state an answer and an event, or two calls, crossed, and those announced while nobody
listened, and those whose badge no event corrects: the server's count of unread messages falls when one
is deleted for everyone or read on another device (`Unposted`), and `message_deleted` does not touch the
badge (`useWebSocket.ts:356`); the next load does. An answer lists the chats that are not archived; no
component emits the event that archives one, so all are. A toggle may be refused, or done with its
answer lost (`ToggleFails`), after which the flag shown is wrong. `Settled` is the state where all is
quiet and the socket is up. `Peers` adds who is online (events, `presenceCache`, the seeds of a load)
and who types (an entry and a timer per user). The events go out over several Redis connections and are
on their way in no order (`presenceWire` is a set, in which a status of a user is at most once).
`Sharing` are the users whose `last_seen_visibility` is `everyone`; of the others a client that is no
admin's gets no status (`WsHandler.cpp:244`), though `listChats` names them online, so they may be shown
online for good and nothing is claimed of them. A user's visibility does not change in a behaviour.
`unsure` are those whose change was lost, crossed an answer, or crossed an earlier change of the same
user. `WsClient` gives them the socket; `Client` joins mount, open, close, load arrivals and focus.

`ChatInfo` and `Dialogs` have a view of their own of list and active chat. In `ChatInfo` a call of the
dialog meets the server when it is answered; `spoiled` names the stores that a failed or an
overlapping call left behind, `strayed` says that the chat was changed under the dialog or its edit
form filled from such a store. In `Dialogs` a flow is a chain call, load, `setActiveChat`. Beside them go the
loads that make nothing active, of a poll, a resync, `chat_created` or a send (`polls`): one that was answered
before a chat was made and comes after takes it out of the list (`outrun`).

`MCClient.cfg` (two chats, of which one moves, two loads, two toggles, two users, three dialog calls,
two flows, one load beside them, one user who shares presence and one who does not):

* `ListIsMine`, `EntriesRight`: once settled, list, badges and flags are the server's, but
  for `stale`. `PeersRight`: so is who is online, of those who share it and are not `unsure`; and no old timer
  can wipe a new typing indicator.
* `DialogRight`: a store of the info dialog that no call failed or overlapped shows the active chat, and
  no chat is given the texts of another, unless `strayed`.
* `OpenedIsListed`: the chat on screen is listed, unless its own load failed, a link named it, or it is
  `outrun`: such a list stays until the next load, and the panel shows an empty chat.

`MCClientSubscribed.cfg` shows a listed chat that is not subscribed, see below.

Bounds: `part` selects, as above, one of members, badges, flags, online and typing of the list, one of
the dialog's views, the layers or the openings. `MaxWire` events on the wire (a burst of two, for two
events about one chat), `MaxNews` unread messages a chat, `MaxCalls` and `MaxFlows`, of which no two
are alike, `Poll` loads beside them, `MaxEdits`; a fall of the server's count that no event tells of happens
once between two loads; five timers, more than twice the users. In the part of the badges
the socket does not break and sends ask for one load at a time: what a break loses is in the part of
the members. `CHECK_DEADLOCK FALSE`: a user who has left every chat may have nothing left to do. No
other user changes roles, texts or links; pinned stands for the four flags, which are toggled alike.

## Session and socket

`Session` holds the tokens where the code holds them: localStorage (`token`, `refreshToken`), the auth
store (`accessToken`, `user`); `expired` tells whether the server would still accept the one in
localStorage. A request is sent, queued behind the refresh, refreshing, or failing in its
caller's `await`; `isRefreshing` is the module variable of `api/client.ts`. `going` is a guard that
awaits `fetchMe`. `Reload` is the page that `location.replace('/login')` asks for, which comes some
steps later and starts a new page with what localStorage has by then. `undone` is the history of a
logout while a refresh was under way. `markReadTimer` is the timer of `debouncedMarkRead`
(`useWebSocket.ts:70`), of the view that is mounted or of one that has left: `disconnect` does not clear it, and
when it runs out it calls `markRead`, whoever is logged in (two such timers count for one). `App` composes the
session with `WsClient`: in part "session" the route mounts and unmounts the view, the socket makes its
connections and tokens expire, in part "reads" messages start the timer instead, in part "link" the view
comes and goes freely and presence moves. Without a token `onopen` sends no auth message; the server then
was told "nothing" and ignores what follows.

`MCApp.cfg` (two requests, two expiries):

* `ServerKnowsPresence`: on an open socket that was authenticated the server was last told
  `isPresenceActive`, whatever order focus, visibility, activity and timers come in. `AwayWhenGone`: a
  window that stays hidden or without focus is at last reported away.
* `Reconnects`: a mounted view gets its connection back. `NothingAfterLeaving`: one that has left has no
  socket and no listener, and of its timers only that of `markRead`, until it runs out; none is started
  again. A view that left while `onMounted` awaited (`leftEarly`) is no part of this: then `connect` comes
  after `disconnect`.
* `RequestsSettle`: every request is answered or rejected, also one that queued behind a refresh.
  `LogoutHolds`: after a logout no token comes back before a login, unless `undone`.

Two requests are enough for one that refreshes and one that queues, or that comes too late to queue.
Fairness: timers fire (`LinkFairness`, and `PresenceFairness` in the part where the presence clock
moves), a connection that is tried again and again opens once (strong: each try may fail), the server
answers, a promise that settled wakes its caller, and a reload that was asked for comes
(`SessionFairness`). The user owes nothing.

## Findings

* `presence_erase`: a close prunes a dropped active connection and erases the entry; the user stays
  online (`WsHandler.cpp:354`).
* `delivery_older`: the older page is cut at the year of a time stamp (`MessagesController.cpp:357`).
* `client_subscribed`: "Subscribe to all chats" runs over the list from before the resync
  (`useWebSocket.ts:248`).

## Proofs

`PresenceProofs`, from `NoTimerAssumption` alone, for any `Conn` and `Timer`:

* `TypeCorrect`: one case per action, through `StepCases`.
* `HandlersCorrect`: `HandlersStand` is inductive with `TypeOK`. It says that a handler between its
  decision and its broadcast still has its connection, since messages and close of one connection
  run one after the other. The next two need it.
* `OfflineCorrect`, `OnlineCorrect`: with `TypeOK` and `HandlersStand` each is inductive: a step that
  takes away the last witness of the conclusion either puts a pending step in its place or sets the
  history variable.

`FanoutProofs`, from `BoundAssumption`, for any connections, any number of callbacks and of events:

* `RegisteredCorrect` and `ClaimedCorrect` are the inductive parts: the contexts and `s_subs` agree,
  and a mark in `s_redisSubs` has a listener or exactly one callback that is about to make it.
  `ClosedForgottenCorrect` and `SubscriberListensCorrect` follow from them; `TypeCorrect`.
* `ImplementsChannel`: with `RelayIsLast`, the relay holds the last events in order, every step maps to
  a step of `Channel` or to none. The claim is needed for `Listen`, which would otherwise throw a
  relay away. `OnceInOrderCorrect` follows from the steps of `Channel` alone (`PromiseDelivers`).

`ChatViewProofs`, from `IdAssumption`, for any set of ids, any number of loads and any answers:
`TypeCorrect`, `ShownOnce` (`NoDuplicates` is inductive because it speaks of the detached array as
well), `ShownStaysCorrect` (an action property). They rest on lemmas on what filtering and appending
does to an array (`AppendNewOnce`, `AppendNewHolds`).

`DeliveryProofs`, from `LimitAssumption`, for any messages, page size and loads in flight, with every
failure:

* `ImplementsStore`: what the server answers and sends is among what `ChatView` allows, so that the
  theorems of `ChatViewProofs` hold here as well (`StoreKept`).
* `NewerCorrect` (`NewerSkipsNothing`): the property speaks of the arrival of a page, which was read
  earlier. `PageInv` says what is true of it meanwhile: it holds rows that were committed, so a row that
  is committed below one of them is `overtaken`; and of the rows between the resume point and any
  row of the page it leaves out only such, and those created out of order (`OldestClosed`).
* `DeliveryTypeCorrect`.

`AppProofs`, for any requests in flight and any number of expiries:

* `ServerKnows` and `NothingLeft`, from the inductive `LinkInv`. Every step of the page, the session's
  included, does to the view what `ViewStep` lists (`StepOfView`), so that one case per view step is
  enough. `NothingAfterLeaving` alone is not inductive: `Left` adds that a view which left after its
  first loads has no `connect` to come; that `markRead` is not started again follows from its guard, as a view
  that is off has no socket.
* `LogoutHoldsCorrect`, from the inductive `LogoutInv`: a logout that no refresh overlapped leaves no
  refresh under way, no token of either kind, and no view; without a token the guard shows none
  (`ArrivesOut`), and the one navigation that clears the tokens records the overlap (`ArrivesIn`).
* `AppTypeCorrect`, from `SessionAssumption`.

`RequestsProofs`, from `NoneAssumption` and `CountAssumption`, for any users, chats, invites,
requests and number of forwarded messages:

* `RoleStaysCorrect`: every statement, forward or crash does to the roles what `RoleStep` lists
  (`StepOfRoles`), where a row comes only if there is none; from there the action property needs only
  that `role` holds roles (`RoleTyped`, `RoleStepStays`).
* `MembersCorrect`, from the inductive `MemberInv`. `OwnedUnlessLeft` alone is not inductive: `Owned`
  adds that a chat without an owner is `Blank`, nobody in it or on the way to it, and that the request
  which is about to insert its owner is the only one about it. `Between` says that whoever is in a
  direct chat, or may come by a statement that is still to run, is one of two, and that there is no
  invite to it; `ListInv`, that whoever is missing on the list a deletion has read came `late`.
* `AnswersCorrect`, from the inductive `ForwardInv`: the counter, and what a callback has read of it, is
  never below the number of callbacks under way (`Counted`), so a lost decrement can only keep the
  answer back; `Placed` says by which statement a message has its row, its event and its place in
  `newMessages`, and `Answered` that nothing is under way after a success.
* `RequestsTypeCorrect`.

`ScreenProofs`, from `ScreenAssumption` and `TakeAssumption`, for any chats, messages, deletion loops,
uploads, takes and jumps. All five theorems come from the one inductive `ScreenInv`, a
conjunct per part, which is shown to survive the steps of its part, the changes of the active chat,
and, at rest, the steps of the others (`ComposeIdle`, ...):

* `RequestsGoHome` (`OwnChatUnlessMoved`) speaks of the last request only. What makes it inductive is
  that each slot out of which a request is made, reply, edit, picker, drag, dialogs, file,
  recording, uploads, and each run of the deletion loop, holds subjects of the chat on screen, or of
  the chat it captured, unless it is `late`.
* `SelectionCorrect`, `ListsCorrect` (a search that runs is of the active chat, since leaving a chat
  ends the searches).
* `MediaCorrect` needs `TakesInv`: what runs, or awaits its `onstop`, is the take of the `recorder` variable or
  went astray (`Reached`); a recorder that records has its tracks on and has given nothing away (`Records`); and
  what a cancelled take left in the chunks goes only with a take that went astray (`Unmixed`).
* `ScreenTypeCorrect`.

`ClientProofs`, from the assumptions of the modules it is about (`ChatsAssumption`, `ListAssumption`,
`PeersAssumption`, `InfoAssumption`, `MovingAssumption`), for any chats, users, loads, toggles, timers
and bounds. Each property claims something of the settled state only; the invariants say what is
true meanwhile:

* What is said of list and peers needs `LinkInv`: nothing reaches a view before its first load has ended
  or without an authenticated socket, and at most one first load is under way.
* `ListCorrect` (`ListIsMine`), from `MineInv`: a chat that is missing in the list is announced on the
  wire, or the load that brings it is under way; one that is too much is on the wire as removed, or
  the answer to `leave` is to come (`ShownInv`). For that an answer under way must be right about
  each chat whose change it does not know of (`AnswersInv`), and an announcement of a chat the user
  is out of must have its removal behind it (`MembershipInv`).
* `EntriesCorrect` (`EntriesRight`), from `BadgeInv` and `FlagInv`: a badge and the messages on the wire
  make up the server's count, unless the chat is being marked as read and then the badge is zero; a flag
  is the server's until a toggle of it is done at the server, and a toggle that still holds the
  entry is the only one. `RestInv` keeps the parts apart. Events on the wire are counted
  (`Waiting`), which takes the lemmas on the cardinality of a queue that gains or loses one
  (`PublishWaits`, `ReceivedWaits`).
* `PeersCorrect`, from `OnlineInv` (of a user who shares presence and is not `unsure` at most one event
  is on its way, with the server's status; without one, cache and list have it) and `TypingInv` (each
  entry has the one timer that runs for it).
* `DialogCorrect` (`DialogRight`), from `DialogInv`: a store that is not spoiled has at most one call about
  it, that call names the active chat, and without one the store shows what the server has;
  a token is of one chat; what is to be saved is of the chat it is saved for.
* `OpenedCorrect` (`OpenedIsListed`), from `OpenInv`: a list that is about to come has the chat that is
  opened with it, and the list of another load, with what was made since it was answered, is all that
  was made (`PollsOK`).
* `ClientTypeCorrect`.

Every invariant, every action property and the refinement that the passing runs check are proved. Only
model-checked is liveness under fairness, which these provers cannot do: `ChangesAnnounced`,
`ListensAtLast`, `ConfirmedIsAsked`, `AwayWhenGone`, `Reconnects`, `RequestsSettle`, `CatchUp`. Of the
first of them the safety half is proved (`OfflineCorrect`, `OnlineCorrect`: what is not announced
is about to be), as it is of `ListensAtLast` (`SubscriberListensCorrect`).

## Plan

1. Statement by statement: pins (two pins at once) and reactions (toggle, answer and event), the latter
   with the counters of the client's store, which takes its own toggle twice.
2. The statements of `broadcastPresence`, composed with `Presence` and `Peers`, and changes of the
   visibility. Edits and read receipts of the client's store.

## Not modelled

Profile and settings forms, registration, stickers, avatars, the admin pages and the admin host, metrics,
static pages, the schema and the deployment: single statements, I/O or rendering. The statements of
pins and reactions (plan, 1). In the modules of the client a call meets the server in one step. Several api
processes: `isUserOnline` and the timers are local to one. Several tabs: localStorage belongs to one
page here. The contents of messages, scroll positions, notifications, and sound.
