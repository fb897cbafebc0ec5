------------------------------ MODULE Membership ------------------------------
(***************************************************************************)
(* Chats, members, roles and invites in the database of the api process,   *)
(* with the requests that change them.  A handler is a chain of statements *)
(* and callbacks, and those of different requests interleave freely.  An   *)
(* action is one statement with what the callback before it decided; a     *)
(* request that is refused at its first statement leaves no trace.         *)
(***************************************************************************)
EXTENDS Naturals, FiniteSets

CONSTANTS User, Chat, Invite, Request, None

ASSUME NoneAssumption == None \notin User \cup Chat \cup Invite

VARIABLES
  type,        \* chats: "none" until the row is inserted, "gone" once deleted
  role,        \* chat_members: "none" without a row
  invites,     \* the chat of each invite
  revoked,     \* the invites with a revoked_at
  requests,    \* the statement that each request executes next
  detached,    \* the member inserts of createChat that nobody waits for
  ownerLeft,   \* history: chats whose owner left as their only member
  owed,        \* history: <<c, u>>: u was a member of c when it was deleted, and was not told
  late         \* history: <<c, u>>: u became a member of c after its list was read

memberVars == <<type, role, invites, revoked, requests, detached, ownerLeft, owed, late>>
history == <<ownerLeft, owed>>

\* who: the user whose row the step is about; list: the members that were given
\* or read; link: the invite to revoke.
NoRequest == [at |-> "none", who |-> None, chat |-> None, list |-> {}, link |-> None]

MembershipInit ==
  /\ type = [c \in Chat |-> "none"]
  /\ role = [c \in Chat |-> [u \in User |-> "none"]]
  /\ invites = [i \in Invite |-> None] /\ revoked = {}
  /\ requests = [r \in Request |-> NoRequest] /\ detached = {}
  /\ ownerLeft = {} /\ owed = {} /\ late = {}

Steps == {"none", "direct", "owner", "tell", "remove", "list", "delete", "publish",
          "promote", "demote", "invite", "revoke", "member", "join"}

\* Rows, invites and requests are of the shape the schema and the handlers give them.
MembershipTypeOK ==
  /\ type \in [Chat -> {"none", "direct", "group", "gone"}]
  /\ role \in [Chat -> [User -> {"none", "member", "admin", "owner"}]]
  /\ invites \in [Invite -> Chat \cup {None}] /\ revoked \subseteq Invite
  /\ requests \in [Request -> [at : Steps, who : User \cup {None}, chat : Chat \cup {None},
                               list : SUBSET User, link : Invite \cup {None}]]
  /\ \A h \in {detached, owed, late} : h \subseteq Chat \X User
  /\ ownerLeft \subseteq Chat

Live(c) == type[c] \in {"direct", "group"}
Members(c) == {u \in User : role[c][u] # "none"}
Owners(c) == {u \in User : role[c][u] = "owner"}
\* The row of an invite goes with its chat.
Open(i) == invites[i] # None /\ i \notin revoked /\ Live(invites[i])

Asks(r, at, u, c, s) ==
  requests' = [requests EXCEPT ![r] =
    [at |-> at, who |-> u, chat |-> c, list |-> s, link |-> None]]
Ends(r) == requests' = [requests EXCEPT ![r] = NoRequest]
Free(r) == requests[r] = NoRequest

\* Mutant: the row is written whether or not there is one.
InsertedAnyway(c, u, as) ==
  LET comes == Live(c)
      unlisted == \E r \in Request : /\ requests[r].at = "delete" /\ requests[r].chat = c
                                     /\ u \notin requests[r].list
  IN /\ role' = IF comes THEN [role EXCEPT ![c][u] = as] ELSE role
     /\ late' = IF comes /\ unlisted THEN late \cup {<<c, u>>} ELSE late

\* INSERT INTO chat_members ... ON CONFLICT DO NOTHING; the foreign key refuses
\* a chat that is gone.
Inserted(c, u, as) ==
  LET comes == Live(c) /\ role[c][u] = "none"
      unlisted == \E r \in Request : /\ requests[r].at = "delete" /\ requests[r].chat = c
                                     /\ u \notin requests[r].list
  IN /\ role' = IF comes THEN [role EXCEPT ![c][u] = as] ELSE role
     /\ late' = IF comes /\ unlisted THEN late \cup {<<c, u>>} ELSE late

-----------------------------------------------------------------------------
\* createChat.

\* The look-up of a direct chat, of u with v, or of u alone for u = v; if there is
\* one the request ends.
Direct(u, v) ==
  {c \in Chat : /\ type[c] = "direct" /\ {u, v} \subseteq Members(c)
                /\ u = v => Members(c) = {u}}

LookUp(r, u, v) ==
  /\ Free(r)
  /\ Direct(u, v) = {}
  /\ Asks(r, "direct", u, None, {u, v})
  /\ UNCHANGED <<type, role, invites, revoked, detached, history, late>>

\* INSERT INTO chats: a direct chat after its look-up, a group at once.
InsertChat(r, c, kind, u, s) ==
  /\ type[c] = "none"
  /\ type' = [type EXCEPT ![c] = kind]
  /\ Asks(r, "owner", u, c, s)
  /\ UNCHANGED <<role, invites, revoked, detached, history, late>>

createDirect(r) ==
  /\ requests[r].at = "direct"
  /\ \E c \in Chat : InsertChat(r, c, "direct", requests[r].who, requests[r].list)

createGroup(r) ==
  /\ Free(r)
  /\ \E c \in Chat, u \in User, s \in SUBSET User :
       u \in s /\ InsertChat(r, c, "group", u, s)

InsertOwner(r) ==
  /\ requests[r].at = "owner"
  /\ Inserted(requests[r].chat, requests[r].who, "owner")
  /\ requests' = [requests EXCEPT ![r].at = "tell"]
  /\ UNCHANGED <<type, invites, revoked, detached, history>>

\* The other members are inserted by nobody's leave, chat_created goes out, and
\* the request is answered.
Created(r) ==
  /\ requests[r].at = "tell"
  /\ LET q == requests[r] IN
       detached' = detached \cup {<<q.chat, u>> : u \in q.list \ {q.who}}
  /\ Ends(r)
  /\ UNCHANGED <<type, role, invites, revoked, history, late>>

InsertMember(c, u) ==
  /\ <<c, u>> \in detached
  /\ detached' = detached \ {<<c, u>>}
  /\ Inserted(c, u, "member") \/ UNCHANGED <<role, late>>
  /\ UNCHANGED <<type, invites, revoked, requests, history>>

-----------------------------------------------------------------------------
\* leaveChat and deleteChat.

\* Mutant: the owner leaves like anybody else.
leaveChatAnybody(r, u, c) ==
  /\ Free(r)
  /\ u \in Members(c)
  /\ Asks(r, "remove", u, c, Members(c))
  /\ UNCHANGED <<type, role, invites, revoked, detached, history, late>>

\* The check: an owner leaves only as the last member.
leaveChat(r, u, c) ==
  /\ Free(r)
  /\ u \in Members(c)
  /\ role[c][u] = "owner" => Members(c) = {u}
  /\ Asks(r, "remove", u, c, Members(c))
  /\ UNCHANGED <<type, role, invites, revoked, detached, history, late>>

RemoveMember(r) ==
  /\ requests[r].at = "remove"
  /\ LET q == requests[r] IN
       /\ role' = [role EXCEPT ![q.chat][q.who] = "none"]
       /\ ownerLeft' = IF role[q.chat][q.who] = "owner" /\ q.list = {q.who}
                       THEN ownerLeft \cup {q.chat} ELSE ownerLeft
  /\ Ends(r)
  /\ UNCHANGED <<type, invites, revoked, detached, owed, late>>

deleteChat(r, u, c) ==
  /\ Free(r)
  /\ role[c][u] = "owner"
  /\ Asks(r, "list", None, c, {})
  /\ UNCHANGED <<type, role, invites, revoked, detached, history, late>>

ListMembers(r) ==
  /\ requests[r].at = "list"
  /\ Asks(r, "delete", None, requests[r].chat, Members(requests[r].chat))
  /\ UNCHANGED <<type, role, invites, revoked, detached, history, late>>

\* DELETE FROM chats cascades to members and invites.
Delete(r) ==
  /\ requests[r].at = "delete"
  /\ LET c == requests[r].chat IN
       /\ type' = [type EXCEPT ![c] = "gone"]
       /\ role' = [role EXCEPT ![c] = [u \in User |-> "none"]]
       /\ owed' = owed \cup {<<c, u>> : u \in Members(c)}
  /\ requests' = [requests EXCEPT ![r].at = "publish"]
  /\ UNCHANGED <<invites, revoked, detached, ownerLeft, late>>

\* chat_deleted goes to everybody on the list.
TellDeleted(r) ==
  /\ requests[r].at = "publish"
  /\ owed' = owed \ {<<requests[r].chat, u>> : u \in requests[r].list}
  /\ Ends(r)
  /\ UNCHANGED <<type, role, invites, revoked, detached, ownerLeft, late>>

-----------------------------------------------------------------------------
\* promoteMember and demoteMember.

SetRole(r, u, c, v) ==
  /\ Free(r)
  /\ role[c][u] = "owner"
  /\ \E at \in {"promote", "demote"} : Asks(r, at, v, c, {})
  /\ UNCHANGED <<type, role, invites, revoked, detached, history, late>>

\* Mutant: the name of the operation goes into the column.
UpdateRoleName(r) ==
  /\ requests[r].at \in {"promote", "demote"}
  /\ role' = [role EXCEPT ![requests[r].chat][requests[r].who] = requests[r].at]
  /\ Ends(r)
  /\ UNCHANGED <<type, invites, revoked, detached, history, late>>

UpdateRole(r) ==
  /\ requests[r].at \in {"promote", "demote"}
  /\ LET c == requests[r].chat
         v == requests[r].who
         from == IF requests[r].at = "promote" THEN "member" ELSE "admin"
         to == IF requests[r].at = "promote" THEN "admin" ELSE "member"
     IN role' = IF role[c][v] = from THEN [role EXCEPT ![c][v] = to] ELSE role
  /\ Ends(r)
  /\ UNCHANGED <<type, invites, revoked, detached, history, late>>

-----------------------------------------------------------------------------
\* Invites.

createInvite(r, u, c) ==
  /\ Free(r)
  /\ type[c] # "direct" /\ role[c][u] \in {"owner", "admin"}
  /\ Asks(r, "invite", None, c, {})
  /\ UNCHANGED <<type, role, invites, revoked, detached, history, late>>

InsertInvite(r) ==
  /\ requests[r].at = "invite"
  /\ \E i \in Invite :
       /\ invites[i] = None
       /\ invites' = IF Live(requests[r].chat) THEN [invites EXCEPT ![i] = requests[r].chat]
                                               ELSE invites
  /\ Ends(r)
  /\ UNCHANGED <<type, role, revoked, detached, history, late>>

revokeInvite(r, u, i) ==
  /\ Free(r)
  /\ Open(i)
  /\ role[invites[i]][u] \in {"owner", "admin"}
  /\ requests' = [requests EXCEPT ![r] = [NoRequest EXCEPT !.at = "revoke", !.link = i]]
  /\ UNCHANGED <<type, role, invites, revoked, detached, history, late>>

Revoke(r) ==
  /\ requests[r].at = "revoke"
  /\ revoked' = revoked \cup {requests[r].link}
  /\ Ends(r)
  /\ UNCHANGED <<type, role, invites, detached, history, late>>

joinInvite(r, u, i) ==
  /\ Free(r)
  /\ Open(i)
  /\ Asks(r, "member", u, invites[i], {})
  /\ UNCHANGED <<type, role, invites, revoked, detached, history, late>>

\* One who is a member already is told so.
CheckMember(r) ==
  /\ requests[r].at = "member"
  /\ IF requests[r].who \in Members(requests[r].chat) THEN Ends(r)
     ELSE requests' = [requests EXCEPT ![r].at = "join"]
  /\ UNCHANGED <<type, role, invites, revoked, detached, history, late>>

Join(r) ==
  /\ requests[r].at = "join"
  /\ Inserted(requests[r].chat, requests[r].who, "member")
  /\ Ends(r)
  /\ UNCHANGED <<type, invites, revoked, detached, history>>

-----------------------------------------------------------------------------
\* A statement fails, and the request is answered with an error.
Fails(r) ==
  /\ requests[r].at \notin {"none", "tell", "publish"}
  /\ Ends(r)
  /\ UNCHANGED <<type, role, invites, revoked, detached, history, late>>

\* The process ends; the database stays, and who was to be told of a deletion never is.
Crash ==
  /\ requests' = [r \in Request |-> NoRequest] /\ detached' = {}
  /\ owed' = {}
  /\ UNCHANGED <<type, role, invites, revoked, ownerLeft, late>>

MembershipNext ==
  \/ \E r \in Request :
       \/ \E u, v \in User : LookUp(r, u, v)
       \/ \E u \in User, c \in Chat :
            leaveChat(r, u, c) \/ deleteChat(r, u, c) \/ createInvite(r, u, c)
       \/ \E u, v \in User, c \in Chat : SetRole(r, u, c, v)
       \/ \E u \in User, i \in Invite : revokeInvite(r, u, i) \/ joinInvite(r, u, i)
       \/ createDirect(r) \/ createGroup(r) \/ InsertOwner(r) \/ Created(r)
       \/ RemoveMember(r) \/ ListMembers(r) \/ Delete(r) \/ TellDeleted(r)
       \/ UpdateRole(r) \/ InsertInvite(r) \/ Revoke(r) \/ CheckMember(r) \/ Join(r)
       \/ Fails(r)
  \/ \E c \in Chat, u \in User : InsertMember(c, u)
  \/ Crash

-----------------------------------------------------------------------------
\* A chat with members has exactly one owner, unless its owner left as the only
\* member: nobody else gives up, loses or gains ownership, in whatever order
\* statements of leaving, joining, promoting and creating come.
OwnedUnlessLeft ==
  \A c \in Chat :
    /\ Cardinality(Owners(c)) =< 1
    /\ Members(c) # {} /\ c \notin ownerLeft => Owners(c) # {}

\* A role that was given is lowered by demoteMember only, and the owner's by
\* nothing but his leave or the end of the chat: a member insert that comes late
\* changes nothing.
RoleStays ==
  [][\A c \in Chat, u \in User :
       role'[c][u] # role[c][u] /\ role[c][u] \in {"admin", "owner"} =>
         \/ role'[c][u] = "none"
         \/ role[c][u] = "admin" /\ \E r \in Request : requests[r].at = "demote"
                                                    /\ requests[r].who = u]_memberVars

\* A direct chat never has a third member, although joining looks at no type:
\* there is no invite to one.
DirectStaysPrivate ==
  \A c \in Chat :
    type[c] = "direct" => /\ Cardinality(Members(c)) =< 2
                          /\ \A i \in Invite : invites[i] # c

\* Whoever was a member when a chat was deleted is told by one of the requests
\* that delete it, unless he came after the list was read, or the process ended before.
DeletionTold ==
  \A told \in owed \ late :
    \E r \in Request : /\ requests[r].at = "publish"
                       /\ requests[r].chat = told[1] /\ told[2] \in requests[r].list

\* Rows and what is told stay right, whichever statements overlap.
MembersRight == OwnedUnlessLeft /\ DirectStaysPrivate /\ DeletionTold
===============================================================================
