----------------------------- MODULE RequestsProofs ----------------------------
(***************************************************************************)
(* What is proved of Requests, for any users, chats, invites and requests. *)
(***************************************************************************)
EXTENDS Requests, FiniteSetTheorems, TLAPS

Roles == {"none", "member", "admin", "owner"}
RoleTyped == role \in [Chat -> [User -> Roles]]

\* What the steps of the requests do to the roles of a chat's members.
Comes(c, u, rank) ==
  \/ role' = role
  \/ role[c][u] = "none" /\ role' = [role EXCEPT ![c][u] = rank]
Leaves(c, u) == role' = [role EXCEPT ![c][u] = "none"]
Ended(c) == role' = [role EXCEPT ![c] = [u \in User |-> "none"]]
Promoted(c, u) == role[c][u] = "member" /\ role' = [role EXCEPT ![c][u] = "admin"]
Demoted(c, u) ==
  /\ \E r \in Request : requests[r].at = "demote" /\ requests[r].who = u
  /\ role[c][u] = "admin" /\ role' = [role EXCEPT ![c][u] = "member"]

RoleStep ==
  \/ role' = role
  \/ \E c, u : Comes(c, u, "owner") \/ Comes(c, u, "member")
  \/ \E c, u : Leaves(c, u) \/ Promoted(c, u) \/ Demoted(c, u)
  \/ \E c : Ended(c)

\* An insert brings a row where there is none, or nothing.
LEMMA InsertedComes ==
  ASSUME NEW c, NEW u, NEW rank, Inserted(c, u, rank) PROVE Comes(c, u, rank)
  BY DEF Inserted, Comes

\* Every statement does to the roles what RoleStep lists.
LEMMA StepOfRoles ==
  ASSUME [Next]_vars PROVE RoleStep
<1>1. CASE UNCHANGED vars
  BY <1>1 DEF vars, memberVars, RoleStep
<1>2. CASE part = "forward" /\ ForwardNext /\ UNCHANGED memberVars
  BY <1>2 DEF memberVars, RoleStep
<1>3. CASE MembershipNext
  <2>1. ASSUME NEW r \in Request, NEW u \in User, NEW v \in User,
               LookUp(r, u, v) \/ \E c \in Chat : SetRole(r, u, c, v)
        PROVE  RoleStep
    BY <2>1 DEF LookUp, SetRole, RoleStep
  <2>2. ASSUME NEW r \in Request, NEW u \in User, NEW c \in Chat,
               leaveChat(r, u, c) \/ deleteChat(r, u, c) \/ createInvite(r, u, c)
        PROVE  RoleStep
    BY <2>2 DEF leaveChat, deleteChat, createInvite, RoleStep
  <2>3. ASSUME NEW r \in Request, NEW u \in User, NEW i \in Invite,
               revokeInvite(r, u, i) \/ joinInvite(r, u, i)
        PROVE  RoleStep
    BY <2>3 DEF revokeInvite, joinInvite, RoleStep
  <2>4. ASSUME NEW r \in Request, createDirect(r) \/ createGroup(r) \/ Created(r)
        PROVE  RoleStep
    BY <2>4 DEF createDirect, createGroup, InsertChat, Created, RoleStep
  <2>5. ASSUME NEW r \in Request, InsertOwner(r) \/ Join(r) PROVE RoleStep
    BY <2>5, InsertedComes DEF InsertOwner, Join, RoleStep
  <2>6. ASSUME NEW r \in Request, RemoveMember(r) PROVE RoleStep
    BY <2>6 DEF RemoveMember, Leaves, RoleStep
  <2>7. ASSUME NEW r \in Request, Delete(r) PROVE RoleStep
    BY <2>7 DEF Delete, Ended, RoleStep
  <2>8. ASSUME NEW r \in Request, UpdateRole(r) PROVE RoleStep
    BY <2>8 DEF UpdateRole, Promoted, Demoted, RoleStep
  <2>9. ASSUME NEW r \in Request,
               \/ ListMembers(r) \/ TellDeleted(r) \/ InsertInvite(r) \/ Revoke(r)
               \/ CheckMember(r) \/ Fails(r)
        PROVE  RoleStep
    BY <2>9 DEF ListMembers, TellDeleted, InsertInvite, Revoke, CheckMember, Fails, RoleStep
  <2>10. ASSUME NEW c \in Chat, NEW u \in User, InsertMember(c, u) PROVE RoleStep
    BY <2>10, InsertedComes DEF InsertMember, RoleStep
  <2>11. CASE Crash
    BY <2>11 DEF Crash, RoleStep
  <2>12. QED
    BY <1>3, <2>1, <2>2, <2>3, <2>4, <2>5, <2>6, <2>7, <2>8, <2>9, <2>10, <2>11
    DEF MembershipNext
<1>4. QED
  BY <1>1, <1>2, <1>3 DEF Next

\* What RoleStep lists keeps the type of the roles.
LEMMA RoleStepTyped ==
  ASSUME RoleTyped, RoleStep PROVE RoleTyped'
  BY DEF RoleTyped, RoleStep, Roles, Comes, Leaves, Ended, Promoted, Demoted

\* What RoleStep lists lowers a role only as RoleStays allows.
LEMMA RoleStepStays ==
  ASSUME RoleTyped, RoleStep, NEW c \in Chat, NEW u \in User,
         role'[c][u] # role[c][u], role[c][u] \in {"admin", "owner"}
  PROVE  \/ role'[c][u] = "none"
         \/ role[c][u] = "admin" /\ \E r \in Request : requests[r].at = "demote"
                                                    /\ requests[r].who = u
<1>1. CASE \E d, v : Comes(d, v, "owner") \/ Comes(d, v, "member")
  BY <1>1 DEF RoleTyped, Roles, Comes
<1>2. CASE \E d, v : Leaves(d, v)
  BY <1>2 DEF RoleTyped, Roles, Leaves
<1>3. CASE \E d, v : Promoted(d, v)
  BY <1>3 DEF RoleTyped, Roles, Promoted
<1>4. CASE \E d, v : Demoted(d, v)
  BY <1>4 DEF RoleTyped, Roles, Demoted
<1>5. CASE \E d : Ended(d)
  BY <1>5 DEF RoleTyped, Roles, Ended
<1>6. QED
  BY <1>1, <1>2, <1>3, <1>4, <1>5 DEF RoleStep

\* Roles are only lowered by demoteMember, and an owner is one until he leaves or the
\* chat is deleted, for any users, chats and requests and whatever statements overlap.
THEOREM RoleStaysCorrect == Spec => RoleStays
<1>1. Init => RoleTyped
  BY DEF Init, MembershipInit, RoleTyped, Roles
<1>2. RoleTyped /\ [Next]_vars => RoleTyped'
  BY StepOfRoles, RoleStepTyped
<1>3. RoleTyped /\ [Next]_vars =>
        [\A c \in Chat, u \in User :
           role'[c][u] # role[c][u] /\ role[c][u] \in {"admin", "owner"} =>
             \/ role'[c][u] = "none"
             \/ role[c][u] = "admin" /\ \E r \in Request : requests[r].at = "demote"
                                                        /\ requests[r].who = u]_memberVars
  BY StepOfRoles, RoleStepStays
<1>4. QED
  BY <1>1, <1>2, <1>3, PTL DEF Spec, RoleStays

-------------------------------------------------------------------------------
\* What the statements of the requests leave true.

\* What a request holds by the statement it is at.
RequestOK(q) ==
  /\ q.at \in {"none", "direct", "revoke"} <=> q.chat = None
  /\ q.at \in {"direct", "owner", "tell", "remove", "promote", "demote", "member", "join"} =>
       q.who \in User
  /\ q.at = "direct" => \E v \in User : q.list = {q.who, v}
  /\ q.at = "revoke" => q.link \in Invite

Shaped == MembershipTypeOK /\ \A r \in Request : RequestOK(requests[r])

\* Nobody has come to the chat, or is about to, but the owner of a request's INSERT.
Blank(c) ==
  /\ Members(c) = {}
  /\ \A u \in User : <<c, u>> \notin detached
  /\ \A i \in Invite : invites[i] # c
  /\ \A r \in Request : requests[r].chat = c => requests[r].at = "owner"

\* A chat without an owner is blank, deleted, or left by its owner; one that a
\* request is about to give its owner is blank, and no other request is about it.
Owned(c) ==
  /\ \A u, v \in Owners(c) : u = v
  /\ type[c] = "none" => c \notin ownerLeft /\ Blank(c) /\ \A r \in Request : requests[r].chat # c
  /\ type[c] = "gone" => Members(c) = {}
  /\ type[c] # "gone" /\ c \notin ownerLeft /\ Owners(c) = {} => Blank(c)
  /\ \A r \in Request : requests[r].chat = c =>
       /\ requests[r].at = "owner" =>
            /\ Live(c) /\ c \notin ownerLeft /\ Blank(c)
            /\ \A s \in Request : requests[s].chat = c => s = r
       /\ requests[r].at = "remove" /\ role[c][requests[r].who] = "owner" =>
            requests[r].list = {requests[r].who}

OwnerInv == \A c \in Chat : Owned(c)

\* Whoever is in a direct chat, or is about to come, is one of two.
Between(c, u, v) ==
  /\ Members(c) \subseteq {u, v}
  /\ \A w \in User : <<c, w>> \in detached => w \in {u, v}
  /\ \A i \in Invite : invites[i] # c
  /\ \A r \in Request : requests[r].chat = c =>
       /\ requests[r].at \notin {"invite", "member", "join"}
       /\ requests[r].at \in {"owner", "tell"} =>
            requests[r].who \in {u, v} /\ requests[r].list \subseteq {u, v}

PrivateInv == \A c \in Chat : type[c] = "direct" => \E u, v \in User : Between(c, u, v)

\* Between the list and the DELETE whoever is not on the list came late.
ListInv ==
  \A r \in Request : requests[r].at = "delete" =>
    \A u \in Members(requests[r].chat) \ requests[r].list : <<requests[r].chat, u>> \in late

MemberInv == Shaped /\ OwnerInv /\ PrivateInv /\ ListInv /\ DeletionTold
-------------------------------------------------------------------------------
RequestType == [at : Steps, who : User \cup {None}, chat : Chat \cup {None},
                list : SUBSET User, link : Invite \cup {None}]

\* What may be put in the place of a request.
LEMMA AskedShaped ==
  ASSUME Shaped, NEW r \in Request, NEW q \in RequestType, RequestOK(q),
         requests' = [requests EXCEPT ![r] = q]
  PROVE  /\ requests' \in [Request -> RequestType]
         /\ \A s \in Request : RequestOK(requests'[s])
BY DEF Shaped, MembershipTypeOK, RequestType

\* A request that has ended, or not begun, is of its shape.
LEMMA NoRequestShaped == NoRequest \in RequestType /\ RequestOK(NoRequest)
BY NoneAssumption DEF NoRequest, RequestType, RequestOK, Steps

\* A request that ends keeps the shape of all.
LEMMA EndedShaped ==
  ASSUME Shaped, NEW r \in Request, Ends(r)
  PROVE  /\ requests' \in [Request -> RequestType]
         /\ \A s \in Request : RequestOK(requests'[s])
BY AskedShaped, NoRequestShaped DEF Ends

\* So does one that begins.
LEMMA AsksShaped ==
  ASSUME Shaped, NEW r \in Request, NEW step \in Steps, NEW u, NEW c, NEW s \in SUBSET User,
         u \in User \cup {None}, c \in Chat \cup {None}, Asks(r, step, u, c, s),
         step \in {"none", "direct", "revoke"} <=> c = None,
         step \in {"direct", "owner", "tell", "remove", "promote", "demote", "member", "join"} =>
           u \in User,
         step = "direct" => \E v \in User : s = {u, v},
         step # "revoke"
  PROVE  /\ requests' \in [Request -> RequestType]
         /\ \A t \in Request : RequestOK(requests'[t])
<1> DEFINE q == [at |-> step, who |-> u, chat |-> c, list |-> s, link |-> None]
<1>1. q \in RequestType /\ RequestOK(q)
  BY DEF RequestType, RequestOK
<1> QED
  BY <1>1, AskedShaped DEF Asks

\* So does one that goes on to a statement of the same chat.
LEMMA AdvancedShaped ==
  ASSUME Shaped, NEW r \in Request, NEW to \in {"tell", "publish", "join"},
         requests' = [requests EXCEPT ![r].at = to],
         requests[r].at \in {"owner", "delete", "member"},
         to \in {"tell", "join"} => requests[r].at \in {"owner", "member"}
  PROVE  /\ requests' \in [Request -> RequestType]
         /\ \A t \in Request : RequestOK(requests'[t])
<1> DEFINE q == [requests[r] EXCEPT !.at = to]
<1>1. requests[r] \in RequestType /\ RequestOK(requests[r])
  BY DEF Shaped, MembershipTypeOK, RequestType
<1>2. q \in RequestType
  BY <1>1 DEF RequestType, Steps
<1>3. q.at = to /\ q.chat = requests[r].chat /\ q.who = requests[r].who
  BY <1>1 DEF RequestType
<1>4. RequestOK(q)
  BY <1>1, <1>3 DEF RequestOK
<1>5. requests' = [requests EXCEPT ![r] = q]
  OBVIOUS
<1> QED
  BY <1>2, <1>4, <1>5, AskedShaped

\* A member row that is written, or not, is a member row.
LEMMA InsertedShaped ==
  ASSUME Shaped, NEW c \in Chat, NEW u \in User, NEW as \in {"member", "owner"},
         Inserted(c, u, as)
  PROVE  /\ role' \in [Chat -> [User -> {"none", "member", "admin", "owner"}]]
         /\ late' \subseteq Chat \X User
<1>1. late' \subseteq Chat \X User
  <2>1. late' = late \/ late' = late \cup {<<c, u>>}
    BY DEF Inserted
  <2> QED
    BY <2>1 DEF Shaped, MembershipTypeOK
<1>2. role' \in [Chat -> [User -> {"none", "member", "admin", "owner"}]]
  BY DEF Shaped, MembershipTypeOK, Inserted
<1> QED
  BY <1>1, <1>2

\* Every statement leaves rows and requests of their shapes.
LEMMA StepShaped ==
  ASSUME Shaped, MembershipNext
  PROVE  Shaped'
<1>0. ASSUME requests' \in [Request -> RequestType], \A s \in Request : RequestOK(requests'[s]),
             type' \in [Chat -> {"none", "direct", "group", "gone"}],
             role' \in [Chat -> [User -> {"none", "member", "admin", "owner"}]],
             invites' \in [Invite -> Chat \cup {None}], revoked' \subseteq Invite,
             detached' \subseteq Chat \X User, owed' \subseteq Chat \X User,
             late' \subseteq Chat \X User, ownerLeft' \subseteq Chat
      PROVE  Shaped'
  BY <1>0 DEF Shaped, MembershipTypeOK, RequestType, RequestOK
<1> USE DEF history
<1>1. ASSUME NEW r \in Request, NEW u \in User, NEW v \in User, LookUp(r, u, v) PROVE Shaped'
  <2>1. requests' \in [Request -> RequestType] /\ \A s \in Request : RequestOK(requests'[s])
    BY <1>1, AsksShaped, NoneAssumption DEF LookUp, Steps
  <2> QED
    BY <1>1, <2>1, <1>0 DEF LookUp, Shaped, MembershipTypeOK
<1>2. ASSUME NEW r \in Request, NEW u \in User, NEW c \in Chat,
             leaveChat(r, u, c) \/ deleteChat(r, u, c) \/ createInvite(r, u, c)
      PROVE  Shaped'
  <2>1. Members(c) \in SUBSET User
    BY DEF Members
  <2>2. requests' \in [Request -> RequestType] /\ \A s \in Request : RequestOK(requests'[s])
    BY <1>2, <2>1, AsksShaped, NoneAssumption DEF leaveChat, deleteChat, createInvite, Steps
  <2> QED
    BY <1>2, <2>2, <1>0 DEF leaveChat, deleteChat, createInvite, Shaped, MembershipTypeOK
<1>3. ASSUME NEW r \in Request, NEW u \in User, NEW v \in User, NEW c \in Chat,
             SetRole(r, u, c, v)
      PROVE  Shaped'
  <2>1. requests' \in [Request -> RequestType] /\ \A s \in Request : RequestOK(requests'[s])
    BY <1>3, AsksShaped, NoneAssumption DEF SetRole, Steps
  <2> QED
    BY <1>3, <2>1, <1>0 DEF SetRole, Shaped, MembershipTypeOK
<1>4. ASSUME NEW r \in Request, NEW u \in User, NEW i \in Invite,
             revokeInvite(r, u, i) \/ joinInvite(r, u, i)
      PROVE  Shaped'
  <2>1. invites[i] \in Chat /\ invites[i] # None
    BY <1>4 DEF revokeInvite, joinInvite, Open, Shaped, MembershipTypeOK
  <2>2. CASE revokeInvite(r, u, i)
    <3>1. [NoRequest EXCEPT !.at = "revoke", !.link = i] \in RequestType
      BY DEF NoRequest, RequestType, Steps
    <3>2. RequestOK([NoRequest EXCEPT !.at = "revoke", !.link = i])
      BY DEF NoRequest, RequestOK
    <3>3. requests' \in [Request -> RequestType] /\ \A s \in Request : RequestOK(requests'[s])
      BY <2>2, <3>1, <3>2, AskedShaped DEF revokeInvite
    <3> QED
      BY <2>2, <3>3, <1>0 DEF revokeInvite, Shaped, MembershipTypeOK
  <2>3. CASE joinInvite(r, u, i)
    <3>1. requests' \in [Request -> RequestType] /\ \A s \in Request : RequestOK(requests'[s])
      BY <2>1, <2>3, AsksShaped, NoneAssumption DEF joinInvite, Steps
    <3> QED
      BY <2>3, <3>1, <1>0 DEF joinInvite, Shaped, MembershipTypeOK
  <2> QED
    BY <1>4, <2>2, <2>3
<1>5. ASSUME NEW r \in Request, createDirect(r) \/ createGroup(r) PROVE Shaped'
  <2>1. PICK c \in Chat, kind \in {"direct", "group"}, u \in User, s \in SUBSET User :
          InsertChat(r, c, kind, u, s)
    BY <1>5 DEF createDirect, createGroup, Shaped, MembershipTypeOK, RequestOK
  <2>2. requests' \in [Request -> RequestType] /\ \A t \in Request : RequestOK(requests'[t])
    BY <2>1, AsksShaped, NoneAssumption DEF InsertChat, Steps
  <2> QED
    BY <2>1, <2>2, <1>0 DEF InsertChat, Shaped, MembershipTypeOK
<1>6. ASSUME NEW r \in Request, InsertOwner(r) \/ Created(r) \/ RemoveMember(r) \/ UpdateRole(r)
      PROVE  Shaped'
  <2>1. /\ requests[r].chat \in Chat /\ requests[r].who \in User
        /\ requests[r].list \subseteq User
    BY <1>6 DEF InsertOwner, Created, RemoveMember, UpdateRole, Shaped, MembershipTypeOK, RequestOK
  <2>2. requests' \in [Request -> RequestType] /\ \A s \in Request : RequestOK(requests'[s])
    BY <1>6, EndedShaped, AdvancedShaped DEF InsertOwner, Created, RemoveMember, UpdateRole
  <2>3. CASE InsertOwner(r)
    BY <2>1, <2>2, <2>3, <1>0, InsertedShaped DEF InsertOwner, Shaped, MembershipTypeOK
  <2>4. CASE Created(r)
    BY <2>1, <2>2, <2>4, <1>0 DEF Created, Shaped, MembershipTypeOK
  <2>5. CASE RemoveMember(r)
    <3>1. role' \in [Chat -> [User -> {"none", "member", "admin", "owner"}]]
      BY <2>5 DEF RemoveMember, Shaped, MembershipTypeOK
    <3>2. ownerLeft' \subseteq Chat
      BY <2>1, <2>5 DEF RemoveMember, Shaped, MembershipTypeOK
    <3> QED
      BY <2>2, <2>5, <3>1, <3>2, <1>0 DEF RemoveMember, Shaped, MembershipTypeOK
  <2>6. CASE UpdateRole(r)
    <3>1. role' \in [Chat -> [User -> {"none", "member", "admin", "owner"}]]
      BY <2>6 DEF UpdateRole, Shaped, MembershipTypeOK
    <3> QED
      BY <2>2, <2>6, <3>1, <1>0 DEF UpdateRole, Shaped, MembershipTypeOK
  <2> QED
    BY <1>6, <2>3, <2>4, <2>5, <2>6
<1>7. ASSUME NEW r \in Request, ListMembers(r) \/ Delete(r) \/ TellDeleted(r) PROVE Shaped'
  <2>1. requests[r].chat \in Chat /\ Members(requests[r].chat) \in SUBSET User
    BY <1>7 DEF ListMembers, Delete, TellDeleted, Shaped, MembershipTypeOK, RequestOK, Members
  <2>2. CASE ListMembers(r)
    <3>1. requests' \in [Request -> RequestType] /\ \A s \in Request : RequestOK(requests'[s])
      BY <2>1, <2>2, AsksShaped, NoneAssumption DEF ListMembers, Steps
    <3> QED
      BY <2>2, <3>1, <1>0 DEF ListMembers, Shaped, MembershipTypeOK
  <2>3. CASE Delete(r)
    <3>1. requests' \in [Request -> RequestType] /\ \A s \in Request : RequestOK(requests'[s])
      BY <2>3, AdvancedShaped DEF Delete
    <3>2. owed' \subseteq Chat \X User
      BY <2>1, <2>3 DEF Delete, Members, Shaped, MembershipTypeOK
    <3>3. /\ role' \in [Chat -> [User -> {"none", "member", "admin", "owner"}]]
          /\ type' \in [Chat -> {"none", "direct", "group", "gone"}]
      BY <2>1, <2>3 DEF Delete, Shaped, MembershipTypeOK
    <3> QED
      BY <2>3, <3>1, <3>2, <3>3, <1>0 DEF Delete, Shaped, MembershipTypeOK
  <2>4. CASE TellDeleted(r)
    BY <2>4, <1>0, EndedShaped DEF TellDeleted, Shaped, MembershipTypeOK
  <2> QED
    BY <1>7, <2>2, <2>3, <2>4
<1>8. ASSUME NEW r \in Request, InsertInvite(r) \/ Revoke(r) \/ Fails(r) PROVE Shaped'
  <2>1. requests' \in [Request -> RequestType] /\ \A s \in Request : RequestOK(requests'[s])
    BY <1>8, EndedShaped DEF InsertInvite, Revoke, Fails
  <2>2. CASE InsertInvite(r)
    <3>1. invites' \in [Invite -> Chat \cup {None}]
      BY <2>2 DEF InsertInvite, Shaped, MembershipTypeOK
    <3> QED
      BY <2>1, <2>2, <3>1, <1>0 DEF InsertInvite, Shaped, MembershipTypeOK
  <2>3. CASE Revoke(r)
    BY <2>1, <2>3, <1>0 DEF Revoke, Shaped, MembershipTypeOK, RequestOK
  <2>4. CASE Fails(r)
    BY <2>1, <2>4, <1>0 DEF Fails, Shaped, MembershipTypeOK
  <2> QED
    BY <1>8, <2>2, <2>3, <2>4
<1>9. ASSUME NEW r \in Request, CheckMember(r) \/ Join(r) PROVE Shaped'
  <2>1. requests[r].chat \in Chat /\ requests[r].who \in User
    BY <1>9 DEF CheckMember, Join, Shaped, MembershipTypeOK, RequestOK
  <2>2. requests' \in [Request -> RequestType] /\ \A s \in Request : RequestOK(requests'[s])
    BY <1>9, EndedShaped, AdvancedShaped DEF CheckMember, Join
  <2>3. CASE CheckMember(r)
    BY <2>2, <2>3, <1>0 DEF CheckMember, Shaped, MembershipTypeOK
  <2>4. CASE Join(r)
    BY <2>1, <2>2, <2>4, <1>0, InsertedShaped DEF Join, Shaped, MembershipTypeOK
  <2> QED
    BY <1>9, <2>3, <2>4
<1>10. ASSUME NEW c \in Chat, NEW u \in User, InsertMember(c, u) PROVE Shaped'
  <2>1. requests' \in [Request -> RequestType] /\ \A s \in Request : RequestOK(requests'[s])
    BY <1>10 DEF InsertMember, Shaped, MembershipTypeOK, RequestType
  <2>2. /\ role' \in [Chat -> [User -> {"none", "member", "admin", "owner"}]]
        /\ late' \subseteq Chat \X User
    BY <1>10, InsertedShaped DEF InsertMember, Shaped, MembershipTypeOK
  <2> QED
    BY <1>10, <2>1, <2>2, <1>0 DEF InsertMember, Shaped, MembershipTypeOK
<1>11. CASE Crash
  <2>1. requests' \in [Request -> RequestType] /\ \A s \in Request : RequestOK(requests'[s])
    BY <1>11, NoRequestShaped DEF Crash
  <2> QED
    BY <1>11, <2>1, <1>0 DEF Crash, Shaped, MembershipTypeOK
<1> QED
  BY <1>1, <1>2, <1>3, <1>4, <1>5, <1>6, <1>7, <1>8, <1>9, <1>10, <1>11 DEF MembershipNext

-------------------------------------------------------------------------------
\* Owners.

\* A blank chat has no members, so no owner.
LEMMA BlankNone == \A c \in Chat : Blank(c) => Members(c) = {} /\ Owners(c) = {}
BY DEF Blank, Members, Owners

\* A request that ends, rows that go or come, and detached inserts that are done
\* leave OwnerInv true where the chat is not blank and keeps its owner, or is left.
LEMMA FewerOwner ==
  ASSUME Shaped, OwnerInv,
         UNCHANGED <<type, invites>>, detached' \subseteq detached,
         \A s \in Request : requests'[s] = requests[s] \/ requests'[s].chat = None,
         \A c \in Chat :
           \/ role'[c] = role[c] /\ (c \in ownerLeft' <=> c \in ownerLeft)
           \/ /\ ~Blank(c)
              /\ type[c] = "gone" => Members(c)' = {}
              /\ \/ Owners(c)' = Owners(c) /\ (c \in ownerLeft' <=> c \in ownerLeft)
                 \/ Owners(c)' = {} /\ c \in ownerLeft'
  PROVE  OwnerInv'
<1> SUFFICES ASSUME NEW c \in Chat PROVE Owned(c)'
  BY DEF OwnerInv
<1>1. c # None
  BY NoneAssumption
<1>2. \A s \in Request : requests'[s].chat = c => requests'[s] = requests[s] /\ requests[s].chat = c
  BY <1>1
<1>3. CASE role'[c] = role[c] /\ (c \in ownerLeft' <=> c \in ownerLeft)
  <2>1. Members(c)' = Members(c) /\ Owners(c)' = Owners(c)
    BY <1>3 DEF Members, Owners
  <2>2. Blank(c) => Blank(c)'
    BY <1>2, <2>1 DEF Blank
  <2>3. Live(c)' = Live(c)
    BY DEF Live
  <2> QED
    BY <1>2, <1>3, <2>1, <2>2, <2>3 DEF OwnerInv, Owned
<1>4. CASE /\ ~Blank(c)
           /\ type[c] = "gone" => Members(c)' = {}
           /\ \/ Owners(c)' = Owners(c) /\ (c \in ownerLeft' <=> c \in ownerLeft)
              \/ Owners(c)' = {} /\ c \in ownerLeft'
  <2>1. type[c] # "none" /\ \A r \in Request : requests[r].chat = c => requests[r].at # "owner"
    BY <1>4 DEF OwnerInv, Owned
  <2>2. \A r \in Request : requests[r].chat = c /\ requests[r].at = "remove" =>
          requests[r].who \in User
    BY DEF Shaped, RequestOK
  <2>3. \A u \in User : role'[c][u] = "owner" => role[c][u] = "owner"
    BY <1>4 DEF Owners
  <2>4. type[c] # "gone" /\ c \notin ownerLeft' => Owners(c)' = Owners(c) /\ Owners(c) # {}
    BY <1>4 DEF OwnerInv, Owned
  <2>5. \A u, v \in Owners(c)' : u = v
    BY <1>4 DEF OwnerInv, Owned
  <2>6. \A r \in Request : requests'[r].chat = c /\ requests'[r].at = "remove"
                          /\ role'[c][requests'[r].who] = "owner" =>
                      requests'[r].list = {requests'[r].who}
    BY <1>2, <2>2, <2>3 DEF OwnerInv, Owned
  <2>7. \A r \in Request : requests'[r].chat = c => requests'[r].at # "owner"
    BY <1>2, <2>1
  <2> QED
    BY <1>4, <2>1, <2>4, <2>5, <2>6, <2>7 DEF Owned
<1> QED
  BY <1>3, <1>4

\* A statement that is asked for changes no row; it is about a chat somebody is in.
LEMMA AskedOwner ==
  ASSUME Shaped, OwnerInv, NEW r \in Request, NEW q,
         requests' = [requests EXCEPT ![r] = q],
         q.at # "owner", q.chat = None \/ ~Blank(q.chat),
         q.at = "remove" /\ role[q.chat][q.who] = "owner" => q.list = {q.who},
         UNCHANGED <<type, role, invites, detached, ownerLeft>>
  PROVE  OwnerInv'
<1> SUFFICES ASSUME NEW c \in Chat PROVE Owned(c)'
  BY DEF OwnerInv
<1>1. \A s \in Request : requests'[s] = IF s = r THEN q ELSE requests[s]
  BY DEF Shaped, MembershipTypeOK
<1>2. Members(c)' = Members(c) /\ Owners(c)' = Owners(c) /\ Live(c)' = Live(c)
  BY DEF Members, Owners, Live
<1>3. Blank(c) => q.chat # c
  BY NoneAssumption
<1>4. Blank(c) => Blank(c)'
  BY <1>1, <1>2, <1>3 DEF Blank
<1> QED
  BY <1>1, <1>2, <1>3, <1>4 DEF OwnerInv, Owned

\* A row that comes to a chat somebody is in, or is about to come to, is nobody's
\* who owns it.
LEMMA MemberComes ==
  ASSUME Shaped, NEW c \in Chat, NEW u \in User, Inserted(c, u, "member")
  PROVE  /\ \A d \in Chat : d # c => role'[d] = role[d]
         /\ Owners(c)' = Owners(c)
         /\ type[c] = "gone" => role' = role
<1>1. \/ role' = role
      \/ Live(c) /\ role[c][u] = "none" /\ role' = [role EXCEPT ![c][u] = "member"]
  BY DEF Inserted
<1>2. CASE role' = role
  BY <1>2 DEF Owners
<1>3. CASE Live(c) /\ role[c][u] = "none" /\ role' = [role EXCEPT ![c][u] = "member"]
  <2>1. \A v \in User : role'[c][v] = IF v = u THEN "member" ELSE role[c][v]
    BY <1>3 DEF Shaped, MembershipTypeOK
  <2>2. Owners(c)' = Owners(c)
    BY <1>3, <2>1 DEF Owners
  <2> QED
    BY <1>3, <2>2 DEF Live, Shaped, MembershipTypeOK
<1> QED
  BY <1>1, <1>2, <1>3

\* So does Asks, which is how most statements are asked for.
LEMMA AsksOwner ==
  ASSUME Shaped, OwnerInv, NEW r \in Request, NEW step, NEW u, NEW c, NEW s,
         Asks(r, step, u, c, s), step # "owner", c = None \/ ~Blank(c),
         step = "remove" /\ role[c][u] = "owner" => s = {u},
         UNCHANGED <<type, role, invites, detached, ownerLeft>>
  PROVE  OwnerInv'
<1> DEFINE q == [at |-> step, who |-> u, chat |-> c, list |-> s, link |-> None]
<1>1. q.at = step /\ q.who = u /\ q.chat = c /\ q.list = s
  OBVIOUS
<1>2. requests' = [requests EXCEPT ![r] = q]
  BY DEF Asks
<1>3. /\ q.at # "owner" /\ (q.chat = None \/ ~Blank(q.chat))
      /\ q.at = "remove" /\ role[q.chat][q.who] = "owner" => q.list = {q.who}
  BY <1>1
<1> HIDE DEF q
<1> QED
  BY <1>2, <1>3, AskedOwner

\* No statement gives a chat a second owner, or takes the only one but by his leave.
LEMMA StepOwner ==
  ASSUME Shaped, OwnerInv, MembershipNext
  PROVE  OwnerInv'
<1> USE DEF history
<1>1. ASSUME NEW r \in Request, NEW u \in User, NEW v \in User, LookUp(r, u, v) PROVE OwnerInv'
  BY <1>1, AsksOwner DEF LookUp
<1>2. ASSUME NEW r \in Request, NEW u \in User, NEW c \in Chat, Members(c) # {},
             leaveChat(r, u, c) \/ deleteChat(r, u, c) \/ createInvite(r, u, c)
      PROVE  OwnerInv'
  <2>1. ~Blank(c)
    BY <1>2 DEF Blank
  <2> QED
    BY <1>2, <2>1, AsksOwner DEF leaveChat, deleteChat, createInvite
<1>3. ASSUME NEW r \in Request, NEW u \in User, NEW v \in User, NEW c \in Chat,
             Members(c) # {}, SetRole(r, u, c, v)
      PROVE  OwnerInv'
  <2>1. ~Blank(c)
    BY <1>3 DEF Blank
  <2> QED
    BY <1>3, <2>1, AsksOwner DEF SetRole
<1>4. ASSUME NEW r \in Request, NEW u \in User, NEW i \in Invite,
             revokeInvite(r, u, i) \/ joinInvite(r, u, i)
      PROVE  OwnerInv'
  <2>1. invites[i] \in Chat /\ ~Blank(invites[i])
    BY <1>4 DEF revokeInvite, joinInvite, Open, Blank, Shaped, MembershipTypeOK
  <2>2. CASE revokeInvite(r, u, i)
    <3> DEFINE q == [NoRequest EXCEPT !.at = "revoke", !.link = i]
    <3>1. q.at = "revoke" /\ q.chat = None
      BY DEF NoRequest
    <3>2. /\ requests' = [requests EXCEPT ![r] = q]
          /\ UNCHANGED <<type, role, invites, detached, ownerLeft>>
      BY <2>2 DEF revokeInvite
    <3> HIDE DEF q
    <3> QED
      BY <3>1, <3>2, AskedOwner
  <2>3. CASE joinInvite(r, u, i)
    BY <2>1, <2>3, AsksOwner DEF joinInvite
  <2> QED
    BY <1>4, <2>2, <2>3
<1>5. ASSUME NEW r \in Request, createDirect(r) \/ createGroup(r) PROVE OwnerInv'
  <2>1. PICK c \in Chat, kind \in {"direct", "group"}, u \in User, s \in SUBSET User :
          InsertChat(r, c, kind, u, s)
    BY <1>5 DEF createDirect, createGroup, Shaped, MembershipTypeOK, RequestOK
  <2>2. /\ \A d \in Chat : type'[d] = IF d = c THEN kind ELSE type[d]
        /\ \A t \in Request : requests'[t] = IF t = r
             THEN [at |-> "owner", who |-> u, chat |-> c, list |-> s, link |-> None]
             ELSE requests[t]
        /\ type[c] = "none" /\ UNCHANGED <<role, invites, detached, ownerLeft>>
    BY <2>1 DEF InsertChat, Asks, Shaped, MembershipTypeOK
  <2>3. \A d \in Chat : Members(d)' = Members(d) /\ Owners(d)' = Owners(d)
    BY <2>2 DEF Members, Owners
  <2>4. \A d \in Chat : Blank(d) => Blank(d)'
    BY <2>2, <2>3 DEF Blank
  <2>5. Blank(c) /\ c \notin ownerLeft /\ \A t \in Request : requests[t].chat # c
    BY <2>2 DEF OwnerInv, Owned
  <2>6. Owners(c) = {}
    BY <2>5, BlankNone
  <2>7. \A d \in Chat \ {c} : Live(d) => Live(d)'
    BY <2>2 DEF Live
  <2>8. Live(c)'
    BY <2>2 DEF Live
  <2> QED
    BY <2>2, <2>3, <2>4, <2>5, <2>6, <2>7, <2>8 DEF OwnerInv, Owned
<1>6. ASSUME NEW r \in Request, InsertOwner(r) PROVE OwnerInv'
  <2>1. PICK c \in Chat, u \in User :
          c = requests[r].chat /\ u = requests[r].who /\ requests[r].at = "owner"
    BY <1>6 DEF InsertOwner, Shaped, MembershipTypeOK, RequestOK
  <2>2. /\ Live(c) /\ c \notin ownerLeft /\ Blank(c)
        /\ \A s \in Request : requests[s].chat = c => s = r
    BY <2>1 DEF OwnerInv, Owned
  <2>3. Members(c) = {}
    BY <2>2 DEF Blank
  <2>4. role' = [role EXCEPT ![c][u] = "owner"]
    BY <1>6, <2>1, <2>2, <2>3 DEF InsertOwner, Inserted, Members, Shaped, MembershipTypeOK
  <2>5. /\ \A d \in Chat : d # c => role'[d] = role[d]
        /\ \A v \in User : role'[c][v] = IF v = u THEN "owner" ELSE "none"
    BY <2>1, <2>3, <2>4 DEF Members, Shaped, MembershipTypeOK
  <2>6. /\ \A s \in Request : s # r => requests'[s] = requests[s]
        /\ requests'[r].at = "tell" /\ requests'[r].chat = c
        /\ UNCHANGED <<type, invites, detached, ownerLeft>>
    BY <1>6, <2>1 DEF InsertOwner, Shaped, MembershipTypeOK
  <2>7. Owners(c)' = {u} /\ type[c] \notin {"none", "gone"}
    BY <2>1, <2>2, <2>5 DEF Owners, Live
  <2>8. \A d \in Chat : d # c => /\ Members(d)' = Members(d) /\ Owners(d)' = Owners(d)
                                 /\ Live(d)' = Live(d)
    BY <2>5, <2>6 DEF Members, Owners, Live
  <2>9. \A d \in Chat : d # c /\ Blank(d) => Blank(d)'
    BY <2>6, <2>8 DEF Blank
  <2>10. \A v, w \in Owners(c)' : v = w
    BY <2>7
  <2>11. \A s \in Request : requests'[s].chat = c => s = r
    BY <2>2, <2>6
  <2> QED
    BY <2>1, <2>2, <2>5, <2>6, <2>7, <2>8, <2>9, <2>10, <2>11 DEF OwnerInv, Owned
<1>7. ASSUME NEW r \in Request, Created(r) PROVE OwnerInv'
  <2>1. PICK c \in Chat :
          c = requests[r].chat /\ requests[r].at = "tell"
    BY <1>7 DEF Created, Shaped, MembershipTypeOK, RequestOK
  <2>2. ~Blank(c)
    BY <2>1 DEF Blank
  <2>3. /\ \A s \in Request : requests'[s] = IF s = r THEN NoRequest ELSE requests[s]
        /\ \A d \in Chat, u \in User : d # c => (<<d, u>> \in detached' <=> <<d, u>> \in detached)
        /\ UNCHANGED <<type, role, invites, ownerLeft>>
    BY <1>7, <2>1 DEF Created, Ends, Shaped, MembershipTypeOK
  <2>4. NoRequest.chat = None /\ None \notin Chat
    BY NoneAssumption DEF NoRequest
  <2>5. \A d \in Chat : Members(d)' = Members(d) /\ Owners(d)' = Owners(d) /\ Live(d)' = Live(d)
    BY <2>3 DEF Members, Owners, Live
  <2>6. \A d \in Chat : d # c /\ Blank(d) => Blank(d)'
    BY <2>3, <2>4, <2>5 DEF Blank
  <2> QED
    BY <2>1, <2>2, <2>3, <2>4, <2>5, <2>6 DEF OwnerInv, Owned
<1>8. ASSUME NEW r \in Request, RemoveMember(r) PROVE OwnerInv'
  <2>1. PICK c \in Chat, u \in User :
          c = requests[r].chat /\ u = requests[r].who /\ requests[r].at = "remove"
    BY <1>8 DEF RemoveMember, Shaped, MembershipTypeOK, RequestOK
  <2>2. ~Blank(c)
    BY <2>1 DEF Blank
  <2>3. /\ \A s \in Request : requests'[s] = IF s = r THEN NoRequest ELSE requests[s]
        /\ UNCHANGED <<type, invites, detached>>
        /\ \A d \in Chat : d # c => role'[d] = role[d]
        /\ \A v \in User : role'[c][v] = IF v = u THEN "none" ELSE role[c][v]
    <3>1. role' = [role EXCEPT ![c][u] = "none"]
      BY <1>8, <2>1 DEF RemoveMember
    <3>2. /\ \A d \in Chat : d # c => role'[d] = role[d]
          /\ \A v \in User : role'[c][v] = IF v = u THEN "none" ELSE role[c][v]
      BY <3>1 DEF Shaped, MembershipTypeOK
    <3>3. \A s \in Request : requests'[s] = IF s = r THEN NoRequest ELSE requests[s]
      BY <1>8 DEF RemoveMember, Ends, Shaped, MembershipTypeOK
    <3> QED
      BY <1>8, <3>2, <3>3 DEF RemoveMember
  <2>4. CASE role[c][u] = "owner"
    <3>1. requests[r].list = {u}
      BY <2>1, <2>4 DEF OwnerInv, Owned
    <3>2. ownerLeft' = ownerLeft \cup {c}
      BY <1>8, <2>1, <2>4, <3>1 DEF RemoveMember
    <3>3. Owners(c)' = {}
      BY <2>1, <2>3, <2>4 DEF Owners, OwnerInv, Owned
    <3>4. type[c] = "gone" => Members(c)' = {}
      BY <2>1, <2>3 DEF Members, OwnerInv, Owned
    <3> QED
      BY <2>2, <2>3, <3>2, <3>3, <3>4, FewerOwner DEF NoRequest, Owners
  <2>5. CASE role[c][u] # "owner"
    <3>1. ownerLeft' = ownerLeft
      BY <1>8, <2>1, <2>5 DEF RemoveMember
    <3>2. Owners(c)' = Owners(c)
      BY <2>1, <2>3, <2>5 DEF Owners
    <3>3. type[c] = "gone" => Members(c)' = {}
      BY <2>1, <2>3 DEF Members, OwnerInv, Owned
    <3> QED
      BY <2>2, <2>3, <3>1, <3>2, <3>3, FewerOwner DEF NoRequest
  <2> QED
    BY <2>4, <2>5
<1>9. ASSUME NEW r \in Request, UpdateRole(r) PROVE OwnerInv'
  <2>1. PICK c \in Chat, u \in User :
          c = requests[r].chat /\ u = requests[r].who /\ requests[r].at \in {"promote", "demote"}
    BY <1>9 DEF UpdateRole, Shaped, MembershipTypeOK, RequestOK
  <2>2. ~Blank(c)
    BY <2>1 DEF Blank
  <2>3. /\ \A s \in Request : requests'[s] = IF s = r THEN NoRequest ELSE requests[s]
        /\ UNCHANGED <<type, invites, detached, ownerLeft>>
        /\ \A d \in Chat : d # c => role'[d] = role[d]
        /\ \A v \in User : role'[c][v] = role[c][v] \/
             (role[c][v] \in {"member", "admin"} /\ role'[c][v] \in {"member", "admin"})
    BY <1>9, <2>1 DEF UpdateRole, Ends, Shaped, MembershipTypeOK
  <2>4. Owners(c)' = Owners(c) /\ Members(c)' = Members(c)
    BY <2>3 DEF Owners, Members
  <2>5. type[c] = "gone" => Members(c)' = {}
    BY <2>1, <2>4 DEF OwnerInv, Owned
  <2> QED
    BY <2>2, <2>3, <2>4, <2>5, FewerOwner DEF NoRequest
<1>10. ASSUME NEW r \in Request, ListMembers(r) PROVE OwnerInv'
  <2>1. requests[r].at = "list" /\ ~Blank(requests[r].chat)
    BY <1>10 DEF ListMembers, Blank
  <2> QED
    BY <1>10, <2>1, AsksOwner DEF ListMembers
<1>11. ASSUME NEW r \in Request, Delete(r) PROVE OwnerInv'
  <2>1. PICK c \in Chat :
          c = requests[r].chat /\ requests[r].at = "delete" /\ ~Blank(c)
    BY <1>11 DEF Delete, Blank, Shaped, MembershipTypeOK, RequestOK
  <2>2. /\ \A d \in Chat : type'[d] = IF d = c THEN "gone" ELSE type[d]
        /\ \A d \in Chat : d # c => role'[d] = role[d]
        /\ \A v \in User : role'[c][v] = "none"
        /\ \A s \in Request : s # r => requests'[s] = requests[s]
        /\ requests'[r].chat = c /\ requests'[r].at = "publish"
        /\ UNCHANGED <<invites, detached, ownerLeft>>
    BY <1>11, <2>1 DEF Delete, Shaped, MembershipTypeOK
  <2>3. Members(c)' = {} /\ Owners(c)' = {}
    BY <2>2 DEF Members, Owners
  <2>4. \A d \in Chat : d # c => /\ Members(d)' = Members(d) /\ Owners(d)' = Owners(d)
                                 /\ Live(d)' = Live(d)
    BY <2>2 DEF Members, Owners, Live
  <2>5. \A d \in Chat : d # c /\ Blank(d) => Blank(d)'
    BY <2>2, <2>4 DEF Blank
  <2>6. \A s \in Request : requests'[s].chat = c => requests'[s].at # "owner"
    BY <2>1, <2>2 DEF Blank, OwnerInv, Owned
  <2>7. \A s \in Request : requests'[s].chat = c /\ requests'[s].at = "remove" =>
          requests'[s].who \in User
    BY <2>2 DEF Shaped, RequestOK
  <2> QED
    BY <2>1, <2>2, <2>3, <2>4, <2>5, <2>6, <2>7 DEF OwnerInv, Owned
<1>12. ASSUME NEW r \in Request, InsertInvite(r) PROVE OwnerInv'
  <2>1. PICK c \in Chat :
          c = requests[r].chat /\ requests[r].at = "invite" /\ ~Blank(c)
    BY <1>12 DEF InsertInvite, Blank, Shaped, MembershipTypeOK, RequestOK
  <2>2. /\ \A s \in Request : requests'[s] = IF s = r THEN NoRequest ELSE requests[s]
        /\ \A i \in Invite : invites'[i] = invites[i] \/ invites'[i] = c
        /\ UNCHANGED <<type, role, detached, ownerLeft>>
    BY <1>12, <2>1 DEF InsertInvite, Ends, Shaped, MembershipTypeOK
  <2>3. NoRequest.chat = None /\ None \notin Chat
    BY NoneAssumption DEF NoRequest
  <2>4. \A d \in Chat : Members(d)' = Members(d) /\ Owners(d)' = Owners(d) /\ Live(d)' = Live(d)
    BY <2>2 DEF Members, Owners, Live
  <2>5. \A d \in Chat : d # c /\ Blank(d) => Blank(d)'
    BY <2>2, <2>3, <2>4 DEF Blank
  <2> QED
    BY <2>1, <2>2, <2>3, <2>4, <2>5 DEF OwnerInv, Owned
<1>13. ASSUME NEW r \in Request, TellDeleted(r) \/ Revoke(r) \/ Fails(r) PROVE OwnerInv'
  <2>1. /\ \A s \in Request : requests'[s] = requests[s] \/ requests'[s].chat = None
        /\ UNCHANGED <<type, role, invites, detached, ownerLeft>>
    BY <1>13 DEF TellDeleted, Revoke, Fails, Ends, NoRequest, Shaped, MembershipTypeOK
  <2> QED
    BY <2>1, FewerOwner
<1>14. ASSUME NEW r \in Request, CheckMember(r) PROVE OwnerInv'
  <2>1. requests[r].at = "member" /\ requests[r].chat \in Chat /\ ~Blank(requests[r].chat)
    BY <1>14 DEF CheckMember, Blank, Shaped, MembershipTypeOK, RequestOK
  <2>2. PICK q \in {NoRequest, [requests[r] EXCEPT !.at = "join"]} :
          requests' = [requests EXCEPT ![r] = q]
    BY <1>14 DEF CheckMember, Ends
  <2>3. q.at \in {"none", "join"} /\ (q.chat = None \/ q.chat = requests[r].chat)
    BY DEF NoRequest, Shaped, MembershipTypeOK
  <2> QED
    BY <1>14, <2>1, <2>2, <2>3, AskedOwner DEF CheckMember
<1>15. ASSUME NEW r \in Request, Join(r) PROVE OwnerInv'
  <2>1. PICK c \in Chat :
          c = requests[r].chat /\ requests[r].at = "join" /\ requests[r].who \in User /\ ~Blank(c)
    BY <1>15 DEF Join, Blank, Shaped, MembershipTypeOK, RequestOK
  <2>2. /\ \A s \in Request : requests'[s] = requests[s] \/ requests'[s].chat = None
        /\ UNCHANGED <<type, invites, detached, ownerLeft>>
    BY <1>15 DEF Join, Ends, NoRequest, Shaped, MembershipTypeOK
  <2>3. /\ \A d \in Chat : d # c => role'[d] = role[d]
        /\ Owners(c)' = Owners(c)
        /\ type[c] = "gone" => role' = role
    BY <1>15, <2>1, MemberComes DEF Join
  <2>4. type[c] = "gone" => Members(c)' = {}
    BY <2>1, <2>3 DEF OwnerInv, Owned, Members
  <2> QED
    BY <2>1, <2>2, <2>3, <2>4, FewerOwner
<1>16. ASSUME NEW c \in Chat, NEW u \in User, InsertMember(c, u) PROVE OwnerInv'
  <2>1. ~Blank(c)
    BY <1>16 DEF InsertMember, Blank
  <2>2. UNCHANGED <<type, invites, requests, ownerLeft>> /\ detached' \subseteq detached
    BY <1>16 DEF InsertMember
  <2>3. /\ \A d \in Chat : d # c => role'[d] = role[d]
        /\ Owners(c)' = Owners(c)
        /\ type[c] = "gone" => role' = role
    <3>1. CASE role' = role
      BY <3>1 DEF Owners
    <3>2. CASE Inserted(c, u, "member")
      BY <3>2, MemberComes
    <3> QED
      BY <1>16, <3>1, <3>2 DEF InsertMember
  <2>4. type[c] = "gone" => Members(c)' = {}
    BY <2>3 DEF OwnerInv, Owned, Members
  <2> QED
    BY <2>1, <2>2, <2>3, <2>4, FewerOwner
<1>17. CASE Crash
  <2>1. /\ \A s \in Request : requests'[s].chat = None
        /\ UNCHANGED <<type, role, invites, ownerLeft>> /\ detached' = {}
    BY <1>17 DEF Crash, NoRequest
  <2> QED
    BY <2>1, FewerOwner
<1>18. \A u \in User, c \in Chat : role[c][u] # "none" => Members(c) # {}
  BY DEF Members
<1> QED
  BY <1>1, <1>2, <1>3, <1>4, <1>5, <1>6, <1>7, <1>8, <1>9, <1>10, <1>11, <1>12, <1>13,
     <1>14, <1>15, <1>16, <1>17, <1>18
  DEF MembershipNext, leaveChat, deleteChat, createInvite, SetRole

-------------------------------------------------------------------------------
\* Direct chats.

\* What keeps a chat between two: only they come, and nobody is about to be invited.
LEMMA BetweenKept ==
  ASSUME NEW c \in Chat, NEW u \in User, NEW v \in User, Between(c, u, v),
         \A w \in User : role'[c][w] # "none" => role[c][w] # "none" \/ w \in {u, v},
         \A w \in User : <<c, w>> \in detached' => w \in {u, v},
         \A i \in Invite : invites'[i] # c,
         \A s \in Request : requests'[s].chat = c =>
           \/ requests'[s] = requests[s]
           \/ requests'[s].at \notin {"invite", "member", "join", "owner", "tell"}
           \/ /\ requests'[s].at = "tell"
              /\ requests'[s].who \in {u, v} /\ requests'[s].list \subseteq {u, v}
  PROVE  Between(c, u, v)'
BY DEF Between, Members

\* Two who are alone in a chat, or about to be, stay so.
LEMMA StaysBetween ==
  ASSUME Shaped, MembershipNext, NEW c \in Chat, NEW u \in User, NEW v \in User,
         type[c] = "direct", Between(c, u, v)
  PROVE  Between(c, u, v)'
<1> USE DEF history
<1>a. NoRequest.chat # c
  BY NoneAssumption DEF NoRequest
<1>b. /\ \A w \in User : role[c][w] # "none" => w \in {u, v}
      /\ \A w \in User : <<c, w>> \in detached => w \in {u, v}
      /\ \A i \in Invite : invites[i] # c
      /\ \A r \in Request : requests[r].chat = c =>
           /\ requests[r].at \notin {"invite", "member", "join"}
           /\ requests[r].at \in {"owner", "tell"} =>
                requests[r].who \in {u, v} /\ requests[r].list \subseteq {u, v}
  BY DEF Between, Members
<1>1. ASSUME UNCHANGED <<role, detached, invites>>, NEW r \in Request, NEW q,
             requests' = [requests EXCEPT ![r] = q],
             q.chat = c => q.at \notin {"invite", "member", "join", "owner", "tell"}
      PROVE  Between(c, u, v)'
  <2>1. \A s \in Request : requests'[s] = IF s = r THEN q ELSE requests[s]
    BY <1>1 DEF Shaped, MembershipTypeOK
  <2> QED
    BY <1>1, <1>b, <2>1, BetweenKept
<1>2. ASSUME UNCHANGED <<role, detached, invites>>, NEW r \in Request,
             NEW step, NEW w, NEW d, NEW t, Asks(r, step, w, d, t),
             d = c => step \notin {"invite", "member", "join", "owner", "tell"}
      PROVE  Between(c, u, v)'
  <2> DEFINE q == [at |-> step, who |-> w, chat |-> d, list |-> t, link |-> None]
  <2>1. q.at = step /\ q.chat = d /\ requests' = [requests EXCEPT ![r] = q]
    BY <1>2 DEF Asks
  <2> HIDE DEF q
  <2> QED
    BY <1>2, <2>1, <1>1
<1>3. ASSUME NEW r \in Request, NEW w \in User, NEW x \in User, LookUp(r, w, x)
      PROVE Between(c, u, v)'
  BY <1>3, <1>2, NoneAssumption DEF LookUp
<1>4. ASSUME NEW r \in Request, NEW w \in User, NEW d \in Chat,
             leaveChat(r, w, d) \/ deleteChat(r, w, d) \/ createInvite(r, w, d)
      PROVE  Between(c, u, v)'
  BY <1>4, <1>2 DEF leaveChat, deleteChat, createInvite
<1>5. ASSUME NEW r \in Request, NEW w \in User, NEW x \in User, NEW d \in Chat, SetRole(r, w, d, x)
      PROVE  Between(c, u, v)'
  BY <1>5, <1>2 DEF SetRole
<1>6. ASSUME NEW r \in Request, NEW w \in User, NEW i \in Invite, revokeInvite(r, w, i)
      PROVE  Between(c, u, v)'
  <2> DEFINE q == [NoRequest EXCEPT !.at = "revoke", !.link = i]
  <2>1. q.at = "revoke" /\ requests' = [requests EXCEPT ![r] = q]
    BY <1>6 DEF revokeInvite, NoRequest
  <2> HIDE DEF q
  <2> QED
    BY <1>6, <2>1, <1>1 DEF revokeInvite
<1>7. ASSUME NEW r \in Request, NEW w \in User, NEW i \in Invite, joinInvite(r, w, i)
      PROVE  Between(c, u, v)'
  BY <1>7, <1>b, <1>2 DEF joinInvite
<1>8. ASSUME NEW r \in Request, createDirect(r) \/ createGroup(r) PROVE Between(c, u, v)'
  <2>1. PICK d \in Chat, kind \in {"direct", "group"}, w \in User, s \in SUBSET User :
          InsertChat(r, d, kind, w, s)
    BY <1>8 DEF createDirect, createGroup, Shaped, MembershipTypeOK, RequestOK
  <2>2. d # c
    BY <2>1 DEF InsertChat
  <2> QED
    BY <2>1, <2>2, <1>2 DEF InsertChat
<1>9. ASSUME NEW r \in Request, InsertOwner(r) PROVE Between(c, u, v)'
  <2>1. PICK d \in Chat, w \in User : d = requests[r].chat /\ w = requests[r].who
    BY <1>9 DEF InsertOwner, Shaped, MembershipTypeOK, RequestOK
  <2>2. d = c => w \in {u, v} /\ requests[r].list \subseteq {u, v}
    BY <1>9, <1>b, <2>1 DEF InsertOwner
  <2>3. role' = role \/ role' = [role EXCEPT ![d][w] = "owner"]
    BY <1>9, <2>1 DEF InsertOwner, Inserted
  <2>4. \A x \in User : role'[c][x] # "none" => role[c][x] # "none" \/ x \in {u, v}
    BY <2>2, <2>3 DEF Shaped, MembershipTypeOK
  <2>5. /\ \A s \in Request : s # r => requests'[s] = requests[s]
        /\ requests'[r].at = "tell" /\ requests'[r].chat = d
        /\ requests'[r].who = w /\ requests'[r].list = requests[r].list
        /\ UNCHANGED <<detached, invites>>
    BY <1>9, <2>1 DEF InsertOwner, Shaped, MembershipTypeOK
  <2> QED
    BY <1>b, <2>2, <2>4, <2>5, BetweenKept
<1>10. ASSUME NEW r \in Request, Created(r) PROVE Between(c, u, v)'
  <2>1. PICK d \in Chat : d = requests[r].chat
    BY <1>10 DEF Created, Shaped, MembershipTypeOK, RequestOK
  <2>2. d = c => requests[r].list \subseteq {u, v}
    BY <1>10, <1>b, <2>1 DEF Created
  <2>3. \A w \in User : <<c, w>> \in detached' => w \in {u, v}
    BY <1>10, <1>b, <2>1, <2>2 DEF Created
  <2>4. \A s \in Request : requests'[s] = IF s = r THEN NoRequest ELSE requests[s]
    BY <1>10 DEF Created, Ends, Shaped, MembershipTypeOK
  <2>5. UNCHANGED <<role, invites>>
    BY <1>10 DEF Created
  <2> QED
    BY <1>a, <1>b, <2>3, <2>4, <2>5, BetweenKept
<1>11. ASSUME NEW r \in Request, RemoveMember(r) \/ UpdateRole(r) PROVE Between(c, u, v)'
  <2>1. PICK d \in Chat, w \in User : d = requests[r].chat /\ w = requests[r].who
    BY <1>11 DEF RemoveMember, UpdateRole, Shaped, MembershipTypeOK, RequestOK
  <2>2. \A x \in User : role'[c][x] # "none" => role[c][x] # "none"
    <3>1. CASE RemoveMember(r)
      <4>1. role' = [role EXCEPT ![d][w] = "none"]
        BY <2>1, <3>1 DEF RemoveMember
      <4> QED
        BY <4>1 DEF Shaped, MembershipTypeOK
    <3>2. CASE UpdateRole(r)
      BY <2>1, <3>2 DEF UpdateRole, Shaped, MembershipTypeOK
    <3> QED
      BY <1>11, <3>1, <3>2
  <2>3. /\ \A s \in Request : requests'[s] = IF s = r THEN NoRequest ELSE requests[s]
        /\ UNCHANGED <<detached, invites>>
    BY <1>11 DEF RemoveMember, UpdateRole, Ends, Shaped, MembershipTypeOK
  <2> QED
    BY <1>a, <1>b, <2>2, <2>3, BetweenKept
<1>12. ASSUME NEW r \in Request, ListMembers(r) PROVE Between(c, u, v)'
  BY <1>12, <1>2 DEF ListMembers
<1>13. ASSUME NEW r \in Request, Delete(r) PROVE Between(c, u, v)'
  <2>1. /\ \A w \in User : role'[c][w] # "none" => role[c][w] # "none"
        /\ \A s \in Request : s # r => requests'[s] = requests[s]
        /\ requests'[r].at = "publish"
        /\ UNCHANGED <<invites, detached>>
    BY <1>13 DEF Delete, Shaped, MembershipTypeOK
  <2> QED
    BY <1>b, <2>1, BetweenKept
<1>14. ASSUME NEW r \in Request, InsertInvite(r) PROVE Between(c, u, v)'
  <2>1. requests[r].chat # c
    BY <1>14, <1>b DEF InsertInvite
  <2>2. \A i \in Invite : invites'[i] # c
    BY <1>14, <1>b, <2>1 DEF InsertInvite, Shaped, MembershipTypeOK
  <2>3. /\ \A s \in Request : requests'[s] = IF s = r THEN NoRequest ELSE requests[s]
        /\ UNCHANGED <<role, detached>>
    BY <1>14 DEF InsertInvite, Ends, Shaped, MembershipTypeOK
  <2> QED
    BY <1>a, <1>b, <2>2, <2>3, BetweenKept
<1>15. ASSUME NEW r \in Request, TellDeleted(r) \/ Revoke(r) \/ Fails(r) PROVE Between(c, u, v)'
  BY <1>15, <1>1, <1>a DEF TellDeleted, Revoke, Fails, Ends
<1>16. ASSUME NEW r \in Request, CheckMember(r) PROVE Between(c, u, v)'
  <2>1. requests[r].chat # c
    BY <1>16, <1>b DEF CheckMember
  <2>2. \A s \in Request : requests'[s] = requests[s] \/ requests'[s].chat # c
    BY <1>16, <1>a, <2>1 DEF CheckMember, Ends, Shaped, MembershipTypeOK
  <2> QED
    BY <1>16, <1>b, <2>2, BetweenKept DEF CheckMember
<1>17. ASSUME NEW r \in Request, Join(r) PROVE Between(c, u, v)'
  <2>1. requests[r].chat \in Chat /\ requests[r].who \in User /\ requests[r].chat # c
    BY <1>17, <1>b DEF Join, Shaped, MembershipTypeOK, RequestOK
  <2>2. role'[c] = role[c]
    BY <1>17, <2>1, MemberComes DEF Join
  <2>3. /\ \A s \in Request : requests'[s] = IF s = r THEN NoRequest ELSE requests[s]
        /\ UNCHANGED <<detached, invites>>
    BY <1>17 DEF Join, Ends, Shaped, MembershipTypeOK
  <2> QED
    BY <1>a, <1>b, <2>2, <2>3, BetweenKept
<1>18. ASSUME NEW d \in Chat, NEW w \in User, InsertMember(d, w) PROVE Between(c, u, v)'
  <2>1. d = c => w \in {u, v}
    BY <1>18, <1>b DEF InsertMember
  <2>2. role' = role \/ role' = [role EXCEPT ![d][w] = "member"]
    BY <1>18 DEF InsertMember, Inserted
  <2>3. \A x \in User : role'[c][x] # "none" => role[c][x] # "none" \/ x \in {u, v}
    BY <2>1, <2>2 DEF Shaped, MembershipTypeOK
  <2>4. UNCHANGED <<invites, requests>> /\ detached' \subseteq detached
    BY <1>18 DEF InsertMember
  <2> QED
    BY <1>b, <2>3, <2>4, BetweenKept
<1>19. CASE Crash
  <2>1. /\ \A s \in Request : requests'[s] = NoRequest
        /\ UNCHANGED <<role, invites>> /\ detached' = {}
    BY <1>19 DEF Crash
  <2> QED
    BY <1>a, <1>b, <2>1, BetweenKept
<1> QED
  BY <1>3, <1>4, <1>5, <1>6, <1>7, <1>8, <1>9, <1>10, <1>11, <1>12, <1>13, <1>14, <1>15,
     <1>16, <1>17, <1>18, <1>19 DEF MembershipNext

\* A chat is direct from its INSERT on; then nobody but the two of its request
\* is about to come.
LEMMA StepPrivate ==
  ASSUME Shaped, OwnerInv, PrivateInv, MembershipNext
  PROVE  PrivateInv'
<1> SUFFICES ASSUME NEW c \in Chat, type'[c] = "direct"
             PROVE  \E u, v \in User : Between(c, u, v)'
  BY DEF PrivateInv
<1>1. CASE type[c] = "direct"
  BY <1>1, StaysBetween DEF PrivateInv
<1>2. CASE type[c] # "direct"
  <2>1. PICK r \in Request : createDirect(r) \/ createGroup(r)
    <3>1. type' # type
      BY <1>2
    <3>2. ~\E r \in Request : Delete(r)
      BY <1>2 DEF Delete, Shaped, MembershipTypeOK
    <3> QED
      BY <3>1, <3>2, ZenonT(30)
      DEF MembershipNext, LookUp, leaveChat, deleteChat, createInvite, SetRole,
        revokeInvite, joinInvite, InsertOwner, Created, RemoveMember, ListMembers, TellDeleted,
        UpdateRole, InsertInvite, Revoke, CheckMember, Join, Fails, InsertMember, Crash
  <2>2. createDirect(r)
    BY <1>2, <2>1 DEF createGroup, InsertChat, Shaped, MembershipTypeOK
  <2>3. PICK u \in User, v \in User : u = requests[r].who /\ requests[r].list = {u, v}
    BY <2>2 DEF createDirect, Shaped, MembershipTypeOK, RequestOK
  <2>4. PICK d \in Chat : InsertChat(r, d, "direct", u, {u, v})
    BY <2>2, <2>3 DEF createDirect
  <2>5. d = c
    BY <1>2, <2>4 DEF InsertChat, Shaped, MembershipTypeOK
  <2>6. Blank(c) /\ \A s \in Request : requests[s].chat # c
    BY <2>4, <2>5 DEF InsertChat, OwnerInv, Owned
  <2>7. /\ \A s \in Request : requests'[s] = IF s = r
             THEN [at |-> "owner", who |-> u, chat |-> c, list |-> {u, v}, link |-> None]
             ELSE requests[s]
        /\ UNCHANGED <<role, invites, detached>>
    BY <2>4, <2>5 DEF InsertChat, Asks, Shaped, MembershipTypeOK
  <2>8. Between(c, u, v)'
    BY <2>6, <2>7 DEF Between, Blank, Members
  <2> QED
    BY <2>8
<1> QED
  BY <1>1, <1>2

-------------------------------------------------------------------------------
\* Who is told of a deletion.

NewIn(c, u) == role'[c][u] # "none" /\ role[c][u] = "none"
Unlisted(c, u) ==
  \E r \in Request : /\ requests[r].at = "delete" /\ requests[r].chat = c
                     /\ u \notin requests[r].list

\* An insert brings one member, who is late if a list without him was read.
LEMMA InsertedLate ==
  ASSUME Shaped, NEW c \in Chat, NEW u \in User, NEW rank, Inserted(c, u, rank)
  PROVE  /\ late \subseteq late'
         /\ \A d \in Chat, v \in User :
              NewIn(d, v) => d = c /\ v = u /\ (Unlisted(c, u) => <<c, u>> \in late')
BY DEF Inserted, Shaped, MembershipTypeOK, NewIn, Unlisted

\* Who comes to a chat whose list was read, and does not have him, is late.
LEMMA RowsLate ==
  ASSUME Shaped, MembershipNext
  PROVE  /\ late \subseteq late'
         /\ \A c \in Chat, u \in User : NewIn(c, u) /\ Unlisted(c, u) => <<c, u>> \in late'
<1>1. ASSUME NEW r \in Request, InsertOwner(r) \/ Join(r)
      PROVE  \E c \in Chat, u \in User, rank \in {"owner", "member"} : Inserted(c, u, rank)
  BY <1>1 DEF InsertOwner, Join, Shaped, MembershipTypeOK, RequestOK
<1>2. ASSUME NEW r \in Request, RemoveMember(r) \/ UpdateRole(r) \/ Delete(r)
      PROVE  /\ late' = late
             /\ \A d \in Chat, v \in User : role[d][v] = "none" => role'[d][v] = "none"
  <2>1. CASE RemoveMember(r)
    <3>1. role' = [role EXCEPT ![requests[r].chat][requests[r].who] = "none"] /\ late' = late
      BY <2>1 DEF RemoveMember
    <3> QED
      BY <3>1 DEF Shaped, MembershipTypeOK
  <2>2. CASE UpdateRole(r)
    BY <2>2 DEF UpdateRole, history, Shaped, MembershipTypeOK
  <2>3. CASE Delete(r)
    BY <2>3 DEF Delete, Shaped, MembershipTypeOK
  <2> QED
    BY <1>2, <2>1, <2>2, <2>3
<1>3. \/ UNCHANGED <<role, late>>
      \/ \E r \in Request : RemoveMember(r) \/ UpdateRole(r) \/ Delete(r)
      \/ \E c \in Chat, u \in User, rank \in {"owner", "member"} : Inserted(c, u, rank)
  BY <1>1, ZenonT(30)
  DEF MembershipNext, LookUp, leaveChat, deleteChat, createInvite, SetRole, createDirect,
     createGroup, InsertChat, revokeInvite, joinInvite, Created, ListMembers, TellDeleted,
     InsertInvite, Revoke, CheckMember, Fails, InsertMember, Crash
<1>4. CASE UNCHANGED <<role, late>>
  BY <1>4 DEF NewIn
<1>5. CASE \E r \in Request : RemoveMember(r) \/ UpdateRole(r) \/ Delete(r)
  BY <1>2, <1>5 DEF NewIn
<1>6. CASE \E c \in Chat, u \in User, rank \in {"owner", "member"} : Inserted(c, u, rank)
  <2>1. PICK d \in Chat, v \in User, rank \in {"owner", "member"} : Inserted(d, v, rank)
    BY <1>6
  <2> QED
    BY <2>1, InsertedLate, ZenonT(30)
<1> QED
  BY <1>3, <1>4, <1>5, <1>6

\* What a step does to the requests that delete a chat.
LEMMA DeletersStep ==
  ASSUME Shaped, MembershipNext, NEW s \in Request
  PROVE  /\ requests'[s].at = "delete" =>
              \/ requests'[s] = requests[s]
              \/ requests'[s].list = Members(requests'[s].chat) /\ role' = role
         /\ requests[s].at = "publish" => requests'[s] = requests[s] \/ TellDeleted(s) \/ Crash
<1> DEFINE Kept(t) ==
      /\ requests'[t].at = "delete" =>
           \/ requests'[t] = requests[t]
           \/ requests'[t].list = Members(requests'[t].chat) /\ role' = role
      /\ requests[t].at = "publish" => requests'[t] = requests[t] \/ TellDeleted(t) \/ Crash
<1>1. ASSUME NEW r \in Request, NEW q, requests' = [requests EXCEPT ![r] = q],
             q.at # "delete", requests[r].at # "publish"
      PROVE  Kept(s)
  BY <1>1 DEF Shaped, MembershipTypeOK
<1>2. ASSUME NEW r \in Request, NEW step, NEW u, NEW c, NEW list, Asks(r, step, u, c, list),
             step # "delete", requests[r].at # "publish"
      PROVE  Kept(s)
  BY <1>1, <1>2 DEF Asks
<1>3. ASSUME NEW r \in Request, Ends(r), requests[r].at # "publish"
      PROVE  Kept(s)
  BY <1>1, <1>3 DEF Ends, NoRequest
<1>4. ASSUME NEW r \in Request, NEW step, step # "delete", requests[r].at # "publish",
             requests' = [requests EXCEPT ![r].at = step]
      PROVE  Kept(s)
  BY <1>4 DEF Shaped, MembershipTypeOK
<1>5. \A r \in Request : Free(r) => requests[r].at = "none"
  BY DEF Free, NoRequest
<1>6. /\ \A r \in Request, u \in User, v \in User : LookUp(r, u, v) => Kept(s)
      /\ \A r \in Request, u \in User, v \in User, c \in Chat : SetRole(r, u, c, v) => Kept(s)
  BY <1>2, <1>5 DEF LookUp, SetRole
<1>7. ASSUME NEW r \in Request, NEW u \in User, NEW c \in Chat,
             leaveChat(r, u, c) \/ deleteChat(r, u, c) \/ createInvite(r, u, c)
      PROVE  Kept(s)
  BY <1>7, <1>2, <1>5 DEF leaveChat, deleteChat, createInvite
<1>8. ASSUME NEW r \in Request, NEW u \in User, NEW i \in Invite,
             revokeInvite(r, u, i) \/ joinInvite(r, u, i)
      PROVE  Kept(s)
  <2>1. CASE joinInvite(r, u, i)
    BY <2>1, <1>2, <1>5 DEF joinInvite
  <2>2. CASE revokeInvite(r, u, i)
    <3> DEFINE q == [NoRequest EXCEPT !.at = "revoke", !.link = i]
    <3>1. q.at = "revoke" /\ requests' = [requests EXCEPT ![r] = q]
      BY <2>2 DEF revokeInvite, NoRequest
    <3> HIDE DEF q, Kept
    <3> QED
      BY <2>2, <3>1, <1>1, <1>5 DEF revokeInvite
  <2> QED
    BY <1>8, <2>1, <2>2
<1>9. ASSUME NEW r \in Request, createDirect(r) \/ createGroup(r) \/ Created(r) PROVE Kept(s)
  BY <1>9, <1>2, <1>3, <1>5 DEF createDirect, createGroup, InsertChat, Created
<1>10. ASSUME NEW r \in Request, InsertOwner(r) \/ Delete(r) PROVE Kept(s)
  BY <1>10, <1>4 DEF InsertOwner, Delete
<1>11. ASSUME NEW r \in Request, ListMembers(r) PROVE Kept(s)
  BY <1>11 DEF ListMembers, Asks, Shaped, MembershipTypeOK
<1>12. ASSUME NEW r \in Request,
              \/ RemoveMember(r) \/ UpdateRole(r) \/ InsertInvite(r) \/ Revoke(r) \/ Join(r)
              \/ Fails(r)
       PROVE  Kept(s)
  BY <1>12, <1>3 DEF RemoveMember, UpdateRole, InsertInvite, Revoke, Join, Fails
<1>13. ASSUME NEW r \in Request, CheckMember(r) PROVE Kept(s)
  BY <1>13, <1>3, <1>4 DEF CheckMember
<1>14. ASSUME NEW r \in Request, TellDeleted(r) PROVE Kept(s)
  <2>1. requests'[s] = IF s = r THEN NoRequest ELSE requests[s]
    BY <1>14 DEF TellDeleted, Ends, Shaped, MembershipTypeOK
  <2>2. CASE s = r
    BY <1>14, <2>1, <2>2 DEF NoRequest
  <2>3. CASE s # r
    BY <2>1, <2>3
  <2> QED
    BY <2>2, <2>3
<1>15. ASSUME NEW c \in Chat, NEW u \in User, InsertMember(c, u) PROVE Kept(s)
  BY <1>15 DEF InsertMember
<1>16. ASSUME Crash PROVE Kept(s)
  BY <1>16 DEF Crash, NoRequest
<1> HIDE DEF Kept
<1>17. ASSUME \E c \in Chat, u \in User : InsertMember(c, u) PROVE Kept(s)
  BY <1>15, <1>17
<1>18. ASSUME NEW r \in Request,
              \/ \E u, v \in User : LookUp(r, u, v)
              \/ \E u \in User, c \in Chat :
                   leaveChat(r, u, c) \/ deleteChat(r, u, c) \/ createInvite(r, u, c)
              \/ \E u, v \in User, c \in Chat : SetRole(r, u, c, v)
              \/ \E u \in User, i \in Invite : revokeInvite(r, u, i) \/ joinInvite(r, u, i)
       PROVE  Kept(s)
  BY <1>6, <1>7, <1>8, <1>18
<1>19. ASSUME NEW r \in Request,
              \/ createDirect(r) \/ createGroup(r) \/ InsertOwner(r) \/ Created(r)
              \/ RemoveMember(r) \/ ListMembers(r) \/ Delete(r) \/ TellDeleted(r)
              \/ UpdateRole(r) \/ InsertInvite(r) \/ Revoke(r) \/ CheckMember(r) \/ Join(r)
              \/ Fails(r)
       PROVE  Kept(s)
  BY <1>9, <1>10, <1>11, <1>12, <1>13, <1>14, <1>19
<1>20. Kept(s)
  BY <1>16, <1>17, <1>18, <1>19 DEF MembershipNext
<1> QED
  BY <1>20 DEF Kept

\* Whoever comes after the list is late; whoever leaves needs not be told.
LEMMA StepList ==
  ASSUME Shaped, Shaped', ListInv, MembershipNext
  PROVE  ListInv'
<1> SUFFICES ASSUME NEW s \in Request, requests'[s].at = "delete",
                    NEW u \in User, role'[requests'[s].chat][u] # "none",
                    u \notin requests'[s].list
             PROVE  <<requests'[s].chat, u>> \in late'
  BY DEF ListInv, Members
<1>1. PICK c \in Chat : c = requests'[s].chat
  BY DEF Shaped, MembershipTypeOK, RequestOK
<1>2. CASE requests'[s] = requests[s]
  BY <1>1, <1>2, RowsLate DEF ListInv, Members, NewIn, Unlisted
<1>3. CASE requests'[s].list = Members(requests'[s].chat) /\ role' = role
  BY <1>3 DEF Members
<1> QED
  BY <1>2, <1>3, DeletersStep

\* DELETE owes its telling to whom was a member, and its list names them but the late.
LEMMA StepTold ==
  ASSUME Shaped, ListInv, DeletionTold, MembershipNext
  PROVE  DeletionTold'
<1> SUFFICES ASSUME NEW told \in owed', told \notin late'
             PROVE  \E r \in Request :
                      /\ requests'[r].at = "publish"
                      /\ requests'[r].chat = told[1] /\ told[2] \in requests'[r].list
  BY DEF DeletionTold
<1>1. told \notin late
  BY RowsLate
<1>2. CASE \E r \in Request : Delete(r)
  <2>1. PICK r \in Request : Delete(r)
    BY <1>2
  <2>2. /\ \A s \in Request : s # r => requests'[s] = requests[s]
        /\ requests[r].at = "delete" /\ requests'[r].at = "publish"
        /\ requests'[r].chat = requests[r].chat /\ requests'[r].list = requests[r].list
    BY <2>1 DEF Delete, Shaped, MembershipTypeOK
  <2>3. CASE told \in owed
    BY <1>1, <2>2, <2>3 DEF DeletionTold
  <2>4. CASE told \notin owed
    <3>1. PICK u \in Members(requests[r].chat) : told = <<requests[r].chat, u>>
      BY <2>1, <2>4 DEF Delete
    <3>2. u \in requests[r].list
      BY <1>1, <2>2, <3>1 DEF ListInv
    <3> QED
      BY <2>2, <3>1, <3>2
  <2> QED
    BY <2>3, <2>4
<1>3. CASE \E r \in Request : TellDeleted(r)
  <2>1. PICK r \in Request : TellDeleted(r)
    BY <1>3
  <2>2. /\ told \in owed
        /\ ~(told[1] = requests[r].chat /\ told[2] \in requests[r].list)
    BY <2>1 DEF TellDeleted, Shaped, MembershipTypeOK
  <2>3. \A s \in Request : s # r => requests'[s] = requests[s]
    BY <2>1 DEF TellDeleted, Ends, Shaped, MembershipTypeOK
  <2> QED
    BY <1>1, <2>2, <2>3 DEF DeletionTold
<1>4. CASE owed' = owed /\ ~Crash /\ ~\E r \in Request : TellDeleted(r)
  BY <1>1, <1>4, DeletersStep DEF DeletionTold
<1>5. CASE Crash
  BY <1>5 DEF Crash
<1>6. \/ owed' = owed \/ Crash
      \/ \E r \in Request : Delete(r) \/ TellDeleted(r)
  BY ZenonT(30)
  DEF MembershipNext, LookUp, leaveChat, deleteChat, createInvite, SetRole, createDirect,
     createGroup, InsertChat, revokeInvite, joinInvite, InsertOwner, Created, RemoveMember,
     ListMembers, UpdateRole, InsertInvite, Revoke, CheckMember, Join, Fails, InsertMember, history
<1> QED
  BY <1>2, <1>3, <1>4, <1>5, <1>6

-------------------------------------------------------------------------------
\* The invariant of members is kept by the statements, and by the steps of a forward.
LEMMA MemberInvStep ==
  ASSUME MemberInv, [Next]_vars
  PROVE  MemberInv'
<1>1. CASE UNCHANGED memberVars
  BY <1>1 DEF memberVars, MemberInv, Shaped, MembershipTypeOK, RequestOK, OwnerInv, Owned,
     PrivateInv, ListInv, DeletionTold, Blank, Between, Members, Owners, Live
<1>2. CASE MembershipNext
  BY <1>2, StepShaped, StepOwner, StepPrivate, StepList, StepTold DEF MemberInv
<1> QED
  BY <1>1, <1>2 DEF Next, vars

\* The inductive invariant that the theorems about members follow from.
LEMMA MemberCorrect == Spec => []MemberInv
<1>1. Init => MemberInv
  <2> SUFFICES ASSUME Init PROVE MemberInv
    OBVIOUS
  <2> USE DEF Init, MembershipInit
  <2>1. Shaped
    BY NoRequestShaped DEF Shaped, MembershipTypeOK, RequestType
  <2>2. OwnerInv
    BY NoneAssumption DEF OwnerInv, Owned, Blank, Members, Owners, NoRequest
  <2>3. PrivateInv /\ ListInv /\ DeletionTold
    BY DEF PrivateInv, ListInv, DeletionTold, NoRequest
  <2> QED
    BY <2>1, <2>2, <2>3 DEF MemberInv
<1>2. MemberInv /\ [Next]_vars => MemberInv'
  BY MemberInvStep
<1> QED
  BY <1>1, <1>2, PTL DEF Spec

\* A set whose elements are all the same has at most one.
LEMMA AtMostOne ==
  ASSUME NEW S, \A x, y \in S : x = y
  PROVE  Cardinality(S) =< 1
<1>1. CASE S = {}
  BY <1>1, FS_EmptySet
<1>2. CASE S # {}
  <2>1. PICK x \in S : S = {x}
    BY <1>2
  <2> QED
    BY <2>1, FS_Singleton
<1> QED
  BY <1>1, <1>2

\* A set whose elements are among two has at most two.
LEMMA AtMostTwo ==
  ASSUME NEW S, NEW x, NEW y, S \subseteq {x, y}
  PROVE  Cardinality(S) =< 2
<1>1. IsFiniteSet({x}) /\ Cardinality({x}) = 1
  BY FS_Singleton
<1>2. IsFiniteSet({x, y}) /\ Cardinality({x, y}) =< 2
  <2>1. {x, y} = {x} \cup {y}
    OBVIOUS
  <2> QED
    BY <1>1, <2>1, FS_AddElement
<1>3. Cardinality(S) =< Cardinality({x, y}) /\ IsFiniteSet(S)
  BY <1>2, FS_Subset
<1> QED
  BY <1>2, <1>3, FS_CardinalityType

\* A chat with members has exactly one owner unless he left as the last of them, a direct
\* chat is between two, and everybody who was in a chat that is deleted is told, or came
\* late: for any users, chats, invites and requests, whatever statements overlap.
THEOREM MembersCorrect == Spec => []MembersRight
<1>1. MemberInv => MembersRight
  <2> SUFFICES ASSUME MemberInv PROVE MembersRight
    OBVIOUS
  <2>1. \A c \in Chat : Cardinality(Owners(c)) =< 1
    BY AtMostOne DEF MemberInv, OwnerInv, Owned
  <2>2. \A c \in Chat : Members(c) # {} /\ c \notin ownerLeft => Owners(c) # {}
    BY DEF MemberInv, OwnerInv, Owned, Blank
  <2>3. \A c \in Chat : type[c] = "direct" => \E u, v \in User : Between(c, u, v)
    BY DEF MemberInv, PrivateInv
  <2>4. \A c \in Chat : type[c] = "direct" => Cardinality(Members(c)) =< 2
    BY <2>3, AtMostTwo DEF Between
  <2>5. OwnedUnlessLeft
    BY <2>1, <2>2, Zenon DEF OwnedUnlessLeft
  <2>6. \A c \in Chat, i \in Invite : type[c] = "direct" => invites[i] # c
    BY <2>3 DEF Between
  <2>7. DirectStaysPrivate
    BY <2>4, <2>6, Zenon DEF DirectStaysPrivate
  <2> QED
    BY <2>5, <2>7 DEF MembersRight, MemberInv
<1> QED
  BY <1>1, MemberCorrect, PTL

-------------------------------------------------------------------------------
\* What the callbacks of a forward leave true.

Pending == {m \in Message : at[m] \notin {"none", "over"}}

\* A message has its row from its INSERT on, its event from its callback on, and is
\* on the list once it is counted, unless appends overlapped.
Placed(m) ==
  /\ m \in Forwarded => at[m] \in {"row", "append", "count", "write", "over"}
  /\ at[m] \in {"row", "append", "count", "write"} => m \in Forwarded
  /\ at[m] \in {"append", "count", "write"} => m \in published
  /\ at[m] = "over" /\ ~hasError => m \in Forwarded \cap published
  /\ "append" \notin lost /\ at[m] \in {"count", "write"} => m \in newMessages
  /\ "append" \notin lost /\ at[m] = "over" /\ ~hasError => m \in newMessages

\* No callback is under way after an answer that is no error.
Answered ==
  /\ Oks # {} => ~hasError
  /\ hasError => answers # <<>>
  /\ answers # <<>> /\ ~hasError => Pending = {}

\* remaining, and what is read of it, never falls below the number of messages under
\* way; it is that number while no decrement was lost and none failed.
Counted ==
  /\ Cardinality(Pending) =< remaining
  /\ \A m \in Message : at[m] = "write" => Cardinality(Pending) =< read[m]
  /\ "decrement" \notin lost =>
       /\ \A m \in Message : at[m] = "write" =>
            read[m] = remaining /\ \A n \in Message : at[n] = "write" => n = m
       /\ ~hasError => remaining = Cardinality(Pending)

ForwardInv ==
  /\ ForwardTypeOK /\ \A m \in Message : Placed(m)
  /\ newMessages \subseteq Forwarded
  /\ Answered /\ Counted /\ AnswerRight

\* An INSERT adds its message to those that have a row.
LEMMA Appended ==
  ASSUME NEW m \in Message, ForwardTypeOK, rows' = Append(rows, m)
  PROVE  Forwarded' = Forwarded \cup {m}
<1>1. /\ rows \in Seq(Message) /\ Len(rows) \in Nat
      /\ DOMAIN rows' = 1 .. (Len(rows) + 1) /\ DOMAIN rows = 1 .. Len(rows)
      /\ \A i \in 1 .. Len(rows) : rows'[i] = rows[i]
      /\ rows'[Len(rows) + 1] = m
  BY DEF ForwardTypeOK
<1> QED
  BY <1>1 DEF Forwarded

\* Rows are of messages.
LEMMA ForwardedMessages ==
  ASSUME ForwardTypeOK
  PROVE  Forwarded \subseteq Message
<1>1. /\ rows \in Seq(Message) /\ DOMAIN rows = 1 .. Len(rows)
      /\ \A i \in 1 .. Len(rows) : rows[i] \in Message
  BY DEF ForwardTypeOK
<1> QED
  BY <1>1 DEF Forwarded

\* Any set of messages is counted by a number of at most N.
LEMMA MessagesCounted ==
  ASSUME NEW S \in SUBSET Message
  PROVE  IsFiniteSet(S) /\ Cardinality(S) \in 0 .. N
<1>1. IsFiniteSet(Message) /\ Cardinality(Message) = N
  BY FS_Interval, CountAssumption DEF Message
<1>2. IsFiniteSet(S) /\ Cardinality(S) =< N
  BY <1>1, FS_Subset
<1> QED
  BY <1>2, FS_CardinalityType, CountAssumption

\* A callback that moves on stays under way, one that is over leaves one less.
LEMMA Moved ==
  ASSUME ForwardTypeOK, NEW m \in Message, NEW from, NEW to \in ForwardSteps \ {"none"},
         Moves(m, from, to), from \notin {"none", "over"}
  PROVE  /\ at' \in [Message -> ForwardSteps]
         /\ m \in Pending
         /\ at[m] = from /\ at'[m] = to
         /\ \A n \in Message : n # m => at'[n] = at[n]
         /\ to # "over" => Pending' = Pending
         /\ to = "over" => /\ Pending' = Pending \ {m}
                           /\ Cardinality(Pending') = Cardinality(Pending) - 1
<1>1. /\ at' \in [Message -> ForwardSteps]
      /\ at[m] = from /\ at'[m] = to
      /\ \A n \in Message : n # m => at'[n] = at[n]
  BY DEF Moves, ForwardTypeOK
<1>2. m \in Pending
  BY <1>1 DEF Pending
<1>3. to # "over" => Pending' = Pending
  BY <1>1 DEF Pending
<1>4. to = "over" => Pending' = Pending \ {m}
  BY <1>1 DEF Pending
<1>5. Pending \in SUBSET Message
  BY DEF Pending
<1>6. Cardinality(Pending \ {m}) = Cardinality(Pending) - 1
  BY <1>2, <1>5, MessagesCounted, FS_RemoveElement
<1> QED
  BY <1>1, <1>2, <1>3, <1>4, <1>6

AnswerType == [kind : {"ok"}, list : SUBSET Message] \cup [kind : {"missing", "error"}]

\* Every step of a forward keeps its types: whoever writes has read at least 1.
LEMMA StepForwardTyped ==
  ASSUME ForwardTypeOK, Counted, ForwardNext
  PROVE  ForwardTypeOK'
<1> USE DEF ForwardTypeOK
<1>1. /\ N \in Nat /\ N >= 1
  BY CountAssumption
<1>2. CASE Fetched
  <2>1. PICK found \in SUBSET Message :
          /\ at' = [m \in Message |-> IF m \in found THEN "sent" ELSE "none"]
          /\ remaining' = Cardinality(found)
          /\ answers' = IF found = {} THEN <<[kind |-> "missing"]>> ELSE answers
    BY <1>2 DEF Fetched
  <2>2. remaining' \in 0 .. N
    BY <2>1, MessagesCounted
  <2>3. at' \in [Message -> ForwardSteps]
    BY <2>1 DEF ForwardSteps
  <2>4. answers' \in Seq(AnswerType)
    <3>1. [kind |-> "missing"] \in AnswerType
      BY DEF AnswerType
    <3>2. answers \in Seq(AnswerType) /\ <<[kind |-> "missing"]>> \in Seq(AnswerType)
      BY <3>1 DEF AnswerType
    <3> HIDE DEF ForwardTypeOK
    <3> QED
      BY <2>1, <3>2
  <2> QED
    BY <1>2, <2>2, <2>3, <2>4 DEF Fetched, AnswerType
<1>3. CASE FetchFails
  <2>1. [kind |-> "error"] \in AnswerType
    BY DEF AnswerType
  <2>2. answers' \in Seq(AnswerType)
    BY <1>3, <2>1 DEF FetchFails
  <2> QED
    BY <1>3, <2>2 DEF FetchFails, AnswerType
<1>4. ASSUME NEW m \in Message, Callback(m) PROVE ForwardTypeOK'
  <2>1. at' \in [Message -> ForwardSteps]
    BY <1>4 DEF Callback, Insert, InsertFails, Publish, AppendNew, ReadRemaining, WriteRemaining,
       ReadError, AnswerError, Moves, ForwardSteps
  <2>2. CASE Insert(m) \/ InsertFails(m) \/ Publish(m)
    <3>1. rows' = rows \/ rows' = Append(rows, m)
      BY <2>2 DEF Insert, InsertFails, Publish
    <3>2. rows \in Seq(Message) /\ Append(rows, m) \in Seq(Message)
      OBVIOUS
    <3>3. rows' \in Seq(Message)
      BY <3>1, <3>2
    <3> QED
      BY <2>1, <2>2, <3>3 DEF Insert, InsertFails, Publish
  <2>3. CASE AppendNew(m) \/ ReadRemaining(m) \/ ReadError(m)
    <3>1. lost' \subseteq {"append", "decrement"} /\ newMessages' \subseteq Message
      BY <2>3 DEF AppendNew, ReadRemaining, ReadError
    <3>2. read' \in [Message -> 0 .. N]
      BY <2>3 DEF AppendNew, ReadRemaining, ReadError
    <3> QED
      BY <2>1, <2>3, <3>1, <3>2 DEF AppendNew, ReadRemaining, ReadError
  <2>4. CASE WriteRemaining(m)
    <3>1. m \in Pending /\ Pending \in SUBSET Message
      BY <2>4 DEF WriteRemaining, Moves, Pending
    <3>2. Cardinality(Pending) # 0 /\ Cardinality(Pending) \in 0 .. N
      BY <3>1, MessagesCounted, FS_EmptySet
    <3>3. read[m] \in 1 .. N
      BY <2>4, <3>2, <1>1 DEF WriteRemaining, Moves, Counted
    <3>4. remaining' \in 0 .. N
      BY <2>4, <3>3, <1>1 DEF WriteRemaining
    <3>5. [kind |-> "ok", list |-> newMessages] \in AnswerType
      BY DEF AnswerType
    <3>6. answers' \in Seq(AnswerType)
      BY <2>4, <3>5 DEF WriteRemaining, AnswerType
    <3> QED
      BY <2>1, <2>4, <3>4, <3>6 DEF WriteRemaining, AnswerType
  <2>5. CASE AnswerError(m)
    <3>1. [kind |-> "error"] \in AnswerType
      BY DEF AnswerType
    <3>2. answers' \in Seq(AnswerType)
      BY <2>5, <3>1 DEF AnswerError, AnswerType
    <3> QED
      BY <2>1, <2>5, <3>2 DEF AnswerError, AnswerType
  <2> QED
    BY <1>4, <2>2, <2>3, <2>4, <2>5 DEF Callback
<1> QED
  BY <1>2, <1>3, <1>4 DEF ForwardNext

\* A message is where its callback says.
LEMMA StepPlaced ==
  ASSUME ForwardTypeOK, \A m \in Message : Placed(m), newMessages \subseteq Forwarded,
         Answered, ForwardNext
  PROVE  (\A m \in Message : Placed(m)') /\ newMessages' \subseteq Forwarded'
<1>1. CASE Fetched \/ FetchFails
  <2>1. \A m \in Message : at[m] = "none" /\ at'[m] \in {"none", "sent"}
    BY <1>1 DEF Fetched, FetchFails
  <2>2. rows' = rows /\ newMessages' = newMessages
    BY <1>1 DEF Fetched, FetchFails
  <2> QED
    BY <2>1, <2>2 DEF Placed, Forwarded
<1>2. ASSUME NEW m \in Message, Insert(m)
      PROVE  (\A n \in Message : Placed(n)') /\ newMessages' \subseteq Forwarded'
  <2>1. Forwarded' = Forwarded \cup {m}
    BY <1>2, Appended DEF Insert
  <2>2. at[m] = "sent" /\ at'[m] = "row" /\ \A n \in Message : n # m => at'[n] = at[n]
    BY <1>2, Moved DEF Insert, ForwardSteps
  <2> QED
    BY <1>2, <2>1, <2>2 DEF Insert, Placed
<1>3. ASSUME NEW m \in Message, Callback(m), ~Insert(m)
      PROVE  (\A n \in Message : Placed(n)') /\ newMessages' \subseteq Forwarded'
  <2>1. Forwarded' = Forwarded /\ published \subseteq published'
    BY <1>3 DEF Callback, Forwarded, InsertFails, Publish, AppendNew, ReadRemaining,
       WriteRemaining, ReadError, AnswerError
  <2>2. newMessages \subseteq newMessages' /\ lost \subseteq lost'
    BY <1>3 DEF Callback, InsertFails, Publish, AppendNew, ReadRemaining,
       WriteRemaining, ReadError, AnswerError
  <2>3. hasError => hasError'
    BY <1>3 DEF Callback, InsertFails, Publish, AppendNew, ReadRemaining,
       WriteRemaining, ReadError, AnswerError
  <2>4. \A n \in Message : n # m => at'[n] = at[n]
    BY <1>3 DEF Callback, InsertFails, Publish, AppendNew, ReadRemaining,
       WriteRemaining, ReadError, AnswerError, Moves, ForwardTypeOK
  <2>5. \A n \in Message : n # m => Placed(n)'
    BY <2>1, <2>2, <2>3, <2>4 DEF Placed
  <2>6. CASE InsertFails(m)
    <3>1. at[m] = "sent" /\ at'[m] = "failed"
      BY <2>6, Moved DEF InsertFails, ForwardSteps
    <3> QED
      BY <2>1, <2>5, <2>6, <3>1 DEF InsertFails, Placed
  <2>7. CASE Publish(m)
    <3>1. at[m] = "row" /\ at'[m] = "append"
      BY <2>7, Moved DEF Publish, ForwardSteps
    <3> QED
      BY <2>1, <2>5, <2>7, <3>1 DEF Publish, Placed
  <2>8. CASE AppendNew(m)
    <3>1. at[m] = "append" /\ at'[m] = "count"
      BY <2>8, Moved DEF AppendNew, ForwardSteps
    <3>2. /\ newMessages' \subseteq newMessages \cup {m}
          /\ "append" \notin lost' => m \in newMessages'
      BY <2>8 DEF AppendNew
    <3>3. m \in Forwarded /\ m \in published
      BY <3>1 DEF Placed
    <3>4. Placed(m)'
      BY <2>1, <3>1, <3>2, <3>3 DEF Placed
    <3> QED
      BY <2>1, <2>5, <3>2, <3>3, <3>4
  <2>9. CASE ReadRemaining(m)
    <3>1. at[m] = "count" /\ at'[m] = "write"
      BY <2>9, Moved DEF ReadRemaining, ForwardSteps
    <3> QED
      BY <2>1, <2>2, <2>5, <2>9, <3>1 DEF ReadRemaining, Placed
  <2>10. CASE WriteRemaining(m)
    <3>1. at[m] = "write" /\ at'[m] = "over"
      BY <2>10, Moved DEF WriteRemaining, ForwardSteps
    <3> QED
      BY <2>1, <2>2, <2>5, <2>10, <3>1 DEF WriteRemaining, Placed
  <2>11. CASE ReadError(m)
    <3>1. /\ at[m] = "failed" /\ at'[m] = (IF hasError THEN "over" ELSE "error")
          /\ hasError' = hasError
      BY <2>11 DEF ReadError, Moves, ForwardTypeOK
    <3> QED
      BY <2>1, <2>5, <2>11, <3>1 DEF ReadError, Placed
  <2>12. CASE AnswerError(m)
    <3>1. at[m] = "error" /\ at'[m] = "over" /\ hasError'
      BY <2>12, Moved DEF AnswerError, ForwardSteps
    <3> QED
      BY <2>1, <2>5, <2>12, <3>1 DEF AnswerError, Placed
  <2> QED
    BY <1>3, <2>6, <2>7, <2>8, <2>9, <2>10, <2>11, <2>12 DEF Callback
<1> QED
  BY <1>1, <1>2, <1>3 DEF ForwardNext

\* What a step leaves of those that are under way.
LEMMA StepCounted ==
  ASSUME ForwardTypeOK, \A m \in Message : Placed(m), Answered, Counted, ForwardNext
  PROVE  Counted'
<1>0. /\ Pending \in SUBSET Message /\ Cardinality(Pending) \in Nat
      /\ remaining \in Nat /\ \A m \in Message : read[m] \in Nat
  BY MessagesCounted, CountAssumption DEF Pending, ForwardTypeOK
<1>1. CASE Fetched
  <2>1. PICK found \in SUBSET Message :
          /\ at' = [m \in Message |-> IF m \in found THEN "sent" ELSE "none"]
          /\ remaining' = Cardinality(found)
    BY <1>1 DEF Fetched
  <2>2. Pending' = found
    BY <2>1 DEF Pending
  <2>3. remaining' \in Nat
    BY <2>1, MessagesCounted, CountAssumption
  <2>4. \A m \in Message : at'[m] # "write"
    BY <2>1
  <2> QED
    BY <2>1, <2>2, <2>3, <2>4 DEF Counted
<1>2. CASE FetchFails
  BY <1>2 DEF FetchFails, Counted, Pending
<1>3. ASSUME NEW m \in Message, NEW to \in ForwardSteps \ {"none", "write", "over"},
             NEW from \in ForwardSteps \ {"none", "over"}, Moves(m, from, to),
             UNCHANGED <<remaining, read, hasError>>, lost \subseteq lost'
      PROVE  Counted'
  <2>1. /\ Pending' = Pending /\ \A n \in Message : at'[n] = "write" => at[n] = "write"
    BY <1>3, Moved
  <2> QED
    BY <1>3, <2>1 DEF Counted
<1>4. ASSUME NEW m \in Message, ReadRemaining(m) PROVE Counted'
  <2>1. /\ Pending' = Pending /\ at'[m] = "write"
        /\ \A n \in Message : n # m => at'[n] = at[n]
    BY <1>4, Moved DEF ReadRemaining, ForwardSteps
  <2>2. read'[m] = remaining /\ \A n \in Message : n # m => read'[n] = read[n]
    BY <1>4 DEF ReadRemaining, ForwardTypeOK
  <2>3. /\ remaining' = remaining /\ hasError' = hasError
        /\ lost \subseteq lost'
        /\ "decrement" \notin lost' => \A n \in Message : n # m => at[n] # "write"
    BY <1>4 DEF ReadRemaining, Others
  <2> QED
    BY <2>1, <2>2, <2>3 DEF Counted
<1>5. ASSUME NEW m \in Message, WriteRemaining(m) PROVE Counted'
  <2>1. /\ Cardinality(Pending') = Cardinality(Pending) - 1 /\ at[m] = "write" /\ at'[m] = "over"
        /\ \A n \in Message : n # m => at'[n] = at[n]
    BY <1>5, Moved DEF WriteRemaining, ForwardSteps
  <2>2. /\ remaining' = read[m] - 1 /\ UNCHANGED <<read, hasError, lost>>
    BY <1>5 DEF WriteRemaining
  <2>3. Cardinality(Pending) =< read[m]
    BY <2>1 DEF Counted
  <2>4. Cardinality(Pending') =< remaining'
    BY <1>0, <2>1, <2>2, <2>3
  <2>5. \A n \in Message : at'[n] = "write" => Cardinality(Pending') =< read'[n]
    BY <1>0, <2>1, <2>2 DEF Counted
  <2>6. "decrement" \notin lost =>
          /\ read[m] = remaining /\ \A n \in Message : n # m => at[n] # "write"
    BY <2>1 DEF Counted
  <2>7. "decrement" \notin lost /\ ~hasError => remaining' = Cardinality(Pending')
    BY <1>0, <2>1, <2>2, <2>6 DEF Counted
  <2> QED
    BY <2>1, <2>2, <2>4, <2>5, <2>6, <2>7 DEF Counted
<1>6. ASSUME NEW m \in Message, NEW from \in {"failed", "error"}, Moves(m, from, "over"), hasError',
             UNCHANGED <<remaining, read, lost>>
      PROVE  Counted'
  <2>1. /\ Cardinality(Pending') = Cardinality(Pending) - 1 /\ at'[m] = "over"
        /\ \A n \in Message : n # m => at'[n] = at[n]
    BY <1>6, Moved DEF ForwardSteps
  <2>2. \A n \in Message : at'[n] = "write" => at[n] = "write"
    BY <2>1
  <2> QED
    BY <1>0, <1>6, <2>1, <2>2 DEF Counted
<1>7. ASSUME NEW m \in Message, Callback(m) PROVE Counted'
  <2>1. CASE Insert(m) \/ InsertFails(m) \/ Publish(m) \/ AppendNew(m)
    BY <1>3, <2>1 DEF Insert, InsertFails, Publish, AppendNew, ForwardSteps
  <2>2. CASE ReadError(m)
    BY <1>3, <1>6, <2>2 DEF ReadError, ForwardSteps
  <2>3. CASE AnswerError(m)
    BY <1>6, <2>3 DEF AnswerError
  <2> QED
    BY <1>4, <1>5, <1>7, <2>1, <2>2, <2>3 DEF Callback
<1> QED
  BY <1>1, <1>2, <1>7 DEF ForwardNext

\* What an answer says when the callback that gives it is the last one.
LEMMA StepAnswered ==
  ASSUME ForwardTypeOK, \A m \in Message : Placed(m), newMessages \subseteq Forwarded,
         Answered, Counted, AnswerRight, ForwardNext
  PROVE  Answered' /\ AnswerRight'
<1> USE DEF AnswerRight
<1>0. /\ Pending \in SUBSET Message /\ Cardinality(Pending) \in Nat
      /\ remaining \in Nat /\ \A m \in Message : read[m] \in Nat
      /\ answers \in Seq(AnswerType)
  BY MessagesCounted, CountAssumption DEF Pending, ForwardTypeOK, AnswerType
<1>1. ASSUME NEW kind \in {"missing", "error"}, answers = <<>>, answers' = <<[kind |-> kind]>>
      PROVE  answers' # <<>> /\ Oks' = {}
  BY <1>1 DEF Oks
<1>2. CASE Fetched
  <2>1. PICK found \in SUBSET Message :
          /\ at' = [m \in Message |-> IF m \in found THEN "sent" ELSE "none"]
          /\ answers' = IF found = {} THEN <<[kind |-> "missing"]>> ELSE answers
    BY <1>2 DEF Fetched
  <2>2. Pending' = found /\ \A m \in Message : at'[m] # "over"
    BY <2>1 DEF Pending
  <2>3. Oks' = {} /\ (answers' = <<>> \/ found = {})
    BY <1>1, <1>2, <2>1 DEF Fetched, Oks
  <2>4. ~hasError /\ ~hasError'
    BY <1>2 DEF Fetched, Answered
  <2> QED
    BY <2>2, <2>3, <2>4 DEF Answered, OkMeansAll, NoneWaits
<1>3. CASE FetchFails
  <2>1. answers' # <<>> /\ Oks' = {} /\ Pending = {} /\ Pending' = {}
    BY <1>1, <1>3 DEF FetchFails, Pending
  <2> QED
    BY <2>1 DEF Answered, OkMeansAll, NoneWaits
<1>4. ASSUME NEW m \in Message, Callback(m), answers' = answers, hasError' = hasError
      PROVE  Answered' /\ OkMeansAll'
  <2>1. m \in Pending /\ Pending' \subseteq Pending
    BY <1>4, Moved DEF Callback, Insert, InsertFails, Publish, AppendNew, ReadRemaining,
       WriteRemaining, ReadError, AnswerError, ForwardSteps
  <2>2. Oks = {} /\ Oks' = {}
    BY <1>4, <2>1 DEF Answered, Oks
  <2> QED
    BY <1>4, <2>1, <2>2 DEF Answered, OkMeansAll
<1>5. ASSUME NEW m \in Message, NEW to \in ForwardSteps \ {"none", "over"},
             NEW from \in ForwardSteps \ {"none", "over"}, Moves(m, from, to)
      PROVE  NoneWaits'
  BY <1>5, Moved DEF NoneWaits
<1>6. ASSUME NEW m \in Message, answers' # <<>> PROVE NoneWaits'
  BY <1>6 DEF NoneWaits
<1>7. ASSUME NEW m \in Message, WriteRemaining(m) PROVE Answered' /\ OkMeansAll' /\ NoneWaits'
  <2>1. /\ m \in Pending
        /\ Pending' = Pending \ {m} /\ Cardinality(Pending') = Cardinality(Pending) - 1
        /\ at[m] = "write" /\ at'[m] = "over" /\ \A n \in Message : n # m => at'[n] = at[n]
    BY <1>7, Moved DEF WriteRemaining, ForwardSteps
  <2>2. Cardinality(Pending) =< read[m]
    BY <2>1 DEF Counted
  <2>3. CASE read[m] = 1 /\ ~hasError
    <3>1. Pending' = {}
      <4>1. Cardinality(Pending') = 0 /\ IsFiniteSet(Pending')
        BY <1>0, <2>1, <2>2, <2>3, MessagesCounted, FS_Subset
      <4> QED
        BY <4>1, FS_EmptySet
    <3>2. answers = <<>> /\ answers' = <<[kind |-> "ok", list |-> newMessages]>>
      <4>1. answers = <<>>
        BY <2>1, <2>3 DEF Answered
      <4>2. answers' = Append(answers, [kind |-> "ok", list |-> newMessages])
        BY <1>7, <2>3 DEF WriteRemaining
      <4> QED
        BY <4>1, <4>2
    <3>3. Len(answers') = 1 /\ answers' # <<>>
          /\ \A i \in Oks' : answers'[i].list = newMessages
      BY <3>2 DEF Oks
    <3>4. \A n \in Message : at'[n] # "none" => at'[n] = "over"
      BY <3>1 DEF Pending
    <3>5. UNCHANGED <<rows, published, newMessages, lost, hasError>>
      BY <1>7 DEF WriteRemaining
    <3>6. \A n \in Message : at'[n] # "none" => at[n] = "write" \/ at[n] = "over"
      BY <2>1, <3>4
    <3>7. Forwarded' = Forwarded
      BY <3>5 DEF Forwarded
    <3>8. \A n \in Message : at'[n] # "none" => n \in Forwarded \cap published
      BY <2>3, <3>6 DEF Placed
    <3>9. "append" \notin lost => newMessages = Forwarded
      <4>1. ASSUME NEW n \in Forwarded, "append" \notin lost PROVE n \in newMessages
        <5>1. n \in Message
          BY ForwardedMessages
        <5>2. at'[n] # "none"
          BY <2>1, <5>1 DEF Placed
        <5> QED
          BY <2>3, <3>6, <4>1, <5>1, <5>2 DEF Placed
      <4> QED
        BY <4>1
    <3>10. OkMeansAll'
      BY <3>3, <3>5, <3>7, <3>8, <3>9 DEF OkMeansAll
    <3> QED
      BY <1>6, <2>3, <3>1, <3>3, <3>5, <3>10 DEF Answered
  <2>4. CASE ~(read[m] = 1 /\ ~hasError)
    <3>1. UNCHANGED <<answers, hasError, lost>>
      BY <1>0, <1>7, <2>4 DEF WriteRemaining
    <3>2. NoneWaits'
      <4>1. SUFFICES ASSUME Pending' = {}, answers = <<>>, "decrement" \notin lost
                     PROVE  FALSE
        BY <3>1 DEF NoneWaits, Pending
      <4>2. ~hasError
        BY <4>1 DEF Answered
      <4>3. read[m] = Cardinality(Pending)
        BY <2>1, <4>1, <4>2 DEF Counted
      <4>4. Cardinality(Pending') = 0
        BY <4>1, FS_EmptySet
      <4> QED
        BY <1>0, <2>1, <2>4, <4>2, <4>3, <4>4
    <3> QED
      BY <1>4, <1>7, <3>1, <3>2 DEF Callback
  <2> QED
    BY <2>3, <2>4
<1>8. ASSUME NEW m \in Message, ReadError(m) PROVE Answered' /\ OkMeansAll' /\ NoneWaits'
  <2>1. answers' = answers /\ hasError' = hasError
    BY <1>8 DEF ReadError
  <2>2. CASE hasError
    BY <1>4, <1>6, <1>8, <2>1, <2>2 DEF Callback, Answered
  <2>3. CASE ~hasError
    BY <1>4, <1>5, <1>8, <2>1, <2>3 DEF Callback, ReadError, ForwardSteps
  <2> QED
    BY <2>2, <2>3
<1>9. ASSUME NEW m \in Message, AnswerError(m) PROVE Answered' /\ OkMeansAll' /\ NoneWaits'
  <2>1. m \in Pending /\ hasError' = TRUE /\ answers' = Append(answers, [kind |-> "error"])
    BY <1>9, Moved DEF AnswerError, ForwardSteps
  <2>2. Oks = {}
    BY <2>1 DEF Answered, Oks
  <2>3. answers' # <<>> /\ Oks' = {}
    BY <1>0, <2>1, <2>2 DEF Oks
  <2> QED
    BY <1>6, <2>1, <2>3 DEF Answered, OkMeansAll
<1>10. ASSUME NEW m \in Message, Callback(m) PROVE Answered' /\ OkMeansAll' /\ NoneWaits'
  <2>1. CASE Insert(m) \/ InsertFails(m) \/ Publish(m) \/ AppendNew(m) \/ ReadRemaining(m)
    <3>1. NoneWaits'
      BY <1>5, <2>1 DEF Insert, InsertFails, Publish, AppendNew, ReadRemaining, ForwardSteps
    <3>2. answers' = answers /\ hasError' = hasError
      BY <2>1 DEF Insert, InsertFails, Publish, AppendNew, ReadRemaining
    <3> QED
      BY <1>4, <1>10, <3>1, <3>2
  <2> QED
    BY <1>7, <1>8, <1>9, <1>10, <2>1 DEF Callback
<1> QED
  BY <1>2, <1>3, <1>10 DEF ForwardNext

\* The invariant of a forward is kept by its callbacks, and by the statements of others.
LEMMA ForwardInvStep ==
  ASSUME ForwardInv, [Next]_vars
  PROVE  ForwardInv'
<1>1. CASE UNCHANGED forwardVars
  BY <1>1 DEF forwardVars, ForwardInv, ForwardTypeOK, Placed, Forwarded, Answered, Counted,
     AnswerRight, OkMeansAll, NoneWaits, Oks, Pending
<1>2. CASE ForwardNext
  <2>1. ForwardTypeOK' /\ Counted'
    BY <1>2, StepForwardTyped, StepCounted DEF ForwardInv
  <2>2. (\A m \in Message : Placed(m)') /\ newMessages' \subseteq Forwarded'
    BY <1>2, StepPlaced DEF ForwardInv
  <2>3. Answered' /\ AnswerRight'
    BY <1>2, StepAnswered DEF ForwardInv
  <2> QED
    BY <2>1, <2>2, <2>3 DEF ForwardInv
<1> QED
  BY <1>1, <1>2 DEF Next, vars

\* The inductive invariant that the theorems about a forward follow from.
LEMMA ForwardCorrect == Spec => []ForwardInv
<1>1. Init => ForwardInv
  <2> SUFFICES ASSUME Init PROVE ForwardInv
    OBVIOUS
  <2> USE DEF Init, ForwardInit
  <2>1. ForwardTypeOK
    <3>1. at \in [Message -> ForwardSteps] /\ rows \in Seq(Message)
      BY DEF ForwardSteps
    <3>2. remaining \in 0 .. N /\ read \in [Message -> 0 .. N]
      BY CountAssumption
    <3>3. answers \in Seq(AnswerType)
      OBVIOUS
    <3>4. hasError \in BOOLEAN
      OBVIOUS
    <3>5. published \subseteq Message /\ newMessages \subseteq Message /\ lost = {}
      OBVIOUS
    <3> QED
      BY <3>1, <3>2, <3>3, <3>4, <3>5 DEF ForwardTypeOK, AnswerType
  <2>2. Pending = {} /\ Oks = {} /\ Forwarded = {}
    BY DEF Pending, Oks, Forwarded
  <2>3. Cardinality(Pending) = 0
    BY <2>2, FS_EmptySet
  <2>4. Counted /\ Answered
    BY <2>2, <2>3 DEF Counted, Answered
  <2>5. AnswerRight
    BY <2>2 DEF AnswerRight, OkMeansAll, NoneWaits
  <2>6. \A m \in Message : Placed(m)
    BY <2>2 DEF Placed
  <2> QED
    BY <2>1, <2>2, <2>4, <2>5, <2>6 DEF ForwardInv
<1>2. ForwardInv /\ [Next]_vars => ForwardInv'
  BY ForwardInvStep
<1> QED
  BY <1>1, <1>2, PTL DEF Spec

\* A forward is answered ok only when every message it found has its row and its event, and
\* it is answered by the time its callbacks have run unless decrements overlapped: for any
\* number of messages, however their callbacks interleave.
THEOREM AnswersCorrect == Spec => []AnswerRight
<1>1. ForwardInv => AnswerRight
  BY DEF ForwardInv
<1> QED
  BY <1>1, ForwardCorrect, PTL

\* What requests, rows and callbacks hold is of its type, for any users, chats, invites,
\* requests and messages: remaining, an int that threads share, never goes below zero.
THEOREM RequestsTypeCorrect == Spec => []TypeOK
<1>1. MemberInv /\ ForwardInv => TypeOK
  BY DEF MemberInv, Shaped, ForwardInv, TypeOK
<1> QED
  BY <1>1, MemberCorrect, ForwardCorrect, PTL
===============================================================================
