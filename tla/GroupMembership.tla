-------------------------- MODULE GroupMembership --------------------------
(***************************************************************************)
(* Who belongs to one public group: the membership rows of the users, the  *)
(* member_count of the room, the join requests, one invite link and the    *)
(* owner role, as the HTTP requests of backend/groups/application/         *)
(* member_service.py, invite_service.py and ownership_service.py change    *)
(* them.                                                                   *)
(*                                                                         *)
(* Every request runs on a thread of its own.  Most of them read first and *)
(* open their transaction afterwards, so what they read may have changed   *)
(* when they write.  Inside a transaction the database lets others commit  *)
(* between two statements (READ COMMITTED), except to locked rows.         *)
(***************************************************************************)
EXTENDS Naturals, FiniteSets

CONSTANTS
  Users,        \* the users whose membership is at stake
  Founder,      \* the one who created the group
  Workers,      \* request threads
  MaxMembers,   \* max_members of the room
  MaxUses,      \* max_uses of the invite link
  MaxIds        \* bound on row ids and on the counter

ASSUME GroupAssumption ==
  /\ IsFiniteSet(Users) /\ Founder \in Users
  /\ MaxMembers \in Nat \ {0} /\ MaxUses \in Nat \ {0} /\ MaxIds \in Nat \ {0}

NoRow == [id |-> 0, status |-> "none"]
Rows == [id : 1..MaxIds, status : {"active", "banned"}] \union {NoRow}

Ops == {"join", "invite", "inviting", "leave", "kick", "ban", "unban",
        "approve", "reject", "transfer", "transferring"}
Jobs == [op : Ops \union {"none"}, user : Users, row : Rows,
         request : 0..MaxIds, owners : SUBSET (1..MaxIds)]
Idle == [op |-> "none", user |-> Founder, row |-> NoRow, request |-> 0, owners |-> {}]

VARIABLES
  rows,       \* Membership: the row of each user, NoRow without one
  owners,     \* ids of the rows with the owner role
  requests,   \* JoinRequest: the id of each user's pending request, or 0
  count,      \* Room.member_count
  approval,   \* Room.join_approval_required
  uses,       \* InviteLink.use_count
  revoked,    \* InviteLink.is_revoked
  next,       \* the next id
  work,       \* the request each thread serves, and what it has read
  (* History, read by the properties and never by an action's guard.       *)
  stale,      \* some request has written what it decided on outdated rows
  dodged,     \* some banned user has left the group
  overruled,  \* some request was approved with the group full
  shut        \* users banned and not let in again by a moderator

room == <<owners, requests, count, approval, next>>
invite == <<uses, revoked>>
history == <<stale, dodged, overruled, shut>>
vars == <<rows, room, invite, work, history>>

Active(u) == rows[u].status = "active"
Banned(u) == rows[u].status = "banned"
Members == {u \in Users : Active(u)}
IsOwner(u) == rows[u].id \in owners

Init ==
  /\ rows = [u \in Users |-> IF u = Founder THEN [id |-> 1, status |-> "active"]
                                            ELSE NoRow]
  /\ owners = {1}
  /\ requests = [u \in Users |-> 0]
  /\ count = 1 /\ next = 2
  /\ approval \in BOOLEAN
  /\ uses = 0 /\ revoked = FALSE
  /\ work = [w \in Workers |-> Idle]
  /\ stale = FALSE /\ dodged = FALSE /\ overruled = FALSE
  /\ shut = {}

-----------------------------------------------------------------------------
(* Definitions named ..._Fault are seeded faults: plausible mistakes in    *)
(* the definition that follows.                                            *)

Expired == revoked \/ uses >= MaxUses

Full_Fault == count > MaxMembers
Full == count >= MaxMembers

(* What a request checks before its transaction.  A moderator must rank    *)
(* above his target, which leaves the owner out; he is not among the Users *)
(* and keeps his permission.                                               *)
MayStart(op, u) ==
  \/ op = "join" /\ rows[u] = NoRow
  \/ op = "invite" /\ ~Expired
  \/ op \in {"leave", "kick"} /\ rows[u] # NoRow /\ ~IsOwner(u)
  \/ op = "ban" /\ ~IsOwner(u)
  \/ op = "unban" /\ Banned(u)
  \/ op \in {"approve", "reject"} /\ requests[u] # 0
  \/ op = "transfer" /\ Active(u)

Start(w, op, u) ==
  /\ work[w] = Idle
  /\ MayStart(op, u)
  /\ work' = [work EXCEPT ![w] =
       [op |-> op, user |-> u, owners |-> {},
        row |-> IF op \in {"approve", "reject"} THEN NoRow ELSE rows[u],
        request |-> IF op \in {"approve", "reject"} THEN requests[u] ELSE 0]]
  /\ UNCHANGED <<rows, room, invite, history>>

(* The request is answered.                                                *)
Ends(w, op) ==
  /\ work[w].op = op
  /\ work' = [work EXCEPT ![w] = Idle]

(* Every write that cannot be made raises and rolls its transaction back;  *)
(* so does a request that dies.                                            *)
Abort(w) ==
  /\ work[w] # Idle
  /\ work' = [work EXCEPT ![w] = Idle]
  /\ UNCHANGED <<rows, room, invite, history>>

(* membership_room_user_uniq: a second row of the same user is refused.    *)
Insert_Fault(u, status) ==
  /\ next <= MaxIds
  /\ rows' = [rows EXCEPT ![u] = [id |-> next, status |-> status]]
  /\ next' = next + 1

Insert(u, status) ==
  /\ rows[u] = NoRow
  /\ next <= MaxIds
  /\ rows' = [rows EXCEPT ![u] = [id |-> next, status |-> status]]
  /\ next' = next + 1

(* DELETE by primary key: nothing happens to a newer row.                  *)
Remove(w) ==
  LET u == work[w].user
      id == work[w].row.id
  IN  /\ rows' = IF rows[u].id = id THEN [rows EXCEPT ![u] = NoRow] ELSE rows
      /\ owners' = owners \ {id}

Raise == count < MaxIds /\ count' = count + 1

(* PositiveIntegerField: the database refuses a negative count.            *)
Lower_Fault == count' = IF count > 0 THEN count - 1 ELSE MaxIds + 1
Lower == count > 0 /\ count' = count - 1

(* was_active, as it was read.                                             *)
WasActive_Fault(w) == work[w].row.status # "none"
WasActive(w) == work[w].row.status = "active"

Uncount(w) == IF WasActive(w) THEN Lower ELSE UNCHANGED count

(* The row of the target is not what it was when it was read.              *)
Changed(w) == rows[work[w].user] # work[w].row
Promoted(w) == work[w].row.id \in owners

-----------------------------------------------------------------------------
(* join_group: the limit is checked with the room locked.  With approval   *)
(* required the request is written and GroupError raised inside the        *)
(* transaction, which takes the request back.                              *)
JoinCommit(w) ==
  /\ Ends(w, "join") /\ ~Full /\ ~approval
  /\ Insert(work[w].user, "active") /\ Raise
  /\ UNCHANGED <<owners, requests, approval, invite, history>>

JoinSent(w) ==
  /\ Ends(w, "join") /\ ~Full /\ approval
  /\ UNCHANGED <<rows, room, invite, history>>

(* join_via_invite: the invite is locked and checked again, then the row   *)
(* is looked up; the room is locked last.                                  *)
InviteLock_Fault(w) ==
  /\ work[w].op = "invite"
  /\ rows[work[w].user] = NoRow
  /\ work' = [work EXCEPT ![w].op = "inviting"]
  /\ UNCHANGED <<rows, room, invite, history>>

InviteLock(w) ==
  /\ work[w].op = "invite"
  /\ \A v \in Workers : work[v].op # "inviting"
  /\ ~Expired
  /\ rows[work[w].user] = NoRow
  /\ work' = [work EXCEPT ![w].op = "inviting"]
  /\ UNCHANGED <<rows, room, invite, history>>

InviteJoin(w) ==
  /\ Ends(w, "inviting") /\ ~Full /\ ~approval
  /\ uses' = uses + 1
  /\ Insert(work[w].user, "active") /\ Raise
  /\ UNCHANGED <<owners, requests, approval, revoked, history>>

InviteSent(w) ==
  LET u == work[w].user
  IN  /\ Ends(w, "inviting") /\ ~Full /\ approval
      /\ uses' = uses + 1
      /\ IF requests[u] = 0
         THEN /\ next <= MaxIds /\ next' = next + 1
              /\ requests' = [requests EXCEPT ![u] = next]
         ELSE UNCHANGED <<next, requests>>
      /\ UNCHANGED <<rows, owners, count, approval, revoked, history>>

(* leave_group: a banned user's row is deleted like any other.             *)
LeaveCommit(w) ==
  /\ Ends(w, "leave")
  /\ Remove(w) /\ Lower
  /\ stale' = (stale \/ Changed(w) \/ Promoted(w))
  /\ dodged' = (dodged \/ ~WasActive(w))
  /\ UNCHANGED <<requests, approval, next, invite, overruled, shut>>

KickCommit(w) ==
  /\ Ends(w, "kick")
  /\ Remove(w) /\ Uncount(w)
  /\ stale' = (stale \/ Changed(w) \/ Promoted(w))
  /\ shut' = IF WasActive(w) THEN shut ELSE shut \ {work[w].user}
  /\ UNCHANGED <<requests, approval, next, invite, dodged, overruled>>

(* ban_member: saving a row that is gone raises.                           *)
BanCommit(w) ==
  LET u == work[w].user
  IN  /\ Ends(w, "ban")
      /\ work[w].row # NoRow /\ rows[u].id = work[w].row.id
      /\ rows' = [rows EXCEPT ![u].status = "banned"]
      /\ Uncount(w)
      /\ stale' = (stale \/ Changed(w) \/ Promoted(w))
      /\ shut' = shut \union {u}
      /\ UNCHANGED <<owners, requests, approval, next, invite,
                     dodged, overruled>>

BanAhead(w) ==
  /\ Ends(w, "ban")
  /\ work[w].row = NoRow
  /\ Insert(work[w].user, "banned")
  /\ shut' = shut \union {work[w].user}
  /\ UNCHANGED <<owners, requests, count, approval, invite,
                 stale, dodged, overruled>>

UnbanCommit(w) ==
  /\ Ends(w, "unban")
  /\ Remove(w)
  /\ stale' = (stale \/ Changed(w))
  /\ shut' = shut \ {work[w].user}
  /\ UNCHANGED <<requests, count, approval, next, invite,
                 dodged, overruled>>

(* approve_join_request looks at neither the limit nor at the request's    *)
(* status again, and lets a banned user in.                                *)
Decide(w) ==
  LET u == work[w].user
  IN  requests' = IF requests[u] = work[w].request
                  THEN [requests EXCEPT ![u] = 0] ELSE requests

ApproveCommit(w) ==
  LET u == work[w].user
  IN  /\ Ends(w, "approve")
      /\ Decide(w)
      /\ \/ Insert(u, "active") /\ Raise
         \/ /\ Banned(u) /\ Raise
            /\ rows' = [rows EXCEPT ![u].status = "active"]
            /\ UNCHANGED next
         \/ Active(u) /\ UNCHANGED <<rows, count, next>>
      /\ overruled' = (overruled \/ (~Active(u) /\ Full))
      /\ shut' = shut \ {u}
      /\ UNCHANGED <<owners, approval, invite, stale, dodged>>

RejectCommit(w) ==
  /\ Ends(w, "reject")
  /\ Decide(w)
  /\ UNCHANGED <<rows, owners, count, approval, next, invite,
                 stale, dodged, overruled, shut>>

(* transfer_ownership: the previous owners are listed, then lose the role  *)
(* one by one; a role for a row that is gone violates the foreign key.     *)
TransferList(w) ==
  /\ work[w].op = "transfer"
  /\ work' = [work EXCEPT ![w].op = "transferring", ![w].owners = owners]
  /\ UNCHANGED <<rows, room, invite, history>>

TransferCommit_Fault(w) ==
  LET id == work[w].row.id
  IN  /\ Ends(w, "transferring")
      /\ rows[work[w].user].id = id
      /\ owners' = owners \union {id}
      /\ stale' = (stale \/ Changed(w) \/ owners # work[w].owners)
      /\ UNCHANGED <<rows, requests, count, approval, next, invite,
                     dodged, overruled, shut>>

TransferCommit(w) ==
  LET id == work[w].row.id
  IN  /\ Ends(w, "transferring")
      /\ rows[work[w].user].id = id
      /\ owners' = (owners \ work[w].owners) \union {id}
      /\ stale' = (stale \/ Changed(w) \/ owners # work[w].owners)
      /\ UNCHANGED <<rows, requests, count, approval, next, invite,
                     dodged, overruled, shut>>

-----------------------------------------------------------------------------
(* Settings, by people who may change them.                                *)
SetApproval ==
  /\ approval' = ~approval
  /\ UNCHANGED <<rows, owners, requests, count, next, invite, work, history>>

Revoke ==
  /\ \A w \in Workers : work[w].op # "inviting"    \* the row is locked
  /\ revoked' = TRUE
  /\ UNCHANGED <<rows, room, uses, work, history>>

Next ==
  \/ \E w \in Workers :
       \/ \E op \in Ops, u \in Users : Start(w, op, u)
       \/ JoinCommit(w) \/ JoinSent(w)
       \/ InviteLock(w) \/ InviteJoin(w) \/ InviteSent(w)
       \/ LeaveCommit(w) \/ KickCommit(w) \/ BanCommit(w) \/ BanAhead(w)
       \/ UnbanCommit(w) \/ ApproveCommit(w) \/ RejectCommit(w)
       \/ TransferList(w) \/ TransferCommit(w)
       \/ Abort(w)
  \/ SetApproval \/ Revoke

Spec == Init /\ [][Next]_vars

-----------------------------------------------------------------------------
(* Every variable stays in its range.                                      *)
TypeOK ==
  /\ rows \in [Users -> Rows] /\ owners \subseteq 1..MaxIds
  /\ requests \in [Users -> 0..MaxIds]
  /\ count \in 0..MaxIds /\ next \in 1..(MaxIds + 1)
  /\ approval \in BOOLEAN /\ uses \in Nat /\ revoked \in BOOLEAN
  /\ work \in [Workers -> Jobs]
  /\ stale \in BOOLEAN /\ dodged \in BOOLEAN /\ overruled \in BOOLEAN
  /\ shut \subseteq Users

(* Until a request writes what it decided on outdated rows, or a banned    *)
(* user leaves, member_count is the number of members, however joins,      *)
(* invitations, approvals and moderation overlap.                          *)
CountIsExact == ~stale /\ ~dodged => count = Cardinality(Members)

(* Then requests that overlap do not fill the group beyond max_members     *)
(* either, unless a moderator approves somebody when it is full.           *)
LimitHolds ==
  ~stale /\ ~dodged /\ ~overruled => Cardinality(Members) <= MaxMembers

(* Nobody comes in by an invite that is used up or revoked, even if it was *)
(* valid when his request started.                                         *)
InviteIsRespected == [][uses' > uses => ~revoked /\ uses' <= MaxUses]_vars

(* The group has one owner, who is a member, until a request acts on       *)
(* outdated rows.                                                          *)
OneOwner == ~stale => \E u \in Users : Active(u) /\ owners = {rows[u].id}

(* A ban holds, also against a join under way when it was pronounced,      *)
(* until a moderator lets the user in or he leaves.                        *)
BanHolds == ~stale /\ ~dodged => \A u \in shut : Banned(u)

(* The four together: the counter, the limit, the owner and the bans.      *)
MembershipHolds == CountIsExact /\ LimitHolds /\ OneOwner /\ BanHolds

-----------------------------------------------------------------------------
(* Claims that the code does not keep                                      *)

(* test_banned_user_cannot_join.                                           *)
BannedUserCannotJoin == \A u \in shut : ~Active(u)

(* join_group says that the request was sent for review: then it is there. *)
SentMeansPending ==
  [][\A w \in Workers : JoinSent(w) => requests'[work[w].user] # 0]_vars
=============================================================================
