----------------------- MODULE GroupMembershipProofs -----------------------
(***************************************************************************)
(* Proofs about GroupMembership for any users, request threads and limits. *)
(***************************************************************************)
EXTENDS GroupMembership, FiniteSetTheorems, TLAPS

(* Ids are given once: no two users share a row.                           *)
IdsAreFresh ==
  /\ \A u \in Users : rows[u].id < next
  /\ \A u, v \in Users : rows[u].id = rows[v].id /\ rows[u] # NoRow => u = v

(* What a request has read fits what it does.                              *)
WorkFits ==
  \A w \in Workers :
    /\ work[w].op = "unban" => work[w].row.status = "banned"
    /\ work[w].op \in {"transfer", "transferring"} => work[w].row.status = "active"
    /\ work[w].op \in {"leave", "kick"} => work[w].row # NoRow

(* The invite is locked by one request at a time, and valid while it is.   *)
InviteIsLocked ==
  \A w \in Workers : work[w].op = "inviting" =>
    ~Expired /\ \A v \in Workers : work[v].op = "inviting" => v = w

IInv == /\ TypeOK /\ IdsAreFresh /\ WorkFits /\ InviteIsLocked
        /\ CountIsExact /\ LimitHolds /\ OneOwner /\ BanHolds

-----------------------------------------------------------------------------
LEMMA Rowless ==
  /\ NoRow \in Rows /\ NoRow.id = 0 /\ NoRow.status = "none"
  /\ \A r \in Rows : /\ r.id \in 0..MaxIds /\ r.id \in Nat
                     /\ r # NoRow <=> r.id # 0
                     /\ r # NoRow <=> r.status \in {"active", "banned"}
                     /\ r # NoRow => r.id \in 1..MaxIds
  /\ \A i \in 1..MaxIds, s \in {"active", "banned"} :
       [id |-> i, status |-> s] \in Rows /\ [id |-> i, status |-> s] # NoRow
  /\ Idle \in Jobs
<1>1. MaxIds \in Nat /\ Founder \in Users
  BY GroupAssumption
<1>2. NoRow \in Rows /\ NoRow.id = 0 /\ NoRow.status = "none"
  BY DEF NoRow, Rows
<1>3. ASSUME NEW r \in Rows
      PROVE  /\ r.id \in 0..MaxIds /\ r.id \in Nat
             /\ r # NoRow <=> r.id # 0
             /\ r # NoRow <=> r.status \in {"active", "banned"}
             /\ r # NoRow => r.id \in 1..MaxIds
  BY <1>1 DEF NoRow, Rows
<1>4. ASSUME NEW i \in 1..MaxIds, NEW s \in {"active", "banned"}
      PROVE  [id |-> i, status |-> s] \in Rows /\ [id |-> i, status |-> s] # NoRow
  BY <1>1 DEF NoRow, Rows
<1>5. Idle \in Jobs
  BY <1>1, <1>2 DEF Idle, Jobs
<1> QED BY <1>2, <1>3, <1>4, <1>5

LEMMA Read ==
  ASSUME TypeOK, NEW w \in Workers
  PROVE  /\ work[w].user \in Users /\ work[w].row \in Rows /\ rows[work[w].user] \in Rows
         /\ work[w].op \in Ops \union {"none"} /\ work[w].request \in 0..MaxIds
         /\ work[w].owners \in SUBSET (1..MaxIds)
         /\ \A op : Ends(w, op) => work' \in [Workers -> Jobs]
BY Rowless DEF TypeOK, Jobs, Ends

-----------------------------------------------------------------------------
LEMMA TypeStep == TypeOK /\ WorkFits /\ [Next]_vars => TypeOK'
<1> SUFFICES ASSUME TypeOK, WorkFits, [Next]_vars PROVE TypeOK' OBVIOUS
<1>0. MaxIds \in Nat
  BY GroupAssumption
<1> USE DEF room, invite, history
<1>1. ASSUME NEW w \in Workers, NEW op \in Ops, NEW u \in Users, Start(w, op, u)
      PROVE  TypeOK'
  <2>1. [op |-> op, user |-> u, owners |-> {},
         row |-> IF op \in {"approve", "reject"} THEN NoRow ELSE rows[u],
         request |-> IF op \in {"approve", "reject"} THEN requests[u] ELSE 0] \in Jobs
    <3>1. rows[u] \in Rows /\ requests[u] \in 0..MaxIds /\ 0 \in 0..MaxIds
      BY <1>0 DEF TypeOK
    <3> QED BY <3>1, Rowless DEF Jobs
  <2> QED BY <1>1, <2>1 DEF Start, TypeOK
<1>2. ASSUME NEW u \in Users, NEW s \in {"active", "banned"},
             Insert(u, s)
      PROVE  rows' \in [Users -> Rows] /\ next' \in 1..(MaxIds + 1)
  <2>1. [id |-> next, status |-> s] \in Rows
    <3>1. next \in 1..MaxIds
      BY <1>0, <1>2 DEF Insert, TypeOK
    <3> QED BY <3>1, Rowless
  <2>2. next' \in 1..(MaxIds + 1)
    BY <1>0, <1>2 DEF Insert, TypeOK
  <2> QED BY <1>2, <2>1, <2>2 DEF Insert, TypeOK
<1>3. ASSUME NEW w \in Workers, JoinCommit(w) \/ InviteJoin(w) PROVE TypeOK'
  <2>1. work[w].user \in Users /\ work' \in [Workers -> Jobs]
    BY <1>3, Read DEF JoinCommit, InviteJoin
  <2>2. rows' \in [Users -> Rows] /\ next' \in 1..(MaxIds + 1)
    BY <1>2, <1>3, <2>1 DEF JoinCommit, InviteJoin
  <2>3. count' \in 0..MaxIds /\ uses' \in Nat
    BY <1>0, <1>3 DEF JoinCommit, InviteJoin, Raise, TypeOK
  <2> QED BY <1>3, <2>1, <2>2, <2>3 DEF JoinCommit, InviteJoin, TypeOK
<1>4. ASSUME NEW w \in Workers, JoinSent(w) \/ Abort(w) PROVE TypeOK'
  BY <1>4, Read, Rowless DEF JoinSent, Abort, TypeOK
<1>5. ASSUME NEW w \in Workers, InviteLock(w) PROVE TypeOK'
  <2>1. work' \in [Workers -> Jobs]
    BY <1>5 DEF InviteLock, TypeOK, Jobs, Ops
  <2> QED BY <1>5, <2>1 DEF InviteLock, TypeOK
<1>6. ASSUME NEW w \in Workers, InviteSent(w) PROVE TypeOK'
  BY <1>0, <1>6, Read DEF InviteSent, TypeOK
<1>7. ASSUME NEW w \in Workers, Remove(w)
      PROVE  rows' \in [Users -> Rows] /\ owners' \in SUBSET (1..MaxIds)
  BY <1>7, Read, Rowless DEF Remove, TypeOK
<1>8. ASSUME NEW w \in Workers, Lower \/ Uncount(w) PROVE count' \in 0..MaxIds
  BY <1>0, <1>8 DEF Lower, Uncount, TypeOK
<1>9. ASSUME NEW w \in Workers, LeaveCommit(w) PROVE TypeOK'
  BY <1>7, <1>8, <1>9, Read DEF LeaveCommit, TypeOK
<1>10. ASSUME NEW w \in Workers, KickCommit(w) PROVE TypeOK'
  BY <1>7, <1>8, <1>10, Read DEF KickCommit, TypeOK
<1>11. ASSUME NEW s \in {"active", "banned"}, NEW u \in Users,
              rows[u] # NoRow, rows' = [rows EXCEPT ![u].status = s]
       PROVE  rows' \in [Users -> Rows]
  <2>1. rows[u] \in [id : 1..MaxIds, status : {"active", "banned"}]
    BY <1>11 DEF TypeOK, Rows
  <2>2. [rows[u] EXCEPT !.status = s] \in Rows
    BY <2>1 DEF Rows
  <2> QED BY <1>11, <2>2 DEF TypeOK
<1>12. ASSUME NEW w \in Workers, BanCommit(w) PROVE TypeOK'
  <2>1. rows[work[w].user] # NoRow
    BY <1>12, Read, Rowless DEF BanCommit
  <2> QED BY <1>8, <1>11, <1>12, <2>1, Read DEF BanCommit, TypeOK
<1>13. ASSUME NEW w \in Workers, BanAhead(w) PROVE TypeOK'
  BY <1>2, <1>13, Read DEF BanAhead, TypeOK
<1>14. ASSUME NEW w \in Workers, UnbanCommit(w) PROVE TypeOK'
  BY <1>7, <1>14, Read DEF UnbanCommit, TypeOK
<1>15. ASSUME NEW w \in Workers, Decide(w) PROVE requests' \in [Users -> 0..MaxIds]
  BY <1>0, <1>15, Read DEF Decide, TypeOK
<1>16. ASSUME NEW w \in Workers, ApproveCommit(w) PROVE TypeOK'
  <2>1. rows' \in [Users -> Rows] /\ count' \in 0..MaxIds /\ next' \in 1..(MaxIds + 1)
    <3>1. CASE Insert(work[w].user, "active") /\ Raise
      BY <1>0, <1>2, <3>1, Read DEF Raise, TypeOK
    <3>2. CASE /\ Banned(work[w].user) /\ Raise
               /\ rows' = [rows EXCEPT ![work[w].user].status = "active"]
               /\ UNCHANGED next
      <4>1. rows[work[w].user] # NoRow
        BY <3>2, Read, Rowless DEF Banned
      <4>2. rows' \in [Users -> Rows]
        BY <1>11, <3>2, <4>1, Read
      <4> QED BY <1>0, <3>2, <4>2 DEF Raise, TypeOK
    <3> QED BY <1>16, <3>1, <3>2 DEF ApproveCommit, TypeOK
  <2> QED BY <1>15, <1>16, <2>1, Read DEF ApproveCommit, TypeOK
<1>17. ASSUME NEW w \in Workers, RejectCommit(w) PROVE TypeOK'
  BY <1>15, <1>17, Read DEF RejectCommit, TypeOK
<1>18. ASSUME NEW w \in Workers, TransferList(w) PROVE TypeOK'
  <2>1. work' \in [Workers -> Jobs]
    BY <1>18 DEF TransferList, TypeOK, Jobs, Ops
  <2> QED BY <1>18, <2>1 DEF TransferList, TypeOK
<1>19. ASSUME NEW w \in Workers, TransferCommit(w) PROVE TypeOK'
  <2>1. work[w].row.id \in 1..MaxIds
    BY <1>19, Read, Rowless DEF TransferCommit, Ends, WorkFits
  <2> QED BY <1>19, <2>1, Read DEF TransferCommit, TypeOK
<1>20. CASE SetApproval \/ Revoke
  BY <1>20 DEF SetApproval, Revoke, TypeOK
<1>21. CASE UNCHANGED vars
  BY <1>21 DEF vars, TypeOK
<1> QED
  BY <1>1, <1>3, <1>4, <1>5, <1>6, <1>9, <1>10, <1>12, <1>13, <1>14, <1>16, <1>17,
     <1>18, <1>19, <1>20, <1>21
  DEF Next

-----------------------------------------------------------------------------
(* The work of the threads.                                                *)
LEMMA WorkSteps ==
  ASSUME [Next]_vars
  PROVE  \/ \E w \in Workers, op \in Ops, u \in Users : Start(w, op, u)
         \/ \E w \in Workers : InviteLock(w) \/ TransferList(w)
         \/ \E w \in Workers : /\ work' = [work EXCEPT ![w] = Idle]
                               /\ UNCHANGED revoked
                               /\ UNCHANGED uses \/ work[w].op = "inviting"
         \/ UNCHANGED work /\ (UNCHANGED invite \/ Revoke)
<1>1. ASSUME NEW w \in Workers,
             \/ JoinCommit(w) \/ JoinSent(w) \/ LeaveCommit(w) \/ KickCommit(w)
             \/ BanCommit(w) \/ BanAhead(w) \/ UnbanCommit(w) \/ ApproveCommit(w)
             \/ RejectCommit(w) \/ TransferCommit(w) \/ Abort(w)
      PROVE  work' = [work EXCEPT ![w] = Idle] /\ UNCHANGED <<uses, revoked>>
  BY <1>1 DEF invite, Ends, Abort, JoinCommit, JoinSent, LeaveCommit, KickCommit,
              BanCommit, BanAhead, UnbanCommit, ApproveCommit, RejectCommit,
              TransferCommit
<1>2. ASSUME NEW w \in Workers, InviteJoin(w) \/ InviteSent(w)
      PROVE  /\ work' = [work EXCEPT ![w] = Idle] /\ UNCHANGED revoked
             /\ work[w].op = "inviting"
  BY <1>2 DEF Ends, InviteJoin, InviteSent
<1>3. SetApproval \/ UNCHANGED vars => UNCHANGED work /\ UNCHANGED invite
  BY DEF SetApproval, vars, invite
<1>4. Revoke => UNCHANGED work
  BY DEF Revoke
<1> QED BY <1>1, <1>2, <1>3, <1>4 DEF Next

LEMMA Relabelled ==
  ASSUME TypeOK, NEW w \in Workers, InviteLock(w) \/ TransferList(w)
  PROVE  /\ work'[w].row = work[w].row
         /\ \A v \in Workers \ {w} : work'[v] = work[v]
         /\ UNCHANGED invite
         /\ InviteLock(w) => work'[w].op = "inviting"
         /\ TransferList(w) => work[w].op = "transfer" /\ work'[w].op = "transferring"
<1>1. CASE InviteLock(w)
  BY <1>1 DEF InviteLock, TransferList, TypeOK, Jobs, invite
<1>2. CASE TransferList(w)
  BY <1>2 DEF InviteLock, TransferList, TypeOK, Jobs, invite
<1> QED BY <1>1, <1>2

LEMMA WorkStep == TypeOK /\ WorkFits /\ [Next]_vars => WorkFits'
<1> SUFFICES ASSUME TypeOK, WorkFits, [Next]_vars PROVE WorkFits' OBVIOUS
<1>1. ASSUME NEW w \in Workers, NEW op \in Ops, NEW u \in Users, Start(w, op, u)
      PROVE  WorkFits'
  <2>1. op = "unban" => work'[w].row.status = "banned"
    BY <1>1 DEF Start, MayStart, Banned, TypeOK
  <2>2. op \in {"transfer", "transferring"} => work'[w].row.status = "active"
    BY <1>1 DEF Start, MayStart, Active, TypeOK
  <2>3. op \in {"leave", "kick"} => work'[w].row # NoRow
    BY <1>1 DEF Start, MayStart, TypeOK
  <2>4. work'[w].op = op /\ \A v \in Workers \ {w} : work'[v] = work[v]
    BY <1>1 DEF Start, TypeOK
  <2> QED BY <2>1, <2>2, <2>3, <2>4 DEF WorkFits
<1>2. ASSUME NEW w \in Workers, InviteLock(w) \/ TransferList(w) PROVE WorkFits'
  BY <1>2, Relabelled DEF WorkFits
<1>3. ASSUME NEW w \in Workers, work' = [work EXCEPT ![w] = Idle] PROVE WorkFits'
  BY <1>3 DEF Idle, WorkFits, TypeOK
<1>4. ASSUME UNCHANGED work PROVE WorkFits'
  BY <1>4 DEF WorkFits
<1> QED BY <1>1, <1>2, <1>3, <1>4, WorkSteps

LEMMA LockStep == TypeOK /\ InviteIsLocked /\ [Next]_vars => InviteIsLocked'
<1> SUFFICES ASSUME TypeOK, InviteIsLocked, [Next]_vars PROVE InviteIsLocked'
  OBVIOUS
<1> USE DEF InviteIsLocked, Expired, invite
<1>1. ASSUME NEW w \in Workers, NEW op \in Ops, NEW u \in Users, Start(w, op, u)
      PROVE  InviteIsLocked'
  <2>1. op # "inviting"
    BY <1>1 DEF Start, MayStart
  <2>2. /\ work'[w].op = op /\ \A v \in Workers \ {w} : work'[v] = work[v]
        /\ UNCHANGED invite
    BY <1>1 DEF Start, TypeOK
  <2> QED BY <2>1, <2>2
<1>2. ASSUME NEW w \in Workers, InviteLock(w) \/ TransferList(w)
      PROVE  InviteIsLocked'
  <2>1. InviteLock(w) => ~Expired /\ \A v \in Workers : work[v].op # "inviting"
    BY DEF InviteLock
  <2> QED BY <1>2, <2>1, Relabelled
<1>3. ASSUME NEW w \in Workers, work' = [work EXCEPT ![w] = Idle],
             UNCHANGED revoked, UNCHANGED uses \/ work[w].op = "inviting"
      PROVE  InviteIsLocked'
  <2>1. work'[w].op = "none" /\ \A v \in Workers \ {w} : work'[v] = work[v]
    BY <1>3 DEF Idle, TypeOK
  <2> QED BY <1>3, <2>1
<1>4. ASSUME UNCHANGED work, UNCHANGED invite PROVE InviteIsLocked'
  BY <1>4
<1>5. CASE Revoke
  BY <1>5 DEF Revoke
<1> QED BY <1>1, <1>2, <1>3, <1>4, <1>5, WorkSteps

-----------------------------------------------------------------------------
(* What a step does to the rows.                                           *)
Restatus(u, s) == rows[u] # NoRow /\ rows' = [rows EXCEPT ![u].status = s]

LEMMA RowSteps ==
  ASSUME TypeOK, [Next]_vars
  PROVE  \/ UNCHANGED rows /\ (UNCHANGED next \/ next' = next + 1)
         \/ \E u \in Users, s \in {"active", "banned"} : Insert(u, s)
         \/ \E w \in Workers : Remove(w) /\ UNCHANGED next
         \/ \E u \in Users, s \in {"active", "banned"} :
              Restatus(u, s) /\ UNCHANGED next
<1>1. ASSUME NEW w \in Workers, BanCommit(w)
      PROVE  Restatus(work[w].user, "banned") /\ UNCHANGED next
  BY <1>1, Read, Rowless DEF BanCommit, Restatus
<1>2. ASSUME NEW w \in Workers, ApproveCommit(w), ~Active(work[w].user),
             ~Insert(work[w].user, "active")
      PROVE  Restatus(work[w].user, "active") /\ UNCHANGED next
  BY <1>2, Read, Rowless DEF ApproveCommit, Restatus, Banned
<1>3. ASSUME NEW w \in Workers, ApproveCommit(w), Active(work[w].user)
      PROVE  UNCHANGED <<rows, next>>
  BY <1>3, Rowless DEF ApproveCommit, Active, Banned, Insert
<1>4. ASSUME NEW w \in Workers,
             JoinCommit(w) \/ InviteJoin(w) \/ BanAhead(w)
      PROVE  \E s \in {"active", "banned"} : Insert(work[w].user, s)
  BY <1>4 DEF JoinCommit, InviteJoin, BanAhead
<1>5. ASSUME NEW w \in Workers, LeaveCommit(w) \/ KickCommit(w) \/ UnbanCommit(w)
      PROVE  Remove(w) /\ UNCHANGED next
  BY <1>5 DEF LeaveCommit, KickCommit, UnbanCommit
<1>6. ASSUME \/ \E w \in Workers :
                   \/ \E op \in Ops, u \in Users : Start(w, op, u)
                   \/ JoinSent(w) \/ InviteLock(w) \/ InviteSent(w) \/ RejectCommit(w)
                   \/ TransferList(w) \/ TransferCommit(w) \/ Abort(w)
             \/ SetApproval \/ Revoke \/ UNCHANGED vars
      PROVE  UNCHANGED rows /\ (UNCHANGED next \/ next' = next + 1)
  BY <1>6 DEF vars, room, Start, JoinSent, InviteLock, InviteSent, RejectCommit,
              TransferList, TransferCommit, Abort, SetApproval, Revoke
<1>7. \A w \in Workers : work[w].user \in Users
  BY Read
<1> QED BY <1>1, <1>2, <1>3, <1>4, <1>5, <1>6, <1>7 DEF Next

LEMMA FreshStep == TypeOK /\ IdsAreFresh /\ [Next]_vars => IdsAreFresh'
<1> SUFFICES ASSUME TypeOK, IdsAreFresh, [Next]_vars PROVE IdsAreFresh' OBVIOUS
<1>0. MaxIds \in Nat /\ next \in Nat /\ next # 0 /\ \A u \in Users : rows[u].id \in Nat
  BY GroupAssumption, Rowless DEF TypeOK
<1>1. ASSUME UNCHANGED rows, UNCHANGED next \/ next' = next + 1 PROVE IdsAreFresh'
  BY <1>0, <1>1 DEF IdsAreFresh
<1>2. ASSUME NEW u \in Users, NEW s \in {"active", "banned"}, Insert(u, s)
      PROVE  IdsAreFresh'
  <2>1. /\ rows'[u].id = next /\ next' = next + 1
        /\ \A v \in Users \ {u} : rows'[v] = rows[v]
    BY <1>2 DEF Insert, TypeOK
  <2> QED BY <1>0, <2>1 DEF IdsAreFresh
<1>3. ASSUME NEW w \in Workers, Remove(w), UNCHANGED next PROVE IdsAreFresh'
  <2>1. \A v \in Users : rows'[v] = rows[v] \/ rows'[v] = NoRow
    BY <1>3, Read DEF Remove, TypeOK
  <2>2. \A u, v \in Users : rows'[u] # NoRow /\ rows'[u].id = rows'[v].id => u = v
    BY <2>1, Rowless DEF IdsAreFresh, TypeOK
  <2> QED BY <1>0, <1>3, <2>1, <2>2, Rowless DEF IdsAreFresh
<1>4. ASSUME NEW u \in Users, NEW s \in {"active", "banned"}, Restatus(u, s),
             UNCHANGED next
      PROVE  IdsAreFresh'
  <2>1. \A v \in Users : rows'[v].id = rows[v].id
    BY <1>4 DEF Restatus, TypeOK, Rows
  <2>2. \A v \in Users : rows'[v] # NoRow => rows[v] # NoRow
    BY <1>4, Rowless DEF Restatus, TypeOK
  <2> QED BY <1>4, <2>1, <2>2 DEF IdsAreFresh
<1> QED BY <1>1, <1>2, <1>3, <1>4, RowSteps

-----------------------------------------------------------------------------
(* The counter.                                                            *)
LEMMA Finite == IsFiniteSet(Members) /\ Cardinality(Members) \in Nat
<1>1. Members \in SUBSET Users
  BY DEF Members
<1> QED BY <1>1, FS_Subset, FS_CardinalityType, GroupAssumption

LEMMA MembersMove ==
  ASSUME NEW u \in Users, \A v \in Users \ {u} : rows'[v] = rows[v]
  PROVE  Cardinality(Members') =
           IF rows'[u].status = "active"
           THEN IF Active(u) THEN Cardinality(Members) ELSE Cardinality(Members) + 1
           ELSE IF Active(u) THEN Cardinality(Members) - 1 ELSE Cardinality(Members)
<1>1. CASE rows'[u].status = "active"
  <2>1. Members' = Members \union {u}
    BY <1>1 DEF Members, Active
  <2>2. Active(u) <=> u \in Members
    BY DEF Members
  <2> QED BY <1>1, <2>1, <2>2, Finite, FS_AddElement
<1>2. CASE rows'[u].status # "active"
  <2>1. Members' = Members \ {u}
    BY <1>2 DEF Members, Active
  <2>2. Active(u) <=> u \in Members
    BY DEF Members
  <2> QED BY <1>2, <2>1, <2>2, Finite, FS_RemoveElement
<1> QED BY <1>1, <1>2

(* The history only grows.                                                 *)
LEMMA Before ==
  ASSUME TypeOK, [Next]_vars
  PROVE  (stale => stale') /\ (dodged => dodged') /\ (overruled => overruled')
<1>1. ASSUME NEW w \in Workers,
             \/ LeaveCommit(w) \/ KickCommit(w) \/ BanCommit(w) \/ UnbanCommit(w)
             \/ ApproveCommit(w) \/ TransferCommit(w)
      PROVE  (stale => stale') /\ (dodged => dodged') /\ (overruled => overruled')
  <2>1. stale => stale'
    BY <1>1 DEF LeaveCommit, KickCommit, BanCommit, UnbanCommit, ApproveCommit,
                TransferCommit
  <2>2. dodged => dodged'
    BY <1>1 DEF LeaveCommit, KickCommit, BanCommit, UnbanCommit, ApproveCommit,
                TransferCommit
  <2>3. overruled => overruled'
    BY <1>1 DEF LeaveCommit, KickCommit, BanCommit, UnbanCommit, ApproveCommit,
                TransferCommit
  <2> QED BY <2>1, <2>2, <2>3
<1>2. ASSUME UNCHANGED <<stale, dodged, overruled>>
      PROVE  (stale => stale') /\ (dodged => dodged') /\ (overruled => overruled')
  BY <1>2
<1> QED
  BY <1>1, <1>2
  DEF Next, vars, history, Start, JoinCommit, JoinSent, InviteLock, InviteJoin,
      InviteSent, BanAhead, RejectCommit, TransferList, Abort, SetApproval, Revoke

(* What the commits do to the rows, in terms of the user they are about.   *)
LEMMA Inserted ==
  ASSUME TypeOK, NEW u \in Users, NEW s \in {"active", "banned"}, Insert(u, s)
  PROVE  /\ \A v \in Users \ {u} : rows'[v] = rows[v]
         /\ rows'[u].status = s /\ rows'[u].id = next
         /\ rows[u] = NoRow /\ ~Active(u) /\ ~Banned(u)
BY Rowless DEF Insert, TypeOK, Active, Banned

LEMMA Removed ==
  ASSUME TypeOK, NEW w \in Workers, NEW u \in Users, u = work[w].user, Remove(w)
  PROVE  /\ \A v \in Users \ {u} : rows'[v] = rows[v]
         /\ rows[u] = work[w].row => rows'[u] = NoRow
BY Rowless DEF Remove, TypeOK

LEMMA Relabeled ==
  ASSUME TypeOK, NEW u \in Users, NEW s \in {"active", "banned"},
         rows[u] # NoRow, rows' = [rows EXCEPT ![u].status = s]
  PROVE  /\ \A v \in Users \ {u} : rows'[v] = rows[v]
         /\ rows'[u].status = s /\ rows'[u].id = rows[u].id
BY DEF TypeOK, Rows

(* A step about a user's row keeps the counter exact if it counts him in   *)
(* when he becomes a member and out when he ceases to be one.              *)
LEMMA CountStep == TypeOK /\ WorkFits /\ CountIsExact /\ [Next]_vars => CountIsExact'
<1> SUFFICES ASSUME TypeOK, WorkFits, CountIsExact, [Next]_vars, ~stale', ~dodged'
             PROVE  count' = Cardinality(Members')
  BY DEF CountIsExact
<1>0. ~stale /\ ~dodged /\ count = Cardinality(Members) /\ count \in Nat
  BY Before, Finite DEF CountIsExact
<1>1. ASSUME NEW u \in Users, Insert(u, "active"), Raise
      PROVE  count' = Cardinality(Members')
  BY <1>0, <1>1, Inserted, MembersMove DEF Raise
<1>2. ASSUME NEW w \in Workers, NEW u \in Users, u = work[w].user, Remove(w),
             rows[u] = work[w].row, WasActive(w), Lower
      PROVE  count' = Cardinality(Members')
  <2>1. rows'[u].status # "active" /\ \A v \in Users \ {u} : rows'[v] = rows[v]
    BY <1>2, Removed, Rowless
  <2>2. Active(u)
    BY <1>2 DEF WasActive, Active
  <2> QED BY <1>0, <1>2, <2>1, <2>2, MembersMove DEF Lower
<1>3. ASSUME NEW w \in Workers, NEW u \in Users, u = work[w].user, Remove(w),
             rows[u] = work[w].row, ~WasActive(w), UNCHANGED count
      PROVE  count' = Cardinality(Members')
  <2>1. rows'[u].status # "active" /\ \A v \in Users \ {u} : rows'[v] = rows[v]
    BY <1>3, Removed, Rowless
  <2>2. ~Active(u)
    BY <1>3 DEF WasActive, Active
  <2> QED BY <1>0, <1>3, <2>1, <2>2, MembersMove
<1>4. ASSUME NEW w \in Workers, LeaveCommit(w) \/ KickCommit(w) \/ UnbanCommit(w)
      PROVE  count' = Cardinality(Members')
  <2>1. PICK u \in Users : u = work[w].user
    BY Read
  <2>2. Remove(w) /\ rows[u] = work[w].row
    BY <1>4, <2>1 DEF LeaveCommit, KickCommit, UnbanCommit, Changed
  <2>3. CASE WasActive(w)
    <3>1. ~UnbanCommit(w)
      BY <2>3 DEF UnbanCommit, Ends, WorkFits, WasActive
    <3>2. Lower
      BY <1>4, <2>3, <3>1 DEF LeaveCommit, KickCommit, Uncount
    <3> QED BY <1>2, <2>1, <2>2, <2>3, <3>2
  <2>4. CASE ~WasActive(w)
    <3>1. UNCHANGED count
      BY <1>4, <2>4 DEF LeaveCommit, KickCommit, UnbanCommit, Uncount
    <3> QED BY <1>3, <2>1, <2>2, <2>4, <3>1
  <2> QED BY <2>3, <2>4
<1>5. ASSUME NEW w \in Workers, BanCommit(w) PROVE count' = Cardinality(Members')
  <2>1. PICK u \in Users : u = work[w].user
    BY Read
  <2>2. /\ rows[u] = work[w].row /\ rows[u] # NoRow
        /\ rows' = [rows EXCEPT ![u].status = "banned"] /\ Uncount(w)
    BY <1>5, <2>1 DEF BanCommit, Changed
  <2>3. rows'[u].status = "banned" /\ \A v \in Users \ {u} : rows'[v] = rows[v]
    BY <2>2, Relabeled
  <2>4. Active(u) <=> WasActive(w)
    BY <2>2 DEF Active, WasActive
  <2> QED BY <1>0, <2>2, <2>3, <2>4, MembersMove DEF Uncount, Lower
<1>6. ASSUME NEW w \in Workers, BanAhead(w) PROVE count' = Cardinality(Members')
  <2>1. PICK u \in Users : u = work[w].user
    BY Read
  <2>2. Insert(u, "banned") /\ UNCHANGED count
    BY <1>6, <2>1 DEF BanAhead
  <2>3. /\ rows'[u].status = "banned" /\ \A v \in Users \ {u} : rows'[v] = rows[v]
        /\ ~Active(u)
    BY <2>2, Inserted
  <2> QED BY <1>0, <2>2, <2>3, MembersMove
<1>7. ASSUME NEW w \in Workers, ApproveCommit(w) PROVE count' = Cardinality(Members')
  <2>1. PICK u \in Users : u = work[w].user
    BY Read
  <2>2. CASE Banned(u) /\ Raise /\ rows' = [rows EXCEPT ![u].status = "active"]
    <3>1. rows[u] # NoRow /\ ~Active(u)
      BY <2>2, Rowless DEF Banned, Active
    <3>2. rows'[u].status = "active" /\ \A v \in Users \ {u} : rows'[v] = rows[v]
      BY <2>2, <3>1, Relabeled
    <3> QED BY <1>0, <2>2, <3>1, <3>2, MembersMove DEF Raise
  <2>3. CASE UNCHANGED <<rows, count>>
    BY <1>0, <2>3 DEF Members, Active
  <2> QED BY <1>1, <1>7, <2>1, <2>2, <2>3 DEF ApproveCommit
<1>8. ASSUME UNCHANGED <<rows, count>> PROVE count' = Cardinality(Members')
  BY <1>0, <1>8 DEF Members, Active
<1>9. ASSUME NEW w \in Workers, JoinCommit(w) \/ InviteJoin(w)
      PROVE  count' = Cardinality(Members')
  BY <1>1, <1>9, Read DEF JoinCommit, InviteJoin
<1> QED
  BY <1>4, <1>5, <1>6, <1>7, <1>8, <1>9
  DEF Next, vars, room, Start, JoinSent, InviteLock, InviteSent, RejectCommit,
      TransferList, TransferCommit, Abort, SetApproval, Revoke

-----------------------------------------------------------------------------
(* A join under the room's lock finds the count exact, and so does an      *)
(* approval that is not given over a full group.                           *)
LEMMA LimitStep ==
  TypeOK /\ WorkFits /\ CountIsExact /\ LimitHolds /\ [Next]_vars => LimitHolds'
<1> SUFFICES ASSUME TypeOK, WorkFits, CountIsExact, LimitHolds, [Next]_vars,
                    ~stale', ~dodged', ~overruled'
             PROVE  Cardinality(Members') <= MaxMembers
  BY DEF LimitHolds
<1>0. /\ count = Cardinality(Members) /\ count \in Nat /\ count <= MaxMembers
      /\ count' = Cardinality(Members') /\ MaxMembers \in Nat
  BY Before, Finite, CountStep, GroupAssumption DEF CountIsExact, LimitHolds
<1>1. ASSUME count < MaxMembers, count' = count + 1
      PROVE  Cardinality(Members') <= MaxMembers
  BY <1>0, <1>1
<1>2. ASSUME count' = count \/ count' = count - 1
      PROVE  Cardinality(Members') <= MaxMembers
  BY <1>0, <1>2
<1>3. ASSUME NEW w \in Workers, JoinCommit(w) \/ InviteJoin(w)
      PROVE  Cardinality(Members') <= MaxMembers
  <2>1. count < MaxMembers /\ count' = count + 1
    BY <1>0, <1>3 DEF JoinCommit, InviteJoin, Full, Raise
  <2> QED BY <1>1, <2>1
<1>4. ASSUME NEW w \in Workers, ApproveCommit(w)
      PROVE  Cardinality(Members') <= MaxMembers
  <2>1. Active(work[w].user) \/ ~Full
    BY <1>4 DEF ApproveCommit
  <2>2. CASE Active(work[w].user)
    <3>1. UNCHANGED count
      BY <1>4, <2>2, Rowless DEF ApproveCommit, Active, Banned, Insert
    <3> QED BY <1>2, <3>1
  <2>3. CASE ~Full
    <3>1. UNCHANGED count \/ count' = count + 1
      BY <1>4 DEF ApproveCommit, Raise
    <3> QED BY <1>0, <1>1, <1>2, <2>3, <3>1 DEF Full
  <2> QED BY <2>1, <2>2, <2>3
<1>5. ASSUME NEW w \in Workers, LeaveCommit(w) \/ KickCommit(w) \/ BanCommit(w)
      PROVE  Cardinality(Members') <= MaxMembers
  BY <1>2, <1>5 DEF LeaveCommit, KickCommit, BanCommit, Uncount, Lower
<1> QED
  BY <1>2, <1>3, <1>4, <1>5
  DEF Next, vars, room, Start, JoinSent, InviteLock, InviteSent, BanAhead,
      UnbanCommit, RejectCommit, TransferList, TransferCommit, Abort, SetApproval,
      Revoke

-----------------------------------------------------------------------------
(* The owner.                                                              *)
LEMMA OwnerStep ==
  TypeOK /\ IdsAreFresh /\ WorkFits /\ OneOwner /\ [Next]_vars => OneOwner'
<1> SUFFICES ASSUME TypeOK, IdsAreFresh, WorkFits, OneOwner, [Next]_vars, ~stale'
             PROVE  \E u \in Users : Active(u)' /\ owners' = {rows'[u].id}
  BY DEF OneOwner
<1>0. PICK o \in Users : Active(o) /\ owners = {rows[o].id}
  BY Before DEF OneOwner
<1>1. ASSUME rows'[o] = rows[o], UNCHANGED owners
      PROVE  \E u \in Users : Active(u)' /\ owners' = {rows'[u].id}
  BY <1>0, <1>1 DEF Active
<1>2. ASSUME NEW w \in Workers, NEW u \in Users, u = work[w].user, u # o, Remove(w),
             rows[u] = work[w].row
      PROVE  rows'[o] = rows[o] /\ UNCHANGED owners
  <2>1. rows[o] # NoRow
    BY <1>0, Rowless DEF Active
  <2>2. rows[o].id # rows[u].id
    BY <1>2, <2>1 DEF IdsAreFresh
  <2>3. owners' = owners
    BY <1>0, <1>2, <2>2 DEF Remove
  <2> QED BY <1>2, <2>3, Removed
<1>3. ASSUME NEW w \in Workers, LeaveCommit(w) \/ KickCommit(w) \/ UnbanCommit(w)
      PROVE  rows'[o] = rows[o] /\ UNCHANGED owners
  <2>1. PICK u \in Users : u = work[w].user
    BY Read
  <2>2. Remove(w) /\ rows[u] = work[w].row
    BY <1>3, <2>1 DEF LeaveCommit, KickCommit, UnbanCommit, Changed
  <2>3. u # o
    <3>1. CASE UnbanCommit(w)
      BY <1>0, <2>2, <3>1 DEF UnbanCommit, Ends, WorkFits, Active
    <3>2. CASE LeaveCommit(w) \/ KickCommit(w)
      BY <1>0, <2>2, <3>2 DEF LeaveCommit, KickCommit, Promoted
    <3> QED BY <1>3, <3>1, <3>2
  <2> QED BY <1>2, <2>1, <2>2, <2>3
<1>4. ASSUME NEW w \in Workers, BanCommit(w)
      PROVE  rows'[o] = rows[o] /\ UNCHANGED owners
  <2>1. PICK u \in Users : u = work[w].user
    BY Read
  <2>2. /\ rows[u] = work[w].row /\ rows[u] # NoRow /\ ~Promoted(w)
        /\ rows' = [rows EXCEPT ![u].status = "banned"] /\ UNCHANGED owners
    BY <1>4, <2>1 DEF BanCommit, Changed
  <2>3. u # o
    BY <1>0, <2>2 DEF Promoted
  <2> QED BY <2>2, <2>3, Relabeled
<1>5. ASSUME NEW w \in Workers, NEW u \in Users, NEW s \in {"active", "banned"},
             Insert(u, s)
      PROVE  rows'[o] = rows[o]
  BY <1>0, <1>5, Inserted
<1>6. ASSUME NEW w \in Workers, ApproveCommit(w)
      PROVE  rows'[o] = rows[o] /\ UNCHANGED owners
  <2>1. PICK u \in Users : u = work[w].user
    BY Read
  <2>2. CASE Banned(u) /\ rows' = [rows EXCEPT ![u].status = "active"]
    <3>1. rows[u] # NoRow /\ u # o
      BY <1>0, <2>2, Rowless DEF Banned, Active
    <3> QED BY <1>6, <2>2, <3>1, Relabeled DEF ApproveCommit
  <2> QED BY <1>5, <1>6, <2>1, <2>2 DEF ApproveCommit
<1>7. ASSUME NEW w \in Workers, TransferCommit(w)
      PROVE  \E u \in Users : Active(u)' /\ owners' = {rows'[u].id}
  <2>1. PICK u \in Users : u = work[w].user
    BY Read
  <2>2. /\ rows[u] = work[w].row /\ owners = work[w].owners /\ UNCHANGED rows
        /\ owners' = (owners \ work[w].owners) \union {work[w].row.id}
    BY <1>7, <2>1 DEF TransferCommit, Changed
  <2>3. Active(u)
    BY <1>7, <2>2 DEF TransferCommit, Ends, WorkFits, Active
  <2>4. owners' = {rows'[u].id}
    BY <2>2
  <2> QED BY <2>2, <2>3, <2>4 DEF Active
<1>8. ASSUME NEW w \in Workers, JoinCommit(w) \/ InviteJoin(w) \/ BanAhead(w)
      PROVE  rows'[o] = rows[o] /\ UNCHANGED owners
  BY <1>5, <1>8, Read DEF JoinCommit, InviteJoin, BanAhead
<1> QED
  BY <1>1, <1>3, <1>4, <1>6, <1>7, <1>8
  DEF Next, vars, room, Start, JoinSent, InviteLock, InviteSent, RejectCommit,
      TransferList, Abort, SetApproval, Revoke

-----------------------------------------------------------------------------
(* The bans.                                                               *)
LEMMA BanStep == TypeOK /\ WorkFits /\ BanHolds /\ [Next]_vars => BanHolds'
<1>a. TypeOK /\ WorkFits /\ [Next]_vars => shut' \subseteq Users
  BY TypeStep DEF TypeOK
<1> SUFFICES ASSUME TypeOK, WorkFits, BanHolds, [Next]_vars, ~stale', ~dodged',
                    NEW x \in Users, x \in shut'
             PROVE  rows'[x].status = "banned"
  BY <1>a DEF BanHolds, Banned
<1>0. x \in shut => Banned(x)
  BY Before DEF BanHolds
<1>1. ASSUME rows'[x] = rows[x], x \in shut PROVE rows'[x].status = "banned"
  BY <1>0, <1>1 DEF Banned
<1>2. ASSUME NEW w \in Workers, NEW u \in Users, u = work[w].user, Remove(w),
             rows[u] = work[w].row, x \in shut, WasActive(w) \/ x # u
      PROVE  rows'[x].status = "banned"
  <2>1. x # u
    BY <1>0, <1>2 DEF WasActive, Banned
  <2> QED BY <1>1, <1>2, <2>1, Removed
<1>3. ASSUME NEW w \in Workers, LeaveCommit(w) \/ KickCommit(w) \/ UnbanCommit(w)
      PROVE  rows'[x].status = "banned"
  <2>1. PICK u \in Users : u = work[w].user
    BY Read
  <2>2. Remove(w) /\ rows[u] = work[w].row
    BY <1>3, <2>1 DEF LeaveCommit, KickCommit, UnbanCommit, Changed
  <2>3. x \in shut /\ (WasActive(w) \/ x # u)
    BY <1>3, <2>1 DEF LeaveCommit, KickCommit, UnbanCommit
  <2> QED BY <1>2, <2>1, <2>2, <2>3
<1>4. ASSUME NEW w \in Workers, BanCommit(w) PROVE rows'[x].status = "banned"
  <2>1. PICK u \in Users : u = work[w].user
    BY Read
  <2>2. /\ rows[u] # NoRow /\ rows' = [rows EXCEPT ![u].status = "banned"]
        /\ shut' = shut \union {u}
    BY <1>4, <2>1 DEF BanCommit, Changed
  <2> QED BY <1>1, <2>2, Relabeled
<1>5. ASSUME NEW w \in Workers, BanAhead(w) PROVE rows'[x].status = "banned"
  <2>1. PICK u \in Users : u = work[w].user
    BY Read
  <2>2. Insert(u, "banned") /\ shut' = shut \union {u}
    BY <1>5, <2>1 DEF BanAhead
  <2> QED BY <1>1, <2>2, Inserted
<1>6. ASSUME NEW w \in Workers, ApproveCommit(w) PROVE rows'[x].status = "banned"
  <2>1. PICK u \in Users : u = work[w].user
    BY Read
  <2>2. x \in shut /\ x # u
    BY <1>6, <2>1 DEF ApproveCommit
  <2>3. CASE Insert(u, "active")
    BY <1>1, <2>2, <2>3, Inserted
  <2>4. CASE rows' = [rows EXCEPT ![u].status = "active"]
    BY <1>1, <2>2, <2>4
  <2> QED BY <1>1, <1>6, <2>1, <2>2, <2>3, <2>4 DEF ApproveCommit
<1>7. ASSUME NEW w \in Workers, JoinCommit(w) \/ InviteJoin(w)
      PROVE  rows'[x].status = "banned"
  <2>1. PICK u \in Users : u = work[w].user
    BY Read
  <2>2. Insert(u, "active") /\ x \in shut
    BY <1>7, <2>1 DEF JoinCommit, InviteJoin, history
  <2>3. x # u
    BY <1>0, <2>2, Inserted
  <2> QED BY <1>1, <2>2, <2>3, Inserted
<1> QED
  BY <1>1, <1>3, <1>4, <1>5, <1>6, <1>7
  DEF Next, vars, room, history, Start, JoinSent, InviteLock, InviteSent,
      RejectCommit, TransferList, TransferCommit, Abort, SetApproval, Revoke

-----------------------------------------------------------------------------
LEMMA InitIInv == Init => IInv
<1> SUFFICES ASSUME Init PROVE IInv OBVIOUS
<1>0. /\ MaxIds \in Nat \ {0} /\ MaxUses \in Nat \ {0} /\ MaxMembers \in Nat \ {0}
      /\ Founder \in Users
  BY GroupAssumption
<1>1. [id |-> 1, status |-> "active"] \in Rows /\ [id |-> 1, status |-> "active"] # NoRow
  BY <1>0 DEF Rows, NoRow
<1>2. TypeOK
  <2>1. rows \in [Users -> Rows] /\ work \in [Workers -> Jobs]
    BY <1>1, Rowless DEF Init
  <2>2. owners \in SUBSET (1..MaxIds) /\ requests \in [Users -> 0..MaxIds]
        /\ count \in 0..MaxIds /\ next \in 1..(MaxIds + 1)
    BY <1>0 DEF Init
  <2> QED BY <2>1, <2>2 DEF Init, TypeOK
<1>3. /\ rows[Founder].id = 1 /\ rows[Founder].status = "active"
      /\ \A u \in Users \ {Founder} : rows[u] = NoRow
  BY <1>0 DEF Init
<1>4. IdsAreFresh
  BY <1>3, Rowless DEF Init, IdsAreFresh
<1>5. WorkFits /\ InviteIsLocked
  BY DEF Init, Idle, WorkFits, InviteIsLocked
<1>6. Members = {Founder}
  BY <1>0, <1>3, Rowless DEF Members, Active
<1>7. Cardinality(Members) = 1
  BY <1>6, FS_Singleton
<1>8. CountIsExact /\ LimitHolds /\ OneOwner /\ BanHolds
  BY <1>0, <1>3, <1>7 DEF Init, CountIsExact, LimitHolds, OneOwner, BanHolds, Active
<1> QED BY <1>2, <1>4, <1>5, <1>8 DEF IInv

THEOREM Invariance == Spec => []IInv
<1>1. Init => IInv
  BY InitIInv
<1>2. IInv /\ [Next]_vars => IInv'
  BY TypeStep, FreshStep, WorkStep, LockStep, CountStep, LimitStep, OwnerStep, BanStep
  DEF IInv
<1> QED BY <1>1, <1>2, PTL DEF Spec

-----------------------------------------------------------------------------
(* Types: TypeOK is part of the inductive invariant.                       *)
THEOREM TypeCorrect == Spec => []TypeOK
<1>1. IInv => TypeOK
  BY DEF IInv
<1> QED BY <1>1, Invariance, PTL

(* groups/application: joins, invitations, approvals, bans and kicks that  *)
(* act on rows as they are keep member_count equal to the members.         *)
THEOREM CounterIsExact == Spec => []CountIsExact
<1>1. IInv => CountIsExact
  BY DEF IInv
<1> QED BY <1>1, Invariance, PTL

(* join_group and join_via_invite: the last place is given once.           *)
THEOREM GroupIsNotOverfull == Spec => []LimitHolds
<1>1. IInv => LimitHolds
  BY DEF IInv
<1> QED BY <1>1, Invariance, PTL

(* transfer_ownership, and the checks that spare the owner.                *)
THEOREM GroupHasOneOwner == Spec => []OneOwner
<1>1. IInv => OneOwner
  BY DEF IInv
<1> QED BY <1>1, Invariance, PTL

(* ban_member: a ban is not undone by a request that was under way.        *)
THEOREM BansHold == Spec => []BanHolds
<1>1. IInv => BanHolds
  BY DEF IInv
<1> QED BY <1>1, Invariance, PTL

(* The counter, the limit, the owner and the bans hold together.           *)
THEOREM MembershipIsSound == Spec => []MembershipHolds
  BY CounterIsExact, GroupIsNotOverfull, GroupHasOneOwner, BansHold, PTL
  DEF MembershipHolds

(* join_via_invite: the second check, with the invite locked, is the one   *)
(* that counts.                                                            *)
THEOREM InviteRespected == Spec => InviteIsRespected
<1> DEFINE Respected == uses' > uses => ~revoked /\ uses' <= MaxUses
<1>1. IInv /\ [Next]_vars => [Respected]_vars
  <2> SUFFICES ASSUME IInv, Next, uses' > uses PROVE ~revoked /\ uses' <= MaxUses
    OBVIOUS
  <2>0. uses \in Nat /\ MaxUses \in Nat
    BY GroupAssumption DEF IInv, TypeOK
  <2>1. ASSUME NEW w \in Workers, InviteJoin(w) \/ InviteSent(w)
        PROVE  ~revoked /\ uses' <= MaxUses
    <3>1. uses' = uses + 1 /\ work[w].op = "inviting"
      BY <2>1 DEF InviteJoin, InviteSent, Ends
    <3>2. ~Expired
      BY <3>1 DEF IInv, InviteIsLocked
    <3> QED BY <2>0, <3>1, <3>2 DEF Expired
  <2>2. ASSUME UNCHANGED uses PROVE FALSE
    BY <2>0, <2>2
  <2> QED
    BY <2>1, <2>2
    DEF Next, invite, Start, JoinCommit, JoinSent, InviteLock, LeaveCommit,
        KickCommit, BanCommit, BanAhead, UnbanCommit, ApproveCommit, RejectCommit,
        TransferList, TransferCommit, Abort, SetApproval, Revoke
<1> QED BY <1>1, Invariance, PTL DEF Spec, InviteIsRespected
=============================================================================
