--------------------------- MODULE ReadStateProofs ---------------------------
(***************************************************************************)
(* Proofs about ReadState for every number of users, workers and ids.      *)
(*                                                                         *)
(* The invariants of ReadState speak about committed rows.  They are       *)
(* inductive only together with what a request in flight knows: the row    *)
(* lock makes its view of the cursor stay true until the commit.           *)
(***************************************************************************)
EXTENDS ReadState, TLAPS

Used(m) == status[m] # "free"

(* The sequence has no holes: below a used id every id is used. *)
IdsInOrder == \A m, n \in Ids : Used(m) /\ n < m => Used(n)

(* At most one transaction holds the row of a user. *)
OneMarker ==
  \A v, w \in Workers :
    /\ req[v].pc = "marking"
    /\ req[w].pc = "marking"
    /\ req[v].user = req[w].user
    => v = w

(* Requests name ids that the sequence has handed out. *)
RequestsUseIds ==
  \A w \in Workers :
    /\ req[w].pc \in {"checked", "marking"} => req[w].arg \in Ids
    /\ req[w].arg \in Ids => Used(req[w].arg)
    /\ req[w].next \in Ids => Used(req[w].next)
    /\ \A m \in req[w].ids : Used(m)

(* What a transaction that marks read has read is still so. *)
MarkerKnows(w) ==
  LET u == req[w].user
  IN  /\ cursor[u] <= req[w].next
      /\ 1 <= req[w].next
      /\ \A m \in req[w].ids :
           m <= req[w].arg /\ m <= req[w].next /\ author[m] # u
      /\ \A m \in Live :
           /\ LastRead(u) < m
           /\ m <= req[w].next
           /\ author[m] # u
           /\ <<m, u>> \notin late
           => m \in req[w].ids

MarkersKnow == \A w \in Workers : req[w].pc = "marking" => MarkerKnows(w)

(* A receipt never lies above the cursor of its reader, unless a deletion  *)
(* has taken that cursor away.                                             *)
ReceiptsBelowCursor ==
  \A m \in Ids, u \in Users :
    <<m, u>> \in receipts => u \in nulled \/ m <= cursor[u]

IInv ==
  /\ TypeOK
  /\ NoDangling
  /\ IdsInOrder
  /\ OneMarker
  /\ RequestsUseIds
  /\ MarkersKnow
  /\ ReceiptsAreEarned
  /\ ReceiptsBelowCursor
  /\ ReceiptsHaveNoGap

------------------------------------------------------------------------------
(* Type correctness *)

LEMMA AnyUserIsUser == AnyUser \in Users
  BY ReadStateAssumption DEF AnyUser

LEMMA RequestType ==
  ASSUME NEW step \in Steps, NEW u \in Users, NEW m \in 0..MaxId, NEW n \in 0..(MaxTries - 1)
  PROVE  Request(step, u, m, n) \in Requests
  BY ReadStateAssumption DEF Request, Requests

LEMMA NextTry ==
  ASSUME NEW n \in 0..(MaxTries - 1), n # MaxTries - 1
  PROVE  n + 1 \in 0..(MaxTries - 1)
  BY ReadStateAssumption

LEMMA IdleIsRequest == Idle \in Requests
<1>1. 0 \in 0..MaxId /\ 0 \in 0..(MaxTries - 1) /\ "idle" \in Steps
  BY ReadStateAssumption DEF Steps
<1> QED
  BY <1>1, AnyUserIsUser, RequestType DEF Idle

LEMMA RequestFields ==
  ASSUME TypeOK, NEW w \in Workers
  PROVE  /\ req[w].pc \in Steps
         /\ req[w].user \in Users
         /\ req[w].arg \in 0..MaxId
         /\ req[w].next \in 0..MaxId
         /\ req[w].ids \in SUBSET Ids
         /\ req[w].tries \in 0..(MaxTries - 1)
  BY DEF TypeOK, Requests

LEMMA InitType == Init => TypeOK
  BY ReadStateAssumption, AnyUserIsUser, IdleIsRequest
     DEF Init, TypeOK, Ids, NoRow, NoMessage

LEMMA NextType == TypeOK /\ [Next]_vars => TypeOK'
<1> SUFFICES ASSUME TypeOK, [Next]_vars PROVE TypeOK'
  OBVIOUS
<1> USE ReadStateAssumption, AnyUserIsUser, IdleIsRequest DEF TypeOK, Ids, NoRow, NoMessage
<1>1. ASSUME NEW u \in Users, NEW m \in Ids, SaveMessage(u, m) PROVE TypeOK'
  BY <1>1 DEF SaveMessage, history
<1>2. ASSUME NEW u \in Users, NEW m \in Ids, InsertOpen(u, m) PROVE TypeOK'
  BY <1>2 DEF InsertOpen, history
<1>3. ASSUME NEW u \in Users, NEW m \in Ids, Delete(u, m) PROVE TypeOK'
  BY <1>3 DEF Delete
<1>4. ASSUME NEW m \in Ids, CommitOpen(m) PROVE TypeOK'
  <2>1. {<<m, u>> : u \in {v \in Users : Passed(v, m)}} \subseteq Ids \X Users
    OBVIOUS
  <2>2. late' \subseteq Ids \X Users
    BY <1>4, <2>1 DEF CommitOpen
  <2> QED
    BY <1>4, <2>2 DEF CommitOpen
<1>5. ASSUME NEW m \in Ids, RollbackOpen(m) PROVE TypeOK'
  BY <1>5 DEF RollbackOpen, history
<1>6. ASSUME NEW w \in Workers, NEW u \in Users, VisitLookup(w, u) PROVE TypeOK'
  <2>1. PICK m \in Ids \union {NoMessage} :
          req' = [req EXCEPT ![w] = Request("visiting", u, m, 0)]
    BY <1>6 DEF VisitLookup
  <2>2. Request("visiting", u, m, 0) \in Requests
    BY RequestType DEF Steps
  <2> QED
    BY <1>6, <2>1, <2>2 DEF VisitLookup, dbVars, history
<1>7. ASSUME NEW w \in Workers, NEW u \in Users, NEW m \in Ids, MarkReadCheck(w, u, m)
      PROVE TypeOK'
  <2>1. Request("checked", u, m, 0) \in Requests
    BY RequestType DEF Steps
  <2> QED
    BY <1>7, <2>1 DEF MarkReadCheck, dbVars, history
<1>8. ASSUME NEW w \in Workers, MarkReadLock(w) PROVE TypeOK'
  <2> DEFINE u == req[w].user
             m == req[w].arg
             ids == ForeignIn(u, LastRead(u), Advance(u, m))
             r == [req[w] EXCEPT !.pc = "marking", !.next = Advance(u, m), !.ids = ids]
  <2>1. u \in Users /\ m \in 0..MaxId
    BY RequestFields
  <2>2. LastRead(u) \in 0..MaxId
    BY <2>1 DEF LastRead
  <2>3. Advance(u, m) \in 0..MaxId
    BY <2>1, <2>2 DEF Advance
  <2>4. ids \in SUBSET Ids
    BY DEF ForeignIn, Live
  <2>5. r \in Requests
    <3> HIDE DEF u, m, ids
    <3> QED
      BY <2>3, <2>4 DEF Requests, Steps
  <2>6. req' = [req EXCEPT ![w] = r]
    BY <1>8 DEF MarkReadLock
  <2>7. req' \in [Workers -> Requests]
    BY <2>5, <2>6
  <2> QED
    BY <1>8, <2>7 DEF MarkReadLock, dbVars, history
<1>9. ASSUME NEW w \in Workers, MarkReadCommit(w) PROVE TypeOK'
  <2> DEFINE u == req[w].user
  <2>1. u \in Users /\ req[w].arg \in 0..MaxId /\ req[w].ids \in SUBSET Ids
    BY RequestFields
  <2>2. req[w].next \in Ids
    BY <1>9 DEF MarkReadCommit, KeysHold, Live
  <2>3. cursor' \in [Users -> {NoRow, NoMessage} \union Ids]
    BY <1>9, <2>1, <2>2 DEF MarkReadCommit
  <2>4. receipts' \subseteq Ids \X Users
    BY <1>9, <2>1 DEF MarkReadCommit
  <2>5. marked' \in [Users -> 0..MaxId]
    BY <1>9, <2>1 DEF MarkReadCommit
  <2>6. req' \in [Workers -> Requests]
    BY <1>9 DEF MarkReadCommit
  <2> QED
    BY <1>9, <2>3, <2>4, <2>5, <2>6 DEF MarkReadCommit
<1>10. ASSUME NEW w \in Workers, MarkReadReject(w) PROVE TypeOK'
  BY <1>10 DEF MarkReadReject, dbVars, history
<1>11. ASSUME NEW w \in Workers, MarkReadRetry(w) PROVE TypeOK'
  <2> DEFINE r == req[w]
  <2>1. ASSUME ~LastTry(w)
        PROVE Request("checked", r.user, r.arg, r.tries + 1) \in Requests
    <3>1. r.user \in Users /\ r.arg \in 0..MaxId /\ r.tries \in 0..(MaxTries - 1)
      BY RequestFields
    <3>2. r.tries # MaxTries - 1
      BY <2>1 DEF LastTry
    <3>3. r.tries + 1 \in 0..(MaxTries - 1)
      BY <3>1, <3>2, NextTry
    <3> QED
      BY <3>1, <3>3, RequestType DEF Steps
  <2>2. req' \in [Workers -> Requests]
    BY <1>11, <2>1 DEF MarkReadRetry
  <2> QED
    BY <1>11, <2>2 DEF MarkReadRetry, dbVars, history
<1>12. ASSUME NEW w \in Workers, VisitCreate(w) PROVE TypeOK'
  BY <1>12 DEF VisitCreate, Live, Requests
<1>13. ASSUME NEW w \in Workers, VisitDone(w) PROVE TypeOK'
  BY <1>13 DEF VisitDone, dbVars, history
<1>14. CASE UNCHANGED vars
  BY <1>14 DEF vars, dbVars, history
<1> QED
  BY <1>1, <1>2, <1>3, <1>4, <1>5, <1>6, <1>7, <1>8, <1>9, <1>10, <1>11, <1>12, <1>13, <1>14
     DEF Next, Serve

(* Every variable keeps its type in every behaviour of the read-state      *)
(* tables and of the requests on them.                                     *)
THEOREM TypeCorrect == Spec => []TypeOK
  BY InitType, NextType, PTL DEF Spec

------------------------------------------------------------------------------
(* The inductive invariant *)

LEMMA InitInv == Init => IInv
<1> SUFFICES ASSUME Init PROVE IInv
  OBVIOUS
<1>1. TypeOK
  BY InitType
<1>2. \A w \in Workers : req[w] = Idle
  BY DEF Init
<1>3. Idle.pc = "idle" /\ Idle.next = 0 /\ Idle.arg = 0 /\ Idle.ids = {}
  BY DEF Idle, Request
<1>4. NoDangling /\ ReceiptsAreEarned /\ ReceiptsBelowCursor /\ ReceiptsHaveNoGap
  BY DEF Init, NoDangling, ReceiptsAreEarned, ReceiptsBelowCursor, ReceiptsHaveNoGap,
         Ids, NoRow, Live
<1>5. IdsInOrder
  BY DEF Init, IdsInOrder, Used
<1>6. OneMarker /\ MarkersKnow
  BY <1>2, <1>3 DEF OneMarker, MarkersKnow
<1>7. RequestsUseIds
  BY <1>2, <1>3 DEF RequestsUseIds, Ids
<1> QED
  BY <1>1, <1>4, <1>5, <1>6, <1>7 DEF IInv

(* A step that only gives a worker another request, and no open marking.   *)
LEMMA RequestOnly ==
  ASSUME IInv, TypeOK', UNCHANGED <<dbVars, history>>,
         NEW w \in Workers, NEW r,
         req' = [req EXCEPT ![w] = r],
         r.pc # "marking", r.next = 0, r.ids = {},
         r.pc = "checked" => r.arg \in Ids, r.arg \in Ids => Used(r.arg)
  PROVE  IInv'
<1> USE DEF IInv
<1>1. req'[w] = r /\ \A v \in Workers : v # w => req'[v] = req[v]
  BY DEF TypeOK
<1>2. NoDangling' /\ IdsInOrder' /\ ReceiptsAreEarned' /\ ReceiptsBelowCursor' /\ ReceiptsHaveNoGap'
  BY DEF dbVars, history, NoDangling, IdsInOrder, Used, ReceiptsAreEarned,
         ReceiptsBelowCursor, ReceiptsHaveNoGap, Live
<1>3. OneMarker'
  BY <1>1 DEF OneMarker
<1>4. RequestsUseIds'
  BY <1>1 DEF RequestsUseIds, Used, dbVars, Ids
<1>5. MarkersKnow'
  <2> SUFFICES ASSUME NEW v \in Workers, req'[v].pc = "marking" PROVE MarkerKnows(v)'
    BY DEF MarkersKnow
  <2>1. v # w /\ req'[v] = req[v]
    BY <1>1
  <2>2. MarkerKnows(v)
    BY <2>1 DEF MarkersKnow
  <2> QED
    BY <2>1, <2>2 DEF MarkerKnows, Live, LastRead, dbVars, history
<1> QED
  BY <1>2, <1>3, <1>4, <1>5

LEMMA CursorsAreNumbers ==
  ASSUME TypeOK
  PROVE  \A u \in Users : cursor[u] \in Int /\ NoRow <= cursor[u]
<1> SUFFICES ASSUME NEW u \in Users PROVE cursor[u] \in Int /\ NoRow <= cursor[u]
  OBVIOUS
<1>1. cursor[u] \in {NoRow, NoMessage} \union Ids
  BY DEF TypeOK
<1> QED
  BY <1>1 DEF NoRow, NoMessage, Ids

LEMMA IdleFields == Idle.pc = "idle" /\ Idle.next = 0 /\ Idle.arg = 0 /\ Idle.ids = {}
  BY DEF Idle, Request

LEMMA NewMessageInv ==
  ASSUME IInv, TypeOK', NEW m \in Ids, NEW u \in Users, NextId(m),
         NEW s \in {"open", "live"},
         status' = [status EXCEPT ![m] = s],
         author' = [author EXCEPT ![m] = u],
         UNCHANGED <<cursor, receipts, req, history>>
  PROVE  IInv'
<1> USE DEF IInv, Ids
<1>1. ~Used(m) /\ \A n \in Ids : Used(n) => n < m
  BY DEF NextId, Used, IdsInOrder
<1>2. \A n \in Ids : n # m => status'[n] = status[n] /\ author'[n] = author[n]
  BY DEF TypeOK
<1>3. status'[m] = s
  BY DEF TypeOK
<1>4. \A n \in Live : Used(n) /\ n < m /\ n \in Live'
  BY <1>1, <1>2 DEF Live, Used
<1>5. Live' \subseteq Live \union {m}
  BY <1>2 DEF Live
<1>6. NoDangling'
  BY <1>4 DEF NoDangling
<1>7. IdsInOrder'
  BY <1>1, <1>2, <1>3 DEF IdsInOrder, Used, NextId
<1>8. OneMarker'
  BY DEF OneMarker
<1>9. RequestsUseIds'
  <2>1. \A n \in Ids : Used(n) => Used(n)'
    BY <1>2, <1>3 DEF Used
  <2>2. \A w \in Workers : req[w].ids \subseteq Ids
    BY RequestFields
  <2> QED
    BY <2>1, <2>2 DEF RequestsUseIds
<1>10. ReceiptsAreEarned' /\ ReceiptsBelowCursor'
  BY <1>2, <1>4 DEF ReceiptsAreEarned, ReceiptsBelowCursor, NoDangling, history
<1>11. \A v \in Users : cursor[v] < m
  <2> SUFFICES ASSUME NEW v \in Users PROVE cursor[v] < m
    OBVIOUS
  <2>1. CASE cursor[v] \in Ids
    BY <2>1, <1>4 DEF NoDangling
  <2>2. CASE cursor[v] \in {NoRow, NoMessage}
    BY <2>2 DEF NoRow, NoMessage
  <2> QED
    BY <2>1, <2>2 DEF TypeOK
<1>12. ReceiptsHaveNoGap'
  <2> SUFFICES ASSUME NEW n \in Live', NEW v \in Users,
                      baseline[v] < n, n <= cursor[v], author'[n] # v, <<n, v>> \notin late
               PROVE  <<n, v>> \in receipts
    BY DEF ReceiptsHaveNoGap, history
  <2>1. n \in Ids /\ n # m
    <3>1. n \in Ids /\ cursor[v] \in Int /\ cursor[v] < m
      BY <1>11 DEF Live, TypeOK, NoRow, NoMessage
    <3> QED
      BY <3>1
  <2>2. n \in Live /\ author[n] # v
    BY <1>2, <1>5, <2>1
  <2> QED
    BY <2>2 DEF ReceiptsHaveNoGap
<1>13. MarkersKnow'
  <2> SUFFICES ASSUME NEW w \in Workers, req[w].pc = "marking" PROVE MarkerKnows(w)'
    BY DEF MarkersKnow
  <2>1. MarkerKnows(w) /\ req[w].next \in 0..MaxId /\ req[w].user \in Users /\ req[w].ids \subseteq Ids
    BY RequestFields DEF MarkersKnow
  <2>2. req[w].next < m
    BY <1>1, <2>1 DEF RequestsUseIds, MarkerKnows
  <2>3. \A n \in req[w].ids : n # m
    BY <1>1 DEF RequestsUseIds
  <2> QED
    BY <1>2, <1>5, <2>1, <2>2, <2>3 DEF MarkerKnows, LastRead, history, Live
<1> QED
  BY <1>6, <1>7, <1>8, <1>9, <1>10, <1>12, <1>13
LEMMA CommitOpenInv ==
  ASSUME IInv, TypeOK', NEW m \in Ids, CommitOpen(m)
  PROVE  IInv'
<1> USE DEF IInv
<1>1. status'[m] = "live" /\ status[m] = "open" /\ \A n \in Ids : n # m => status'[n] = status[n]
  BY DEF CommitOpen, TypeOK
<1>2. Live' = Live \union {m}
  BY <1>1 DEF Live
<1>3. UNCHANGED <<author, cursor, receipts, req, marked, baseline, nulled>>
  BY DEF CommitOpen
<1>4. late \subseteq late' /\ \A v \in Users : Passed(v, m) => <<m, v>> \in late'
  BY DEF CommitOpen
<1>5. NoDangling' /\ OneMarker' /\ ReceiptsAreEarned' /\ ReceiptsBelowCursor'
  BY <1>2, <1>3 DEF NoDangling, OneMarker, ReceiptsAreEarned, ReceiptsBelowCursor
<1>6. \A n \in Ids : Used(n)' <=> Used(n)
  BY <1>1 DEF Used
<1>7. IdsInOrder'
  BY <1>6 DEF IdsInOrder
<1>8. RequestsUseIds'
  <2>1. \A w \in Workers : req[w].ids \subseteq Ids
    BY RequestFields
  <2> QED
    BY <1>3, <1>6, <2>1 DEF RequestsUseIds
<1>9. ReceiptsHaveNoGap'
  <2> SUFFICES ASSUME NEW n \in Live', NEW v \in Users,
                      baseline[v] < n, n <= cursor[v], author[n] # v, <<n, v>> \notin late'
               PROVE  <<n, v>> \in receipts
    BY <1>3 DEF ReceiptsHaveNoGap
  <2>1. CASE n = m
    <3>1. cursor[v] >= m
      BY <2>1 DEF TypeOK, NoRow, NoMessage, Ids
    <3> QED
      BY <1>4, <2>1, <3>1 DEF Passed
  <2>2. CASE n \in Live
    BY <1>4, <2>2 DEF ReceiptsHaveNoGap
  <2> QED
    BY <1>2, <2>1, <2>2
<1>10. MarkersKnow'
  <2> SUFFICES ASSUME NEW w \in Workers, req[w].pc = "marking" PROVE MarkerKnows(w)'
    BY <1>3 DEF MarkersKnow
  <2> DEFINE u == req[w].user
  <2>1. MarkerKnows(w) /\ u \in Users /\ req[w].next \in 0..MaxId
    BY RequestFields DEF MarkersKnow
  <2>2. ASSUME m <= req[w].next PROVE <<m, u>> \in late'
    BY <1>4, <2>1, <2>2 DEF Passed, Ids
  <2>3. \A n \in Live' :
           LastRead(u) < n /\ n <= req[w].next /\ author[n] # u /\ <<n, u>> \notin late'
           => n \in req[w].ids
    BY <1>2, <1>4, <2>1, <2>2 DEF MarkerKnows
  <2> QED
    BY <1>3, <2>1, <2>3 DEF MarkerKnows, LastRead
<1> QED
  BY <1>5, <1>7, <1>8, <1>9, <1>10

LEMMA RollbackOpenInv ==
  ASSUME IInv, TypeOK', NEW m \in Ids, RollbackOpen(m)
  PROVE  IInv'
<1> USE DEF IInv
<1>1. status'[m] = "gone" /\ status[m] = "open" /\ \A n \in Ids : n # m => status'[n] = status[n]
  BY DEF RollbackOpen, TypeOK
<1>2. Live' = Live
  BY <1>1 DEF Live
<1>3. UNCHANGED <<author, cursor, receipts, req, history>>
  BY DEF RollbackOpen
<1>4. \A n \in Ids : Used(n)' <=> Used(n)
  BY <1>1 DEF Used
<1>5. NoDangling' /\ OneMarker' /\ ReceiptsAreEarned' /\ ReceiptsBelowCursor' /\ ReceiptsHaveNoGap'
  BY <1>2, <1>3 DEF NoDangling, OneMarker, ReceiptsAreEarned, ReceiptsBelowCursor,
                    ReceiptsHaveNoGap, history
<1>6. IdsInOrder'
  BY <1>4 DEF IdsInOrder
<1>7. RequestsUseIds'
  <2>1. \A w \in Workers : req[w].ids \subseteq Ids
    BY RequestFields
  <2> QED
    BY <1>3, <1>4, <2>1 DEF RequestsUseIds
<1>8. MarkersKnow'
  BY <1>2, <1>3 DEF MarkersKnow, MarkerKnows, LastRead, history
<1> QED
  BY <1>5, <1>6, <1>7, <1>8

LEMMA DeleteInv ==
  ASSUME IInv, TypeOK', NEW actor \in Users, NEW m \in Ids, Delete(actor, m)
  PROVE  IInv'
<1> USE DEF IInv
<1>1. status'[m] = "gone" /\ status[m] = "live" /\ \A n \in Ids : n # m => status'[n] = status[n]
  BY DEF Delete, TypeOK, Live
<1>2. Live' = Live \ {m}
  BY <1>1 DEF Live
<1>3. UNCHANGED <<author, req, marked, baseline, late>>
  BY DEF Delete
<1>4. \A n \in Ids, v \in Users : <<n, v>> \in receipts' <=> n # m /\ <<n, v>> \in receipts
  BY DEF Delete
<1>5. \A v \in Users : cursor'[v] = IF cursor[v] = m THEN NoMessage ELSE cursor[v]
  BY DEF Delete
<1>6. nulled' = nulled \union {v \in Users : cursor[v] = m}
  BY DEF Delete
<1>7. \A n \in Ids : Used(n)' <=> Used(n)
  BY <1>1 DEF Used
<1>8. NoDangling'
  BY <1>2, <1>4, <1>5 DEF NoDangling, NoMessage, Ids
<1>9. IdsInOrder'
  BY <1>7 DEF IdsInOrder
<1>10. OneMarker' /\ ReceiptsAreEarned'
  BY <1>3, <1>4 DEF OneMarker, ReceiptsAreEarned
<1>11. RequestsUseIds'
  <2>1. \A w \in Workers : req[w].ids \subseteq Ids
    BY RequestFields
  <2> QED
    BY <1>3, <1>7, <2>1 DEF RequestsUseIds
<1>12. ReceiptsBelowCursor'
  BY <1>4, <1>5, <1>6 DEF ReceiptsBelowCursor
<1>13. ReceiptsHaveNoGap'
  <2> SUFFICES ASSUME NEW n \in Live', NEW v \in Users,
                      baseline[v] < n, n <= cursor'[v], author[n] # v, <<n, v>> \notin late
               PROVE  <<n, v>> \in receipts'
    BY <1>3 DEF ReceiptsHaveNoGap
  <2>1. n \in Live /\ n # m /\ n \in Ids
    BY <1>2 DEF Live
  <2>2. cursor[v] # m
    BY <1>5, <2>1 DEF NoMessage, Ids
  <2> QED
    BY <1>4, <1>5, <2>1, <2>2 DEF ReceiptsHaveNoGap
<1>14. MarkersKnow'
  <2> SUFFICES ASSUME NEW w \in Workers, req[w].pc = "marking" PROVE MarkerKnows(w)'
    BY <1>3 DEF MarkersKnow
  <2> DEFINE u == req[w].user
  <2>1. MarkerKnows(w) /\ u \in Users
    BY RequestFields DEF MarkersKnow
  <2>2. cursor'[u] = cursor[u]
    BY <1>5, <2>1 DEF Delete, Locked
  <2> QED
    BY <1>2, <1>3, <2>1, <2>2 DEF MarkerKnows, LastRead
<1> QED
  BY <1>8, <1>9, <1>10, <1>11, <1>12, <1>13, <1>14
LEMMA MarkReadLockInv ==
  ASSUME IInv, TypeOK', NEW w \in Workers, MarkReadLock(w)
  PROVE  IInv'
<1> USE DEF IInv
<1> DEFINE u == req[w].user
           m == req[w].arg
           next == Advance(u, m)
           ids == ForeignIn(u, LastRead(u), next)
<1>1. u \in Users /\ m \in Ids /\ Used(m) /\ LastRead(u) \in 0..MaxId /\ cursor[u] <= LastRead(u)
  <2>1. u \in Users
    BY RequestFields
  <2>2. m \in Ids /\ Used(m)
    BY DEF MarkReadLock, RequestsUseIds
  <2>3. cursor[u] \in {NoRow, NoMessage} \union Ids
    BY <2>1 DEF TypeOK
  <2>4. LastRead(u) \in 0..MaxId /\ cursor[u] <= LastRead(u)
    BY <2>3, ReadStateAssumption DEF LastRead, NoRow, NoMessage, Ids
  <2> QED
    BY <2>1, <2>2, <2>4
<1>2. /\ req'[w].pc = "marking" /\ req'[w].user = u /\ req'[w].arg = m
      /\ req'[w].next = next /\ req'[w].ids = ids
      /\ \A v \in Workers : v # w => req'[v] = req[v]
  BY DEF MarkReadLock, TypeOK, Requests
<1>3. UNCHANGED <<dbVars, history>>
  BY DEF MarkReadLock
<1>4. NoDangling' /\ IdsInOrder' /\ ReceiptsAreEarned' /\ ReceiptsBelowCursor' /\ ReceiptsHaveNoGap'
  BY <1>3 DEF dbVars, history, NoDangling, IdsInOrder, Used, ReceiptsAreEarned,
              ReceiptsBelowCursor, ReceiptsHaveNoGap, Live
<1>5. OneMarker'
  <2>1. \A v \in Workers : v # w /\ req[v].pc = "marking" => req[v].user # u
    BY DEF MarkReadLock, Locked
  <2> HIDE DEF u, m, next, ids
  <2> QED
    BY <1>2, <2>1 DEF OneMarker
<1>6. next \in Ids /\ LastRead(u) <= next /\ Used(next)
  <2>1. CASE m > LastRead(u)
    BY <1>1, <2>1 DEF Advance, Ids
  <2>2. CASE ~(m > LastRead(u))
    <3>1. next = LastRead(u) /\ LastRead(u) \in Ids
      BY <1>1, <2>2 DEF Advance, Ids
    <3>2. cursor[u] = LastRead(u)
      BY <3>1 DEF LastRead, Ids
    <3> QED
      BY <1>1, <3>1, <3>2 DEF NoDangling, Live, Used, Ids
  <2> QED
    BY <2>1, <2>2
<1>7. \A n \in ids : n \in Live /\ LastRead(u) < n /\ n <= next /\ author[n] # u
  BY DEF ForeignIn
<1>8. \A n \in ids : n <= m
  BY <1>1, <1>7 DEF Advance, Live, Ids
<1>9. RequestsUseIds'
  <2> SUFFICES ASSUME NEW v \in Workers
               PROVE  /\ req'[v].pc \in {"checked", "marking"} => req'[v].arg \in Ids
                      /\ req'[v].arg \in Ids => Used(req'[v].arg)
                      /\ req'[v].next \in Ids => Used(req'[v].next)
                      /\ \A n \in req'[v].ids : Used(n)
    BY <1>3 DEF RequestsUseIds, Used, dbVars
  <2>1. CASE v = w
    <3>1. \A n \in ids : Used(n)
      BY <1>7 DEF Live, Used
    <3> QED
      BY <1>1, <1>2, <1>6, <2>1, <3>1
  <2>2. CASE v # w
    BY <1>2, <2>2 DEF RequestsUseIds
  <2> QED
    BY <2>1, <2>2
<1>10. MarkersKnow'
  <2> SUFFICES ASSUME NEW v \in Workers, req'[v].pc = "marking" PROVE MarkerKnows(v)'
    BY DEF MarkersKnow
  <2>1. CASE v = w
    <3>1. cursor[u] <= next /\ 1 <= next
      <4>1. cursor[u] \in {NoRow, NoMessage} \union Ids
        BY <1>1 DEF TypeOK
      <4> HIDE DEF u, m, next, ids
      <4> QED
        BY <1>1, <1>6, <4>1 DEF Ids, NoRow, NoMessage
    <3>2. \A n \in Live : LastRead(u) < n /\ n <= next /\ author[n] # u => n \in ids
      BY DEF ForeignIn
    <3>3. Live' = Live /\ LastRead(u)' = LastRead(u)
      BY <1>2, <1>3 DEF Live, LastRead, dbVars
    <3> HIDE DEF u, m, next, ids
    <3> QED
      BY <1>2, <1>3, <1>7, <1>8, <2>1, <3>1, <3>2, <3>3 DEF MarkerKnows, LastRead, dbVars, history
  <2>2. CASE v # w
    <3>1. req'[v] = req[v] /\ MarkerKnows(v)
      BY <1>2, <2>2 DEF MarkersKnow
    <3> QED
      BY <1>3, <3>1 DEF MarkerKnows, Live, LastRead, dbVars, history
  <2> QED
    BY <2>1, <2>2
<1> QED
  BY <1>4, <1>5, <1>9, <1>10
LEMMA MarkReadCommitInv ==
  ASSUME IInv, TypeOK', NEW w \in Workers, MarkReadCommit(w)
  PROVE  /\ IInv'
         /\ \A v \in Users : cursor[v] <= cursor'[v]
<1> USE DEF IInv
<1> DEFINE u == req[w].user
           next == req[w].next
           ids == req[w].ids
<1>1. u \in Users /\ next \in Ids /\ next \in Live /\ ids \subseteq Live /\ req[w].arg \in Ids
  BY RequestFields DEF MarkReadCommit, KeysHold, Live, RequestsUseIds
<1>2. MarkerKnows(w)
  BY DEF MarkReadCommit, MarkersKnow
<1>3. cursor'[u] = next /\ \A v \in Users : v # u => cursor'[v] = cursor[v]
  BY <1>1 DEF MarkReadCommit, TypeOK
<1>4. receipts' = receipts \union {<<n, u>> : n \in ids}
  BY DEF MarkReadCommit
<1>5. UNCHANGED <<status, author, baseline, nulled, late>>
  BY DEF MarkReadCommit
<1>6. /\ req'[w] = Idle
      /\ \A v \in Workers : v # w => req'[v] = req[v]
  BY DEF MarkReadCommit, TypeOK
<1>7. Live' = Live
  BY <1>5 DEF Live
<1>8. cursor[u] \in Int /\ cursor[u] <= next /\ \A v \in Users : cursor[v] \in Int
  BY <1>1, <1>2, CursorsAreNumbers DEF MarkerKnows
<1>9. NoDangling'
  <2> SUFFICES ASSUME NEW v \in Users
               PROVE  /\ cursor'[v] \in Ids => cursor'[v] \in Live
                      /\ \A n \in Ids : <<n, v>> \in receipts' => n \in Live
    BY <1>7 DEF NoDangling
  <2> QED
    BY <1>1, <1>3, <1>4 DEF NoDangling
<1>10. IdsInOrder'
  BY <1>5 DEF IdsInOrder, Used
<1>11. OneMarker'
  BY <1>6, IdleFields DEF OneMarker
<1>12. RequestsUseIds'
  BY <1>5, <1>6, IdleFields DEF RequestsUseIds, Used, Ids
<1>13. marked'[u] >= req[w].arg /\ \A v \in Users : marked[v] <= marked'[v]
  BY <1>1 DEF MarkReadCommit, TypeOK, Ids
<1>14. ReceiptsAreEarned'
  <2> SUFFICES ASSUME NEW n \in Ids, NEW v \in Users, <<n, v>> \in receipts'
               PROVE  n <= marked'[v] /\ author[n] # v
    BY <1>5 DEF ReceiptsAreEarned
  <2>1. CASE <<n, v>> \in receipts
    <3>1. n <= marked[v] /\ author[n] # v
      BY <2>1 DEF ReceiptsAreEarned
    <3>2. marked[v] \in Int /\ marked'[v] \in Int
      BY DEF TypeOK
    <3> QED
      BY <1>13, <3>1, <3>2 DEF Ids
  <2>2. CASE n \in ids /\ v = u
    <3>1. n <= req[w].arg /\ author[n] # v
      BY <1>2, <2>2 DEF MarkerKnows
    <3>2. marked'[u] \in Int
      BY <1>1 DEF TypeOK
    <3> QED
      BY <1>1, <1>13, <2>2, <3>1, <3>2 DEF Ids
  <2> QED
    BY <1>4, <2>1, <2>2
<1>15. ReceiptsBelowCursor'
  <2> SUFFICES ASSUME NEW n \in Ids, NEW v \in Users, <<n, v>> \in receipts'
               PROVE  v \in nulled \/ n <= cursor'[v]
    BY <1>5 DEF ReceiptsBelowCursor
  <2>1. CASE <<n, v>> \in receipts
    BY <1>1, <1>3, <1>8, <2>1 DEF ReceiptsBelowCursor, Ids
  <2>2. CASE n \in ids /\ v = u
    BY <1>2, <1>3, <2>2 DEF MarkerKnows
  <2> QED
    BY <1>4, <2>1, <2>2
<1>16. ReceiptsHaveNoGap'
  <2> SUFFICES ASSUME NEW n \in Live, NEW v \in Users,
                      baseline[v] < n, n <= cursor'[v], author[n] # v, <<n, v>> \notin late
               PROVE  <<n, v>> \in receipts'
    BY <1>5, <1>7 DEF ReceiptsHaveNoGap
  <2>1. CASE v # u \/ n <= cursor[u]
    BY <1>3, <1>4, <2>1 DEF ReceiptsHaveNoGap
  <2>2. CASE v = u /\ ~(n <= cursor[u])
    <3>1. n \in Ids /\ LastRead(u) < n
      BY <1>8, <2>2 DEF LastRead, Live, Ids
    <3>2. n \in ids
      BY <1>2, <1>3, <2>2, <3>1 DEF MarkerKnows
    <3> QED
      BY <1>4, <2>2, <3>2
  <2> QED
    BY <2>1, <2>2
<1>17. MarkersKnow'
  <2> SUFFICES ASSUME NEW v \in Workers, req'[v].pc = "marking" PROVE MarkerKnows(v)'
    BY DEF MarkersKnow
  <2>1. v # w /\ req'[v] = req[v]
    BY <1>6, IdleFields
  <2>2. req[v].user # u /\ req[v].user \in Users /\ MarkerKnows(v)
    BY <2>1, RequestFields DEF OneMarker, MarkReadCommit, MarkersKnow
  <2>3. cursor'[req[v].user] = cursor[req[v].user]
    BY <1>3, <2>2
  <2> QED
    BY <1>5, <1>7, <2>1, <2>2, <2>3 DEF MarkerKnows, LastRead
<1>18. \A v \in Users : cursor[v] <= cursor'[v]
  BY <1>3, <1>8
<1> QED
  BY <1>9, <1>10, <1>11, <1>12, <1>14, <1>15, <1>16, <1>17, <1>18

LEMMA VisitCreateInv ==
  ASSUME IInv, TypeOK', NEW w \in Workers, VisitCreate(w)
  PROVE  /\ IInv'
         /\ \A v \in Users : cursor[v] <= cursor'[v]
<1> USE DEF IInv
<1> DEFINE u == req[w].user
           m == req[w].arg
<1>1. u \in Users /\ m \in Live \union {NoMessage} /\ cursor[u] = NoRow
  BY RequestFields DEF VisitCreate
<1>2. /\ cursor'[u] = m /\ baseline'[u] = m
      /\ \A v \in Users : v # u => cursor'[v] = cursor[v] /\ baseline'[v] = baseline[v]
  BY <1>1 DEF VisitCreate, TypeOK
<1>3. UNCHANGED <<status, author, receipts, marked, nulled, late>>
  BY DEF VisitCreate
<1>4. /\ req'[w] = Idle
      /\ \A v \in Workers : v # w => req'[v] = req[v]
  BY DEF VisitCreate, TypeOK
<1>5. Live' = Live
  BY <1>3 DEF Live
<1>6. \A v \in Users : cursor[v] <= cursor'[v]
  <2>1. m \in Int /\ NoRow <= m
    BY <1>1 DEF NoRow, NoMessage, Live, Ids
  <2> HIDE DEF u, m
  <2> QED
    BY <1>1, <1>2, <2>1, CursorsAreNumbers
<1>7. NoDangling'
  BY <1>1, <1>2, <1>3, <1>5 DEF NoDangling, NoMessage, Ids
<1>8. IdsInOrder' /\ ReceiptsAreEarned'
  BY <1>3 DEF IdsInOrder, Used, ReceiptsAreEarned
<1>9. OneMarker'
  BY <1>4, IdleFields DEF OneMarker
<1>10. RequestsUseIds'
  BY <1>3, <1>4, IdleFields DEF RequestsUseIds, Used, Ids
<1>11. ReceiptsBelowCursor'
  BY <1>1, <1>2, <1>3 DEF ReceiptsBelowCursor, NoRow, Ids
<1>12. ReceiptsHaveNoGap'
  <2> SUFFICES ASSUME NEW n \in Live, NEW v \in Users,
                      baseline'[v] < n, n <= cursor'[v], author[n] # v, <<n, v>> \notin late
               PROVE  <<n, v>> \in receipts
    BY <1>3, <1>5 DEF ReceiptsHaveNoGap
  <2>1. v # u
    BY <1>1, <1>2 DEF Live, Ids, NoMessage
  <2> QED
    BY <1>2, <2>1 DEF ReceiptsHaveNoGap
<1>13. MarkersKnow'
  <2> SUFFICES ASSUME NEW v \in Workers, req'[v].pc = "marking" PROVE MarkerKnows(v)'
    BY DEF MarkersKnow
  <2>1. v # w /\ req'[v] = req[v]
    BY <1>4, IdleFields
  <2>2. req[v].user # u /\ req[v].user \in Users /\ MarkerKnows(v)
    BY <2>1, RequestFields DEF VisitCreate, Locked, MarkersKnow
  <2>3. cursor'[req[v].user] = cursor[req[v].user]
    BY <1>2, <2>2
  <2> QED
    BY <1>3, <1>5, <2>1, <2>2, <2>3 DEF MarkerKnows, LastRead
<1> QED
  BY <1>6, <1>7, <1>8, <1>9, <1>10, <1>11, <1>12, <1>13
(* One step of the specification keeps the inductive invariant, and no      *)
(* step but the deletion of its message lowers a cursor.                    *)
CursorsKept ==
  \A u \in Users :
    cursor'[u] < cursor[u] => cursor[u] \notin Live' /\ cursor'[u] = NoMessage

LEMMA KeptWhenNotLowered ==
  ASSUME TypeOK, TypeOK', \A u \in Users : cursor[u] <= cursor'[u]
  PROVE  CursorsKept
<1>1. \A u \in Users : cursor[u] \in Int
  BY CursorsAreNumbers
<1>2. \A u \in Users : cursor'[u] \in Int
  <2> SUFFICES ASSUME NEW u \in Users PROVE cursor'[u] \in Int
    OBVIOUS
  <2>1. cursor'[u] \in {NoRow, NoMessage} \union Ids
    BY DEF TypeOK
  <2> QED
    BY <2>1 DEF NoRow, NoMessage, Ids
<1> QED
  BY <1>1, <1>2 DEF CursorsKept

LEMMA NextInv == IInv /\ [Next]_vars => IInv' /\ CursorsKept
<1> SUFFICES ASSUME IInv, [Next]_vars PROVE IInv' /\ CursorsKept
  OBVIOUS
<1>0. TypeOK /\ TypeOK'
  BY NextType DEF IInv
<1>00. ASSUME UNCHANGED cursor PROVE CursorsKept
  <2>1. \A u \in Users : cursor[u] <= cursor'[u]
    BY <1>0, <1>00, CursorsAreNumbers
  <2> QED
    BY <1>0, <2>1, KeptWhenNotLowered
<1>1. ASSUME NEW u \in Users, NEW m \in Ids, SaveMessage(u, m) PROVE IInv' /\ CursorsKept
  BY <1>0, <1>00, <1>1, NewMessageInv DEF SaveMessage
<1>2. ASSUME NEW u \in Users, NEW m \in Ids, InsertOpen(u, m) PROVE IInv' /\ CursorsKept
  BY <1>0, <1>00, <1>2, NewMessageInv DEF InsertOpen
<1>3. ASSUME NEW u \in Users, NEW m \in Ids, Delete(u, m) PROVE IInv' /\ CursorsKept
  <2>1. IInv'
    BY <1>0, <1>3, DeleteInv
  <2>2. m \notin Live' /\ \A v \in Users : cursor'[v] = IF cursor[v] = m THEN NoMessage ELSE cursor[v]
    BY <1>0, <1>3 DEF Delete, Live, TypeOK
  <2>3. CursorsKept
    BY <1>0, <2>2, CursorsAreNumbers DEF CursorsKept
  <2> QED
    BY <2>1, <2>3
<1>4. ASSUME NEW m \in Ids, CommitOpen(m) PROVE IInv' /\ CursorsKept
  BY <1>0, <1>00, <1>4, CommitOpenInv DEF CommitOpen
<1>5. ASSUME NEW m \in Ids, RollbackOpen(m) PROVE IInv' /\ CursorsKept
  BY <1>0, <1>00, <1>5, RollbackOpenInv DEF RollbackOpen
<1>6. ASSUME NEW w \in Workers, NEW u \in Users, VisitLookup(w, u) PROVE IInv' /\ CursorsKept
  <2>1. PICK m \in Ids \union {NoMessage} :
          /\ IsLatest(m)
          /\ req' = [req EXCEPT ![w] = Request("visiting", u, m, 0)]
    BY <1>6 DEF VisitLookup
  <2> DEFINE r == Request("visiting", u, m, 0)
  <2>2. r.pc # "marking" /\ r.next = 0 /\ r.ids = {} /\ r.pc # "checked" /\ r.arg = m
    BY DEF Request
  <2>3. m \in Ids => Used(m)
    BY <2>1 DEF IsLatest, Live, Used, NoMessage, Ids
  <2>4. UNCHANGED <<dbVars, history>>
    BY <1>6 DEF VisitLookup
  <2> HIDE DEF r
  <2> QED
    BY <1>0, <1>00, <2>1, <2>2, <2>3, <2>4, RequestOnly DEF r, dbVars
<1>7. ASSUME NEW w \in Workers, NEW u \in Users, NEW m \in Ids, MarkReadCheck(w, u, m)
      PROVE IInv' /\ CursorsKept
  <2> DEFINE r == Request("checked", u, m, 0)
  <2>1. r.pc # "marking" /\ r.next = 0 /\ r.ids = {} /\ r.arg = m
    BY DEF Request
  <2>2. Used(m)
    BY <1>7 DEF MarkReadCheck, Live, Used
  <2>3. req' = [req EXCEPT ![w] = r] /\ UNCHANGED <<dbVars, history>>
    BY <1>7 DEF MarkReadCheck
  <2> HIDE DEF r
  <2> QED
    BY <1>0, <1>00, <2>1, <2>2, <2>3, RequestOnly DEF dbVars
<1>8. ASSUME NEW w \in Workers, MarkReadLock(w) PROVE IInv' /\ CursorsKept
  BY <1>0, <1>00, <1>8, MarkReadLockInv DEF MarkReadLock, dbVars
<1>9. ASSUME NEW w \in Workers, MarkReadCommit(w) PROVE IInv' /\ CursorsKept
  BY <1>0, <1>9, MarkReadCommitInv, KeptWhenNotLowered
<1>10. ASSUME NEW w \in Workers, req' = [req EXCEPT ![w] = Idle], UNCHANGED <<dbVars, history>>
       PROVE  IInv' /\ CursorsKept
  <2>1. Idle.arg \notin Ids
    BY IdleFields DEF Ids
  <2> QED
    BY <1>0, <1>00, <1>10, <2>1, IdleFields, RequestOnly DEF dbVars
<1>11. ASSUME NEW w \in Workers, MarkReadReject(w) PROVE IInv' /\ CursorsKept
  BY <1>10, <1>11 DEF MarkReadReject
<1>12. ASSUME NEW w \in Workers, MarkReadRetry(w) PROVE IInv' /\ CursorsKept
  <2>1. CASE LastTry(w)
    <3>1. req' = [req EXCEPT ![w] = Idle] /\ UNCHANGED <<dbVars, history>>
      BY <1>12, <2>1 DEF MarkReadRetry
    <3> QED
      BY <1>10, <3>1
  <2>2. CASE ~LastTry(w)
    <3> DEFINE r == Request("checked", req[w].user, req[w].arg, req[w].tries + 1)
    <3>1. r.pc # "marking" /\ r.next = 0 /\ r.ids = {} /\ r.arg = req[w].arg
      BY DEF Request
    <3>2. req[w].arg \in Ids /\ Used(req[w].arg)
      BY <1>12 DEF MarkReadRetry, IInv, RequestsUseIds
    <3>3. req' = [req EXCEPT ![w] = r] /\ UNCHANGED <<dbVars, history>>
      BY <1>12, <2>2 DEF MarkReadRetry
    <3> HIDE DEF r
    <3> QED
      BY <1>0, <1>00, <3>1, <3>2, <3>3, RequestOnly DEF dbVars
  <2> QED
    BY <2>1, <2>2
<1>13. ASSUME NEW w \in Workers, VisitCreate(w) PROVE IInv' /\ CursorsKept
  BY <1>0, <1>13, VisitCreateInv, KeptWhenNotLowered
<1>14. ASSUME NEW w \in Workers, VisitDone(w) PROVE IInv' /\ CursorsKept
  BY <1>10, <1>14 DEF VisitDone
<1>15. CASE UNCHANGED vars
  <2>1. IInv'
    BY <1>0, <1>15 DEF IInv, vars, dbVars, history, NoDangling, IdsInOrder, Used, OneMarker,
       RequestsUseIds, MarkersKnow, MarkerKnows, LastRead, Live, ReceiptsAreEarned,
       ReceiptsBelowCursor, ReceiptsHaveNoGap
  <2> QED
    BY <1>00, <1>15, <2>1 DEF vars, dbVars
<1> QED
  BY <1>1, <1>2, <1>3, <1>4, <1>5, <1>6, <1>7, <1>8, <1>9, <1>11, <1>12, <1>13, <1>14, <1>15
     DEF Next, Serve

------------------------------------------------------------------------------
(* The theorems *)

LEMMA Invariance == Spec => []IInv
  BY InitInv, NextInv, PTL DEF Spec

(* Cursors and receipts never point at a message that does not exist.      *)
THEOREM CursorsAndReceiptsExist == Spec => []NoDangling
<1>1. IInv => NoDangling
  BY DEF IInv
<1> QED
  BY Invariance, <1>1, PTL

(* No receipt is invented, whatever requests overlap.                      *)
THEOREM ReceiptsAreHonest == Spec => []ReceiptsAreEarned
<1>1. IInv => ReceiptsAreEarned
  BY DEF IInv
<1> QED
  BY Invariance, <1>1, PTL

(* The receipts and the unread counts tell one story.                      *)
THEOREM ReceiptsAgreeWithCounts == Spec => []ReceiptMeansRead
<1>1. IInv => ReceiptMeansRead
  <2> SUFFICES ASSUME IInv, NEW m \in Ids, NEW u \in Users,
                      <<m, u>> \in receipts, u \notin nulled
               PROVE  m \notin Unread(u)
    BY DEF ReceiptMeansRead
  <2>1. m <= cursor[u] /\ cursor[u] \in Int
    BY CursorsAreNumbers DEF IInv, ReceiptsBelowCursor
  <2>2. LastRead(u) = cursor[u]
    BY <2>1 DEF LastRead, NoRow, Ids
  <2> QED
    BY <2>1, <2>2 DEF Unread, ForeignIn, Ids
<1> QED
  BY Invariance, <1>1, PTL

(* Receipts have no gap but for messages that commit behind the cursor.    *)
THEOREM ReceiptsAreComplete == Spec => []ReceiptsHaveNoGap
<1>1. IInv => ReceiptsHaveNoGap
  BY DEF IInv
<1> QED
  BY Invariance, <1>1, PTL

(* The cursors and the receipts of a room agree, in every behaviour.       *)
THEOREM ReadStateIsSound == Spec => []ReadStateHolds
  BY CursorsAndReceiptsExist, ReceiptsAreHonest, ReceiptsAgreeWithCounts,
     ReceiptsAreComplete, PTL DEF ReadStateHolds

(* Reading is only undone by the deletion of the cursor's message.         *)
THEOREM ReadingIsKept == Spec => ReadStaysRead
<1>1. IInv /\ [Next]_vars => [CursorsKept]_vars
  BY NextInv
<1>2. [CursorsKept]_vars =>
        [\A u \in Users : cursor'[u] < cursor[u] =>
            /\ cursor[u] \notin Live'
            /\ cursor'[u] = NoMessage]_vars
  BY DEF CursorsKept
<1> QED
  BY Invariance, <1>1, <1>2, PTL DEF Spec, ReadStaysRead
=============================================================================
