------------------------------ MODULE ReadState ------------------------------
(***************************************************************************)
(* Messages of one room, every user's read cursor in it, and the exact     *)
(* read receipts: backend/chat/services.py over the tables of              *)
(* backend/messages/models.py.                                             *)
(*                                                                         *)
(* The database runs at READ COMMITTED.  A request is a worker whose       *)
(* statements interleave with those of the other workers; a row lock (the  *)
(* SELECT ... FOR UPDATE of the user's read state) is held from the step   *)
(* that takes it to the commit or rollback.  Message ids come from a       *)
(* sequence, which is not transactional: an id is taken when the row is    *)
(* inserted and becomes visible when its transaction commits.              *)
(***************************************************************************)
EXTENDS Integers

CONSTANTS
  Users,        \* accounts that can open the room
  Moderators,   \* those of them that hold MANAGE_MESSAGES in it
  Workers,      \* request threads of the server
  Public,       \* TRUE for the public room, FALSE for a group or direct room
  SlowCommits,  \* TRUE when a message's transaction may stay open a while
  MaxId,        \* bound: ids the sequence may hand out
  MaxTries      \* max_retries of mark_read

ASSUME ReadStateAssumption ==
  /\ Moderators \subseteq Users
  /\ Public \in BOOLEAN
  /\ SlowCommits \in BOOLEAN
  /\ MaxId \in Nat \ {0}
  /\ MaxTries \in Nat \ {0}
  /\ Users # {}

NoRow == -1      \* the user has no read-state row for this room
NoMessage == 0   \* the row's last_read_message is NULL

Ids == 1..MaxId

VARIABLES
  status,     \* status[m]: "free", "open" (inserted, not committed), "live" or "gone"
  author,     \* author[m], meaningless while m is free
  cursor,     \* cursor[u]: NoRow, NoMessage or the id of a message
  receipts,   \* committed MessageReadReceipt rows <<message, user>>
  req,        \* req[w]: the request worker w is serving
  (* History, read by the properties and never by an action's guard. *)
  marked,     \* marked[u]: the highest id a committed mark_read named for u
  baseline,   \* baseline[u]: the cursor the first visit of the public room set
  nulled,     \* users whose cursor a deletion has set to NULL
  late        \* <<m, u>>: m became visible when u's cursor had passed it

dbVars == <<status, author, cursor, receipts>>
history == <<marked, baseline, nulled, late>>
vars == <<dbVars, req, history>>

------------------------------------------------------------------------------
(* Queries *)

Live == {m \in Ids : status[m] = "live"}

(* Definitions named ..._Fault are seeded faults: plausible mistakes in the *)
(* definition that follows, which the properties below must notice.        *)
ForeignIn_OwnFault(u, lo, hi) == {m \in Live : lo < m /\ m <= hi}
ForeignIn_EdgeFault(u, lo, hi) == {m \in Live : lo < m /\ m < hi /\ author[m] # u}

(* id__gt=lo, id__lte=hi, not deleted, not u's own *)
ForeignIn(u, lo, hi) == {m \in Live : lo < m /\ m <= hi /\ author[m] # u}

IsLatest(m) ==
  /\ m \in Live \union {NoMessage}
  /\ \A n \in Live : n <= m

LastRead(u) == IF cursor[u] = NoRow THEN 0 ELSE cursor[u]

(* get_unread_counts; a public room that was never visited is left out *)
Unread(u) ==
  IF Public /\ cursor[u] = NoRow THEN {} ELSE ForeignIn(u, LastRead(u), MaxId)

Steps == {"idle", "checked", "marking", "visiting"}

AnyUser == CHOOSE u \in Users : TRUE

Request(step, u, m, n) ==
  [pc |-> step, user |-> u, arg |-> m, next |-> 0, ids |-> {}, tries |-> n]

Idle == Request("idle", AnyUser, 0, 0)

(* the row of u is locked by the transaction of some worker *)
Locked(u) == \E w \in Workers : req[w].pc = "marking" /\ req[w].user = u

------------------------------------------------------------------------------
Init ==
  /\ status = [m \in Ids |-> "free"]
  /\ author = [m \in Ids |-> AnyUser]
  /\ cursor = [u \in Users |-> NoRow]
  /\ receipts = {}
  /\ req = [w \in Workers |-> Idle]
  /\ marked = [u \in Users |-> 0]
  /\ baseline = [u \in Users |-> 0]
  /\ nulled = {}
  /\ late = {}

NextId(m) == status[m] = "free" /\ \A n \in Ids : n < m => status[n] # "free"

(* ChatConsumer.save_message: one autocommitted INSERT *)
SaveMessage(u, m) ==
  /\ NextId(m)
  /\ status' = [status EXCEPT ![m] = "live"]
  /\ author' = [author EXCEPT ![m] = u]
  /\ UNCHANGED <<cursor, receipts, req, history>>

(* finalize_attachment_uploads: the INSERT of the message, then the file   *)
(* moves and the attachment rows, then the commit or the rollback.         *)
InsertOpen(u, m) ==
  /\ SlowCommits
  /\ NextId(m)
  /\ status' = [status EXCEPT ![m] = "open"]
  /\ author' = [author EXCEPT ![m] = u]
  /\ UNCHANGED <<cursor, receipts, req, history>>

Passed(u, m) ==
  \/ cursor[u] >= m
  \/ \E w \in Workers : req[w].pc = "marking" /\ req[w].user = u /\ req[w].next >= m

CommitOpen(m) ==
  /\ status[m] = "open"
  /\ status' = [status EXCEPT ![m] = "live"]
  /\ late' = late \union {<<m, u>> : u \in {v \in Users : Passed(v, m)}}
  /\ UNCHANGED <<author, cursor, receipts, req, marked, baseline, nulled>>

RollbackOpen(m) ==
  /\ status[m] = "open"
  /\ status' = [status EXCEPT ![m] = "gone"]
  /\ UNCHANGED <<author, cursor, receipts, req, history>>

(* delete_message: the row goes, receipts CASCADE, cursors SET_NULL.  The  *)
(* UPDATE of a read state that points here waits for its row lock.         *)
CanManage(u, m) == author[m] = u \/ u \in Moderators

Delete(u, m) ==
  /\ m \in Live
  /\ CanManage(u, m)
  /\ \A v \in Users : cursor[v] = m => ~Locked(v)
  /\ status' = [status EXCEPT ![m] = "gone"]
  /\ receipts' = {r \in receipts : r[1] # m}
  /\ cursor' = [v \in Users |-> IF cursor[v] = m THEN NoMessage ELSE cursor[v]]
  /\ nulled' = nulled \union {v \in Users : cursor[v] = m}
  /\ UNCHANGED <<author, req, marked, baseline, late>>

------------------------------------------------------------------------------
(* mark_read *)

(* The message must exist; the check runs outside the transaction. *)
MarkReadCheck(w, u, m) ==
  /\ req[w].pc = "idle"
  /\ m \in Live
  /\ req' = [req EXCEPT ![w] = Request("checked", u, m, 0)]
  /\ UNCHANGED <<dbVars, history>>

(* get_or_create under the row lock, the cursor's maximum, and the ids of  *)
(* _store_exact_read_receipts: from the previous cursor (0 for a new row   *)
(* or a NULL cursor) to the new one.                                       *)
Advance_Fault(u, m) == m
Advance(u, m) == IF m > LastRead(u) THEN m ELSE LastRead(u)

MarkReadLock(w) ==
  LET u == req[w].user
      next == Advance(u, req[w].arg)
  IN  /\ req[w].pc = "checked"
      /\ ~Locked(u)
      /\ req' = [req EXCEPT ![w].pc = "marking", ![w].next = next,
                            ![w].ids = ForeignIn(u, LastRead(u), next)]
      /\ UNCHANGED <<dbVars, history>>

(* The commit: the deferred foreign keys of the new cursor and of the new  *)
(* receipts are checked here.                                              *)
KeysHold_Fault(w) == req[w].ids \subseteq Live
KeysHold(w) == (req[w].ids \union {req[w].next}) \subseteq Live

MarkReadCommit(w) ==
  LET u == req[w].user
  IN  /\ req[w].pc = "marking"
      /\ KeysHold(w)
      /\ cursor' = [cursor EXCEPT ![u] = req[w].next]
      /\ receipts' = receipts \union {<<m, u>> : m \in req[w].ids}
      /\ marked' = [marked EXCEPT ![u] = IF @ < req[w].arg THEN req[w].arg ELSE @]
      /\ req' = [req EXCEPT ![w] = Idle]
      /\ UNCHANGED <<status, author, baseline, nulled, late>>

(* IntegrityError: not retried, the transaction leaves nothing behind. *)
MarkReadReject(w) ==
  /\ req[w].pc = "marking"
  /\ ~KeysHold(w)
  /\ req' = [req EXCEPT ![w] = Idle]
  /\ UNCHANGED <<dbVars, history>>

LastTry_LateFault(w) == req[w].tries = MaxTries
LastTry(w) == req[w].tries = MaxTries - 1

(* OperationalError (lock timeout, deadlock victim, lost connection):      *)
(* rolled back and tried again, MaxTries times in all.                     *)
MarkReadRetry(w) ==
  /\ req[w].pc = "marking"
  /\ req' = [req EXCEPT ![w] =
       IF LastTry(w) THEN Idle ELSE Request("checked", @.user, @.arg, @.tries + 1)]
  /\ UNCHANGED <<dbVars, history>>

------------------------------------------------------------------------------
(* ensure_public_read_state_on_first_visit: the latest id is read first,   *)
(* the row is created afterwards unless somebody else created it.          *)
VisitLookup(w, u) ==
  /\ Public
  /\ req[w].pc = "idle"
  /\ \E m \in Ids \union {NoMessage} :
       /\ IsLatest(m)
       /\ req' = [req EXCEPT ![w] = Request("visiting", u, m, 0)]
  /\ UNCHANGED <<dbVars, history>>

VisitCreate(w) ==
  LET u == req[w].user
  IN  /\ req[w].pc = "visiting"
      /\ ~Locked(u)
      /\ cursor[u] = NoRow
      /\ req[w].arg \in Live \union {NoMessage}
      /\ cursor' = [cursor EXCEPT ![u] = req[w].arg]
      /\ baseline' = [baseline EXCEPT ![u] = req[w].arg]
      /\ req' = [req EXCEPT ![w] = Idle]
      /\ UNCHANGED <<status, author, receipts, marked, nulled, late>>

VisitDone_Fault(w) ==
  /\ req[w].pc = "visiting"
  /\ cursor[req[w].user] # NoRow
  /\ req' = [req EXCEPT ![w] = Idle]
  /\ UNCHANGED <<dbVars, history>>

(* the row exists, or its message has been deleted in between (error) *)
VisitDone(w) ==
  LET u == req[w].user
  IN  /\ req[w].pc = "visiting"
      /\ \/ cursor[u] # NoRow
         \/ ~Locked(u) /\ req[w].arg \notin Live \union {NoMessage}
      /\ req' = [req EXCEPT ![w] = Idle]
      /\ UNCHANGED <<dbVars, history>>

------------------------------------------------------------------------------
Serve(w) ==
  \/ MarkReadLock(w) \/ MarkReadCommit(w) \/ MarkReadReject(w) \/ MarkReadRetry(w)
  \/ VisitCreate(w) \/ VisitDone(w)

Next ==
  \/ \E u \in Users, m \in Ids : SaveMessage(u, m) \/ InsertOpen(u, m) \/ Delete(u, m)
  \/ \E m \in Ids : CommitOpen(m) \/ RollbackOpen(m)
  \/ \E w \in Workers, u \in Users :
       \/ VisitLookup(w, u)
       \/ \E m \in Ids : MarkReadCheck(w, u, m)
  \/ \E w \in Workers : Serve(w)

Spec == Init /\ [][Next]_vars

(* The server's threads keep running and the database hands a row lock to  *)
(* its waiters in turn (strong fairness); nobody has to send a request.    *)
FairSpec == Spec /\ \A w \in Workers : SF_vars(Serve(w))

------------------------------------------------------------------------------
(* Properties *)

Requests == [pc : Steps, user : Users, arg : 0..MaxId, next : 0..MaxId,
             ids : SUBSET Ids, tries : 0..(MaxTries - 1)]

(* Every variable holds a value of its type. *)
TypeOK ==
  /\ status \in [Ids -> {"free", "open", "live", "gone"}]
  /\ author \in [Ids -> Users]
  /\ cursor \in [Users -> {NoRow, NoMessage} \union Ids]
  /\ receipts \subseteq Ids \X Users
  /\ req \in [Workers -> Requests]
  /\ marked \in [Users -> 0..MaxId]
  /\ baseline \in [Users -> 0..MaxId]
  /\ nulled \subseteq Users
  /\ late \subseteq Ids \X Users

(* Read cursors and receipts only point at messages that exist, whatever    *)
(* mark_read, first visits and deletions overlap: the schema's SET_NULL and *)
(* CASCADE together with the commit-time key checks.                        *)
NoDangling ==
  /\ \A u \in Users : cursor[u] \in Ids => cursor[u] \in Live
  /\ \A m \in Ids, u \in Users : <<m, u>> \in receipts => m \in Live

(* A receipt is never invented: its reader once reported a message at or   *)
(* above it, and nobody gets a receipt for a message of his own.           *)
ReceiptsAreEarned ==
  \A m \in Ids, u \in Users :
    <<m, u>> \in receipts => m <= marked[u] /\ author[m] # u

(* What the two read models say agrees: a message with a receipt of u is   *)
(* not counted as unread for u, as long as no deletion took u's cursor.    *)
ReceiptMeansRead ==
  \A m \in Ids, u \in Users :
    <<m, u>> \in receipts /\ u \notin nulled => m \notin Unread(u)

(* Exact receipts leave no gap: everything from the first visit's cursor   *)
(* up to the current one has a receipt, except a message that became       *)
(* visible behind the cursor.                                              *)
ReceiptsHaveNoGap ==
  \A m \in Live, u \in Users :
    /\ baseline[u] < m
    /\ m <= cursor[u]
    /\ author[m] # u
    /\ <<m, u>> \notin late
    => <<m, u>> \in receipts

(* The four together: what the cursors and the receipts of the room say is  *)
(* true, complete and the same, whatever requests overlap.                 *)
ReadStateHolds ==
  NoDangling /\ ReceiptsAreEarned /\ ReceiptMeansRead /\ ReceiptsHaveNoGap

(* A message u has read turns unread again only in the step that deletes   *)
(* the message u's cursor stands on; concurrent or stale mark_read calls   *)
(* with lower ids never move the cursor back.                              *)
ReadStaysRead ==
  [][\A u \in Users :
       cursor'[u] < cursor[u] =>
         /\ cursor[u] \notin Live'
         /\ cursor'[u] = NoMessage]_vars

(* Every request is answered: the row locks and the retries end. *)
RequestsEnd == \A w \in Workers : req[w].pc # "idle" ~> req[w].pc = "idle"

------------------------------------------------------------------------------
(* Claims of the documentation that the code does not keep *)

(* services.py, ensure_public_read_state_on_first_visit: at the first       *)
(* visit of a public chat old messages must not count as unread.            *)
OldMessagesStayRead ==
  \A m \in Live, u \in Users :
    cursor[u] # NoRow /\ m <= baseline[u] => m \notin Unread(u)

(* services.py, _store_exact_read_receipts: it creates exact receipts for   *)
(* the messages that came into the read range.                              *)
RangeHasReceipts ==
  \A m \in Live, u \in Users :
    /\ baseline[u] < m
    /\ m <= cursor[u]
    /\ author[m] # u
    => <<m, u>> \in receipts
=============================================================================
