---------------------------- MODULE ChatDelivery ----------------------------
(***************************************************************************)
(* The delivery pipeline of one chat connection                            *)
(* (backend/chat/delivery.py): a publish worker that fans a saved message  *)
(* out to the room, a side-effect worker that updates inboxes and unread   *)
(* counts afterwards, and flush(), which the connection's disconnect       *)
(* waits for.  Everything runs on one event loop, so a step of this module *)
(* is what a coroutine does between two awaits.                            *)
(*                                                                         *)
(* Deliveries are numbered in the order in which enqueue() takes them.     *)
(***************************************************************************)
EXTENDS Naturals, Sequences, FiniteSets, Functions

CONSTANTS
  MaxDeliveries,   \* bound on the messages one connection sends
  Kills            \* the server may cancel a disconnect that takes too long

ASSUME DeliveryAssumption == MaxDeliveries \in Nat /\ Kills \in BOOLEAN

Deliveries == 1..MaxDeliveries
Nothing == 0
Tasks == {"publish", "side_effects"}

VARIABLES
  accepted,         \* how many deliveries enqueue() has taken
  publishQueue, sideEffectQueue,
  publishTask, sideEffectTask,   \* "none", "new" (created) or "run"
  publishing, effecting,         \* the delivery a worker holds, or Nothing
  flush,            \* "open", "flushing", "done" or "killed"
  awaited,          \* the tasks flush() is gathering
  published, effected,           \* what the workers completed, in order
  failed,           \* deliveries whose failure was logged
  cancelled         \* deliveries a worker held when it was cancelled

publisher == <<publishQueue, publishTask, publishing>>
sideWorker == <<sideEffectQueue, sideEffectTask, effecting>>
vars == <<accepted, publisher, sideWorker, flush, awaited, published, effected,
          failed, cancelled>>

Init ==
  /\ accepted = 0
  /\ publishQueue = << >> /\ sideEffectQueue = << >>
  /\ publishTask = "none" /\ sideEffectTask = "none"
  /\ publishing = Nothing /\ effecting = Nothing
  /\ flush = "open" /\ awaited = {}
  /\ published = << >> /\ effected = << >>
  /\ failed = {} /\ cancelled = {}

(* _ensure_publish_worker, _ensure_side_effect_worker: never a second one. *)
Ensure(task) == IF task = "none" THEN "new" ELSE task

(* A worker returns to the head of its loop: it takes the next delivery    *)
(* and awaits its work, or ends, which is what a gather() waits for.       *)
(* Seeded faults are named ..._Fault and stand before what they replace.   *)
NextPublish_LifoFault ==
  IF publishQueue = << >>
  THEN /\ publishTask' = "none" /\ publishing' = Nothing
       /\ awaited' = awaited \ {"publish"}
       /\ UNCHANGED publishQueue
  ELSE /\ publishTask' = "run" /\ publishing' = publishQueue[Len(publishQueue)]
       /\ publishQueue' = SubSeq(publishQueue, 1, Len(publishQueue) - 1)
       /\ UNCHANGED awaited

NextPublish_LoopFault ==
  IF publishQueue = << >>
  THEN publishing' = Nothing /\ UNCHANGED <<publishQueue, publishTask, awaited>>
  ELSE /\ publishTask' = "run" /\ publishing' = Head(publishQueue)
       /\ publishQueue' = Tail(publishQueue)
       /\ UNCHANGED awaited

NextPublish ==
  IF publishQueue = << >>
  THEN /\ publishTask' = "none" /\ publishing' = Nothing
       /\ awaited' = awaited \ {"publish"}
       /\ UNCHANGED publishQueue
  ELSE /\ publishTask' = "run" /\ publishing' = Head(publishQueue)
       /\ publishQueue' = Tail(publishQueue)
       /\ UNCHANGED awaited

NextSideEffects ==
  IF sideEffectQueue = << >>
  THEN /\ sideEffectTask' = "none" /\ effecting' = Nothing
       /\ awaited' = awaited \ {"side_effects"}
       /\ UNCHANGED sideEffectQueue
  ELSE /\ sideEffectTask' = "run" /\ effecting' = Head(sideEffectQueue)
       /\ sideEffectQueue' = Tail(sideEffectQueue)
       /\ UNCHANGED awaited

-----------------------------------------------------------------------------
(* receive() has saved a message and echoed it to its sender.  disconnect  *)
(* is handled after the last receive, so nothing is enqueued once it runs. *)
Enqueue ==
  /\ flush = "open" /\ accepted < MaxDeliveries
  /\ accepted' = accepted + 1
  /\ publishQueue' = Append(publishQueue, accepted + 1)
  /\ publishTask' = Ensure(publishTask)
  /\ UNCHANGED <<publishing, sideWorker, flush, awaited, published, effected,
                 failed, cancelled>>

PublishStart ==
  /\ publishTask = "new"
  /\ NextPublish
  /\ UNCHANGED <<accepted, sideWorker, flush, published, effected, failed,
                 cancelled>>

(* The room has the message; its side effects are queued.                  *)
PublishDone ==
  /\ publishing # Nothing
  /\ published' = Append(published, publishing)
  /\ sideEffectQueue' = Append(sideEffectQueue, publishing)
  /\ sideEffectTask' = Ensure(sideEffectTask)
  /\ NextPublish
  /\ UNCHANGED <<accepted, effecting, flush, effected, failed, cancelled>>

(* group_send raised: the failure is logged and there are no side effects. *)
PublishFailed_Fault ==
  /\ publishing # Nothing
  /\ sideEffectQueue' = Append(sideEffectQueue, publishing)
  /\ sideEffectTask' = Ensure(sideEffectTask)
  /\ NextPublish
  /\ UNCHANGED <<accepted, effecting, flush, published, effected, failed,
                 cancelled>>

PublishFailed ==
  /\ publishing # Nothing
  /\ failed' = failed \union {publishing}
  /\ NextPublish
  /\ UNCHANGED <<accepted, sideWorker, flush, published, effected, cancelled>>

SideEffectsStart ==
  /\ sideEffectTask = "new"
  /\ NextSideEffects
  /\ UNCHANGED <<accepted, publisher, flush, published, effected, failed,
                 cancelled>>

SideEffectsDone_Fault ==
  /\ sideEffectTask # "none"
  /\ effected' = Append(effected, effecting)
  /\ NextSideEffects
  /\ UNCHANGED <<accepted, publisher, flush, published, failed, cancelled>>

SideEffectsDone ==
  /\ effecting # Nothing
  /\ effected' = Append(effected, effecting)
  /\ NextSideEffects
  /\ UNCHANGED <<accepted, publisher, flush, published, failed, cancelled>>

SideEffectsFailed ==
  /\ effecting # Nothing
  /\ failed' = failed \union {effecting}
  /\ NextSideEffects
  /\ UNCHANGED <<accepted, publisher, flush, published, effected, cancelled>>

-----------------------------------------------------------------------------
Disconnect ==
  /\ flush = "open"
  /\ flush' = "flushing"
  /\ UNCHANGED <<accepted, publisher, sideWorker, awaited, published, effected,
                 failed, cancelled>>

Pending == {t \in Tasks : IF t = "publish" THEN publishTask # "none"
                                           ELSE sideEffectTask # "none"}

(* One turn of flush()'s loop, when what it gathered has ended.  A created *)
(* task starts on the next turn of the event loop, before flush() resumes. *)
(* The branch that restarts the worker of a queue left without one is not  *)
(* here: QueuesAreServed says that it is dead code.                        *)
FlushTurn_Fault ==
  /\ flush = "flushing" /\ awaited = {}
  /\ "new" \notin {publishTask, sideEffectTask}
  /\ IF publishTask = "none" /\ publishQueue = << >>
     THEN flush' = "done" /\ UNCHANGED awaited
     ELSE awaited' = Pending /\ UNCHANGED flush
  /\ UNCHANGED <<accepted, publisher, sideWorker, published, effected, failed,
                 cancelled>>

FlushTurn ==
  /\ flush = "flushing" /\ awaited = {}
  /\ "new" \notin {publishTask, sideEffectTask}
  /\ IF Pending = {} /\ publishQueue = << >> /\ sideEffectQueue = << >>
     THEN flush' = "done" /\ UNCHANGED awaited
     ELSE Pending # {} /\ awaited' = Pending /\ UNCHANGED flush
  /\ UNCHANGED <<accepted, publisher, sideWorker, published, effected, failed,
                 cancelled>>

(* A cancelled worker drops what it holds, whether or not the work had     *)
(* taken effect; its finally block starts a new one if the queue has more. *)
Restarted_Fault(queue) == "none"

Restarted(queue) == IF queue = << >> THEN "none" ELSE "new"

CancelPublish_Fault ==
  IF "publish" \in awaited
  THEN /\ publishTask' = "new"
       /\ publishing' = Nothing
       /\ publishQueue' = <<publishing>> \o publishQueue
       /\ UNCHANGED published
  ELSE UNCHANGED <<publisher, published>>

CancelPublish ==
  IF "publish" \in awaited
  THEN /\ publishTask' = Restarted(publishQueue)
       /\ publishing' = Nothing
       /\ published' \in {published, Append(published, publishing)}
       /\ UNCHANGED publishQueue
  ELSE UNCHANGED <<publisher, published>>

CancelSideEffects ==
  IF "side_effects" \in awaited
  THEN /\ sideEffectTask' = Restarted(sideEffectQueue)
       /\ effecting' = Nothing
       /\ effected' \in {effected, Append(effected, effecting)}
       /\ UNCHANGED sideEffectQueue
  ELSE UNCHANGED <<sideWorker, effected>>

Held_Fault == ({publishing, effecting} \ {Nothing})
                \union Range(publishQueue) \union Range(sideEffectQueue)

Held == {d \in {publishing, effecting} \ {Nothing} :
           \/ d = publishing /\ "publish" \in awaited
           \/ d = effecting /\ "side_effects" \in awaited}

(* The server gives up on the disconnect: cancelling it cancels the tasks  *)
(* its gather() waits for.                                                 *)
Kill ==
  /\ Kills /\ flush = "flushing" /\ awaited # {}
  /\ flush' = "killed" /\ awaited' = {}
  /\ cancelled' = cancelled \union Held
  /\ CancelPublish
  /\ CancelSideEffects
  /\ UNCHANGED <<accepted, failed>>

PublishWork == PublishStart \/ PublishDone \/ PublishFailed
SideEffectWork == SideEffectsStart \/ SideEffectsDone \/ SideEffectsFailed

Next ==
  \/ Enqueue
  \/ PublishStart \/ PublishDone \/ PublishFailed
  \/ SideEffectsStart \/ SideEffectsDone \/ SideEffectsFailed
  \/ Disconnect \/ FlushTurn \/ Kill

Spec == Init /\ [][Next]_vars

(* The event loop runs every task that is ready, and a call to the channel *)
(* layer or to the database returns or raises.                             *)
Fairness == WF_vars(PublishWork) /\ WF_vars(SideEffectWork) /\ WF_vars(FlushTurn)

FairSpec == Spec /\ Fairness

-----------------------------------------------------------------------------
(* Every variable stays in its range.                                      *)
TypeOK ==
  /\ accepted \in 0..MaxDeliveries
  /\ publishQueue \in Seq(Deliveries) /\ sideEffectQueue \in Seq(Deliveries)
  /\ publishTask \in {"none", "new", "run"}
  /\ sideEffectTask \in {"none", "new", "run"}
  /\ publishing \in Deliveries \union {Nothing}
  /\ effecting \in Deliveries \union {Nothing}
  /\ flush \in {"open", "flushing", "done", "killed"}
  /\ awaited \subseteq Tasks
  /\ published \in Seq(Deliveries) /\ effected \in Seq(Deliveries)
  /\ failed \subseteq Deliveries /\ cancelled \subseteq Deliveries

(* A queue that is not empty has a worker: no wake-up is lost between the  *)
(* worker's last look at its queue and the next enqueue, nor when a worker *)
(* is cancelled.  flush() never has to restart one.                        *)
QueuesAreServed ==
  /\ publishQueue # << >> => publishTask # "none"
  /\ sideEffectQueue # << >> => sideEffectTask # "none"

Increasing(s) == \A i, j \in 1..Len(s) : i < j => s[i] < s[j]

(* The room sees one connection's messages in the order in which they were *)
(* saved, each at most once, and so do the inboxes.                        *)
InOrder == Increasing(published) /\ Increasing(effected)

(* No inbox or unread count is told of a message the room did not get.     *)
EffectsFollowPublishing == Range(effected) \subseteq Range(published)

Waiting(d) == d \in Range(publishQueue) \/ d = publishing
Published(d) == d \in Range(sideEffectQueue) \/ d = effecting
Settled(d) == d \in Range(effected) \union failed \union cancelled

(* A delivery that was taken is in a queue, in a worker's hands, or        *)
(* settled, and never in two of these places.                              *)
NothingIsLost ==
  \A d \in 1..accepted :
    /\ Waiting(d) \/ Published(d) \/ Settled(d)
    /\ ~(Waiting(d) /\ Published(d))
    /\ ~(Settled(d) /\ (Waiting(d) \/ Published(d)))

(* flush() returns when "all queued publish and side-effect work has       *)
(* settled" (delivery.py:77): a connection that closes in good order has   *)
(* published and accounted for every message it saved.                     *)
FlushMeansSettled ==
  flush = "done" =>
    /\ \A d \in 1..accepted : d \in Range(effected) \union failed
    /\ cancelled = {}

(* Cancelling a disconnect costs at most the deliveries in the two         *)
(* workers' hands; those still queued survive the connection.              *)
KillLosesOnlyWhatWasHeld == Cardinality(cancelled) <= 2

(* The six together: each message a connection saved goes its way in order, *)
(* once, served by a worker, and a connection that ends accounts for it.   *)
DeliveryHolds ==
  /\ QueuesAreServed /\ InOrder /\ EffectsFollowPublishing
  /\ NothingIsLost /\ FlushMeansSettled /\ KillLosesOnlyWhatWasHeld

(* Every delivery taken is settled in the end, whatever fails before it.   *)
EverythingSettles == \A d \in Deliveries : accepted >= d ~> Settled(d)

(* flush() returns, unless the server cancels it.                          *)
FlushEnds == flush = "flushing" ~> flush \in {"done", "killed"}

(* The pipeline implements the relay a chat connection promises.           *)
StageOf(d) ==
  CASE d > accepted -> "unsaved"
    [] d <= accepted /\ Waiting(d) -> "waiting"
    [] d <= accepted /\ ~Waiting(d) /\ Published(d) -> "published"
    [] OTHER -> "finished"

Relay == INSTANCE MessageRelay WITH
           stage <- [d \in Deliveries |-> StageOf(d)],
           closed <- flush = "done"

ImplementsRelay == Relay!RelayFairSpec
=============================================================================
