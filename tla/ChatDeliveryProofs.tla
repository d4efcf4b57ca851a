------------------------- MODULE ChatDeliveryProofs -------------------------
(***************************************************************************)
(* Proofs about ChatDelivery for any number of deliveries.  The inductive  *)
(* invariant says exactly what the publish queue holds: the deliveries     *)
(* after the Taken-th, in order.  Everything else is stated relative to    *)
(* that boundary.                                                          *)
(***************************************************************************)
EXTENDS ChatDelivery, FiniteSetTheorems, TLAPS

(* How many deliveries the publish worker has taken from its queue.        *)
Taken == accepted - Len(publishQueue)

(* The publish queue is the interval after Taken; the worker holds the     *)
(* last one taken; whatever was published came before it.                  *)
PublishOrder ==
  /\ Len(publishQueue) <= accepted
  /\ \A i \in 1..Len(publishQueue) : publishQueue[i] = Taken + i
  /\ publishing \in {Nothing, Taken}
  /\ \A i \in 1..Len(published) :
       published[i] <= Taken /\ (publishing # Nothing => published[i] < publishing)
  /\ Increasing(published)

(* Effects, the delivery in hand and the side-effect queue follow one      *)
(* another in that order, and all of them were published.                  *)
SideOrder ==
  /\ Increasing(sideEffectQueue) /\ Increasing(effected)
  /\ \A i \in 1..Len(sideEffectQueue) :
       /\ \E k \in 1..Len(published) : published[k] = sideEffectQueue[i]
       /\ \A j \in 1..Len(effected) : effected[j] < sideEffectQueue[i]
       /\ effecting < sideEffectQueue[i]
  /\ \A j \in 1..Len(effected) :
       /\ \E k \in 1..Len(published) : published[k] = effected[j]
       /\ effecting # Nothing => effected[j] < effecting
  /\ effecting # Nothing =>
       \E k \in 1..Len(published) : published[k] = effecting

(* Workers exist while they have something to do, and flush() waits only   *)
(* for workers that run.                                                   *)
TasksHold ==
  /\ publishTask = "run" <=> publishing # Nothing
  /\ publishTask = "none" => publishQueue = << >>
  /\ sideEffectTask = "run" <=> effecting # Nothing
  /\ sideEffectTask = "none" => sideEffectQueue = << >>
  /\ "publish" \in awaited => publishTask = "run"
  /\ "side_effects" \in awaited => sideEffectTask = "run"
  /\ awaited # {} => flush = "flushing"
  /\ flush = "done" => publishTask = "none" /\ sideEffectTask = "none"
  /\ flush # "killed" => cancelled = {}

(* A delivery that was taken is in hand, queued for its side effects, or   *)
(* settled; one whose failure or cancellation is recorded is nowhere else. *)
Accounted ==
  /\ \A d \in failed \union cancelled :
       /\ d <= Taken /\ d # publishing /\ d # effecting
       /\ \A i \in 1..Len(sideEffectQueue) : sideEffectQueue[i] # d
  /\ \A d \in 1..Taken :
       \/ d = publishing \/ d = effecting
       \/ d \in failed \union cancelled
       \/ \E i \in 1..Len(sideEffectQueue) : sideEffectQueue[i] = d
       \/ \E i \in 1..Len(effected) : effected[i] = d

IInv == TypeOK /\ PublishOrder /\ SideOrder /\ TasksHold /\ Accounted

-----------------------------------------------------------------------------
(* Sequences: what Append and Tail do, and that they keep an increasing    *)
(* sequence increasing.                                                    *)
LEMMA AppendFacts ==
  ASSUME NEW S, NEW s \in Seq(S), NEW e \in S
  PROVE  /\ Append(s, e) \in Seq(S)
         /\ Len(Append(s, e)) = Len(s) + 1
         /\ \A i \in 1..Len(s) : Append(s, e)[i] = s[i]
         /\ Append(s, e)[Len(s) + 1] = e
  OBVIOUS

LEMMA TailFacts ==
  ASSUME NEW S, NEW s \in Seq(S), s # << >>
  PROVE  /\ Head(s) = s[1] /\ s[1] \in S
         /\ Tail(s) \in Seq(S)
         /\ Len(s) \in Nat \ {0} /\ Len(Tail(s)) = Len(s) - 1
         /\ \A i \in 1..Len(Tail(s)) : Tail(s)[i] = s[i + 1]
  OBVIOUS

LEMMA IncreasingAppend ==
  ASSUME NEW s \in Seq(Deliveries), NEW e \in Deliveries, Increasing(s),
         \A i \in 1..Len(s) : s[i] < e
  PROVE  Increasing(Append(s, e))
  BY AppendFacts DEF Increasing, Deliveries

LEMMA IncreasingTail ==
  ASSUME NEW s \in Seq(Deliveries), s # << >>, Increasing(s)
  PROVE  /\ Increasing(Tail(s))
         /\ \A i \in 1..Len(Tail(s)) : Head(s) < Tail(s)[i]
  BY TailFacts DEF Increasing, Deliveries

(* d occurs in the sequence s.                                             *)
In(s, d) == \E i \in 1..Len(s) : s[i] = d

LEMMA InAppend ==
  ASSUME NEW S, NEW s \in Seq(S), NEW e \in S
  PROVE  \A d : In(Append(s, e), d) <=> In(s, d) \/ d = e
<1>0. Len(s) \in Nat
  OBVIOUS
<1>1. \A d : In(s, d) => In(Append(s, e), d)
  BY <1>0, AppendFacts DEF In
<1>2. In(Append(s, e), e)
  <2>1. Len(s) + 1 \in 1..Len(Append(s, e))
    BY <1>0, AppendFacts
  <2> QED BY <2>1, AppendFacts DEF In
<1>3. ASSUME NEW d, In(Append(s, e), d), d # e PROVE In(s, d)
  <2>1. PICK i \in 1..Len(Append(s, e)) : Append(s, e)[i] = d
    BY <1>3 DEF In
  <2>2. i # Len(s) + 1
    BY <1>3, <2>1, AppendFacts
  <2>3. i \in 1..Len(s)
    BY <1>0, <2>2, AppendFacts
  <2> QED BY <2>1, <2>3, AppendFacts DEF In
<1> QED BY <1>1, <1>2, <1>3

LEMMA InTail ==
  ASSUME NEW s \in Seq(Deliveries), s # << >>, Increasing(s)
  PROVE  /\ \A d : In(s, d) <=> In(Tail(s), d) \/ d = s[1]
         /\ ~In(Tail(s), s[1])
<1>1. /\ Len(s) \in Nat \ {0} /\ Len(Tail(s)) = Len(s) - 1
      /\ \A i \in 1..Len(Tail(s)) : Tail(s)[i] = s[i + 1]
      /\ \A i \in 1..Len(s) : s[i] \in Nat
  BY TailFacts, DeliveryAssumption DEF Deliveries
<1>2. \A d : In(Tail(s), d) => In(s, d)
  BY <1>1 DEF In
<1>3. In(s, s[1])
  BY <1>1 DEF In
<1>4. ASSUME NEW d, In(s, d), d # s[1] PROVE In(Tail(s), d)
  <2>1. PICK i \in 1..Len(s) : s[i] = d
    BY <1>4 DEF In
  <2>2. i - 1 \in 1..Len(Tail(s)) /\ Tail(s)[i - 1] = s[i]
    BY <1>1, <1>4, <2>1
  <2> QED BY <2>1, <2>2 DEF In
<1>5. ~In(Tail(s), s[1])
  BY <1>1, IncreasingTail, TailFacts DEF In
<1> QED BY <1>2, <1>3, <1>4, <1>5

(* The publish worker's next round moves the boundary by at most one.      *)
LEMMA PublishRound ==
  ASSUME TypeOK, PublishOrder, accepted' = accepted, NextPublish
  PROVE  /\ publishQueue' \in Seq(Deliveries)
         /\ Len(publishQueue') <= accepted'
         /\ \A i \in 1..Len(publishQueue') : publishQueue'[i] = Taken' + i
         /\ Taken \in Nat /\ Taken' \in Nat
         /\ \/ /\ publishQueue' = << >> /\ Taken' = Taken /\ publishing' = Nothing
               /\ publishTask' = "none" /\ awaited' = awaited \ {"publish"}
            \/ /\ publishing' = Taken' /\ Taken' = Taken + 1
               /\ publishing' \in Deliveries
               /\ publishTask' = "run" /\ awaited' = awaited
<1> USE DEF TypeOK, Nothing
<1>1. CASE publishQueue = << >>
  BY <1>1 DEF NextPublish, PublishOrder, Taken
<1>2. CASE publishQueue # << >>
  <2>1. /\ publishing' = Head(publishQueue) /\ publishQueue' = Tail(publishQueue)
        /\ publishTask' = "run" /\ awaited' = awaited
    BY <1>2 DEF NextPublish
  <2>2. /\ Head(publishQueue) = publishQueue[1] /\ publishQueue[1] \in Deliveries
        /\ publishQueue' \in Seq(Deliveries)
        /\ Len(publishQueue) \in Nat \ {0}
        /\ Len(publishQueue') = Len(publishQueue) - 1
        /\ \A i \in 1..Len(publishQueue') : publishQueue'[i] = publishQueue[i + 1]
    BY <1>2, <2>1, TailFacts
  <2>3. Taken' = Taken + 1 /\ Taken \in Nat
    BY <2>2, DeliveryAssumption DEF PublishOrder, Taken
  <2>4. publishQueue[1] = Taken + 1
    BY <2>2 DEF PublishOrder
  <2>5. \A i \in 1..Len(publishQueue') : publishQueue'[i] = Taken' + i
    BY <2>2, <2>3 DEF PublishOrder
  <2> QED BY <2>1, <2>2, <2>3, <2>4, <2>5, DeliveryAssumption DEF PublishOrder
<1> QED BY <1>1, <1>2

(* The side-effect worker's next round.                                    *)
LEMMA SideRound ==
  ASSUME TypeOK, NextSideEffects
  PROVE  \/ /\ sideEffectQueue = << >> /\ sideEffectQueue' = sideEffectQueue
            /\ effecting' = Nothing
            /\ sideEffectTask' = "none" /\ awaited' = awaited \ {"side_effects"}
         \/ /\ sideEffectQueue # << >> /\ sideEffectQueue' = Tail(sideEffectQueue)
            /\ sideEffectQueue' \in Seq(Deliveries)
            /\ effecting' = sideEffectQueue[1] /\ effecting' \in Deliveries
            /\ Len(sideEffectQueue) \in Nat \ {0}
            /\ Len(sideEffectQueue') = Len(sideEffectQueue) - 1
            /\ \A i \in 1..Len(sideEffectQueue') :
                 sideEffectQueue'[i] = sideEffectQueue[i + 1]
            /\ sideEffectTask' = "run" /\ awaited' = awaited
<1>1. CASE sideEffectQueue = << >>
  BY <1>1 DEF NextSideEffects
<1>2. CASE sideEffectQueue # << >>
  <2>1. sideEffectQueue \in Seq(Deliveries)
    BY DEF TypeOK
  <2> QED BY <1>2, <2>1, TailFacts DEF NextSideEffects
<1> QED BY <1>1, <1>2

-----------------------------------------------------------------------------
(* Cancelling a worker empties its hands and keeps its queue; what it held *)
(* may or may not have taken effect.                                       *)
LEMMA CancelledPublish ==
  ASSUME TypeOK, TasksHold, CancelPublish
  PROVE  /\ publishQueue' = publishQueue
         /\ publishTask' \in {"none", "new", "run"}
         /\ publishTask' = "none" => publishTask = "none" \/ publishQueue = << >>
         /\ publishTask' = "run" <=> publishing' # Nothing
         /\ IF "publish" \in awaited
            THEN publishing \in Deliveries /\ publishing' = Nothing
            ELSE publishing' = publishing /\ publishTask' = publishTask
         /\ \/ published' = published
            \/ /\ publishing \in Deliveries /\ publishing' = Nothing
               /\ published' = Append(published, publishing)
BY DEF TypeOK, TasksHold, CancelPublish, publisher, Restarted

LEMMA CancelledSideEffects ==
  ASSUME TypeOK, TasksHold, CancelSideEffects
  PROVE  /\ sideEffectQueue' = sideEffectQueue
         /\ sideEffectTask' \in {"none", "new", "run"}
         /\ sideEffectTask' = "none" =>
              sideEffectTask = "none" \/ sideEffectQueue = << >>
         /\ sideEffectTask' = "run" <=> effecting' # Nothing
         /\ IF "side_effects" \in awaited
            THEN effecting \in Deliveries /\ effecting' = Nothing
            ELSE effecting' = effecting /\ sideEffectTask' = sideEffectTask
         /\ \/ effected' = effected
            \/ /\ effecting \in Deliveries /\ effecting' = Nothing
               /\ effected' = Append(effected, effecting)
BY DEF TypeOK, TasksHold, CancelSideEffects, sideWorker, Restarted

LEMMA TypeStep == TypeOK /\ PublishOrder /\ TasksHold /\ [Next]_vars => TypeOK'
<1> SUFFICES ASSUME TypeOK, PublishOrder, TasksHold, [Next]_vars PROVE TypeOK'
  OBVIOUS
<1> USE DeliveryAssumption DEF TypeOK, Nothing, Deliveries
<1>1. CASE Enqueue
  BY <1>1 DEF Enqueue, Ensure, sideWorker
<1>2. CASE PublishStart
  BY <1>2, PublishRound DEF PublishStart, sideWorker, Deliveries
<1>3. CASE PublishDone
  BY <1>3, PublishRound, AppendFacts DEF PublishDone, Ensure
<1>4. CASE PublishFailed
  BY <1>4, PublishRound DEF PublishFailed, sideWorker
<1>5. CASE SideEffectsStart
  BY <1>5, SideRound DEF SideEffectsStart, publisher
<1>6. CASE SideEffectsDone
  BY <1>6, SideRound, AppendFacts DEF SideEffectsDone, publisher
<1>7. CASE SideEffectsFailed
  BY <1>7, SideRound DEF SideEffectsFailed, publisher
<1>8. CASE Disconnect
  BY <1>8 DEF Disconnect, publisher, sideWorker
<1>9. CASE FlushTurn
  BY <1>9 DEF FlushTurn, Pending, publisher, sideWorker
<1>10. CASE Kill
  <2>1. /\ CancelPublish /\ CancelSideEffects /\ accepted' = accepted
        /\ failed' = failed /\ flush' = "killed" /\ awaited' = {}
        /\ cancelled' = cancelled \union Held
    BY <1>10 DEF Kill
  <2>2. Held \subseteq Deliveries
    BY DEF Held
  <2>3. published' \in Seq(Deliveries) /\ effected' \in Seq(Deliveries)
    <3>1. \/ published' = published
          \/ publishing \in Deliveries /\ published' = Append(published, publishing)
      BY <2>1, CancelledPublish
    <3>2. \/ effected' = effected
          \/ effecting \in Deliveries /\ effected' = Append(effected, effecting)
      BY <2>1, CancelledSideEffects
    <3> HIDE DEF Deliveries, Nothing, TypeOK
    <3>3. published \in Seq(Deliveries) /\ effected \in Seq(Deliveries)
      BY DEF TypeOK
    <3> QED BY <3>1, <3>2, <3>3, AppendFacts
  <2>4. publishing' \in Deliveries \union {Nothing}
    BY <2>1, CancelledPublish
  <2>5. effecting' \in Deliveries \union {Nothing}
    BY <2>1, CancelledSideEffects
  <2> QED BY <2>1, <2>2, <2>3, <2>4, <2>5, CancelledPublish, CancelledSideEffects
<1>11. CASE UNCHANGED vars
  BY <1>11 DEF vars, publisher, sideWorker
<1> QED BY <1>1, <1>2, <1>3, <1>4, <1>5, <1>6, <1>7, <1>8, <1>9, <1>10, <1>11 DEF Next

-----------------------------------------------------------------------------
(* A step that leaves the publisher and what it published alone.           *)
LEMMA PublisherIdle ==
  ASSUME PublishOrder, UNCHANGED <<accepted, publishQueue, publishing, published>>
  PROVE  PublishOrder'
BY DEF PublishOrder, Taken, Increasing

LEMMA PublishOrderStep == IInv /\ [Next]_vars => PublishOrder'
<1> SUFFICES ASSUME IInv, [Next]_vars PROVE PublishOrder' OBVIOUS
<1>0. TypeOK /\ PublishOrder /\ TasksHold
  BY DEF IInv
<1>t. TypeOK'
  BY <1>0, TypeStep
<1>n. /\ accepted \in Nat /\ Len(publishQueue) \in Nat /\ Len(published) \in Nat
      /\ \A i \in 1..Len(published) : published[i] \in Nat \ {0}
      /\ published \in Seq(Deliveries)
  BY <1>0, DeliveryAssumption DEF TypeOK, Deliveries
<1>1. CASE Enqueue
  <2>1. publishQueue \in Seq(Deliveries) /\ accepted + 1 \in Deliveries
    BY <1>0, <1>1, DeliveryAssumption DEF TypeOK, Deliveries, Enqueue
  <2>2. /\ accepted' = accepted + 1
        /\ publishQueue' = Append(publishQueue, accepted + 1)
        /\ publishing' = publishing /\ published' = published
    BY <1>1 DEF Enqueue
  <2>3. Len(publishQueue') = Len(publishQueue) + 1 /\ Taken' = Taken
    BY <1>n, <2>1, <2>2, AppendFacts DEF Taken
  <2>4. \A i \in 1..Len(publishQueue') : publishQueue'[i] = Taken' + i
    <3>1. /\ \A i \in 1..Len(publishQueue) : publishQueue'[i] = publishQueue[i]
          /\ publishQueue'[Len(publishQueue) + 1] = accepted + 1
      BY <2>1, <2>2, AppendFacts
    <3>2. \A i \in 1..Len(publishQueue) : publishQueue[i] = Taken + i
      BY <1>0 DEF PublishOrder
    <3>3. accepted + 1 = Taken + (Len(publishQueue) + 1)
      BY <1>n DEF Taken
    <3>4. SUFFICES ASSUME NEW i \in 1..(Len(publishQueue) + 1)
                   PROVE  publishQueue'[i] = Taken + i
      BY <2>3
    <3>5. CASE i = Len(publishQueue) + 1
      BY <3>1, <3>3, <3>5
    <3>6. CASE i \in 1..Len(publishQueue)
      BY <3>1, <3>2, <3>6
    <3> QED BY <1>n, <3>5, <3>6
  <2> QED BY <1>0, <1>n, <2>2, <2>3, <2>4 DEF PublishOrder, Increasing
<1>2. CASE PublishStart
  <2>1. /\ publishing = Nothing /\ accepted' = accepted /\ published' = published
        /\ NextPublish
    BY <1>0, <1>2 DEF PublishStart, TasksHold
  <2>2. Increasing(published)'
    BY <1>0, <2>1 DEF PublishOrder, Increasing
  <2>3. \A i \in 1..Len(published') : published'[i] \in Nat /\ published'[i] <= Taken
    BY <1>0, <1>n, <2>1 DEF PublishOrder
  <2> QED BY <1>0, <2>1, <2>2, <2>3, PublishRound DEF PublishOrder, Nothing
<1>3. CASE PublishDone
  <2>1. /\ publishing # Nothing /\ accepted' = accepted /\ NextPublish
        /\ published' = Append(published, publishing)
    BY <1>3 DEF PublishDone
  <2>2. publishing = Taken /\ publishing \in Deliveries
    BY <1>0, <2>1 DEF PublishOrder, TypeOK
  <2>3. \A i \in 1..Len(published) : published[i] < publishing
    BY <1>0, <2>1 DEF PublishOrder
  <2>4. Increasing(published)'
    BY <1>0, <1>n, <2>1, <2>2, <2>3, IncreasingAppend DEF PublishOrder
  <2>5. \A i \in 1..Len(published') : published'[i] <= Taken
    BY <1>n, <2>1, <2>2, <2>3, AppendFacts, DeliveryAssumption DEF Deliveries
  <2>6. \A i \in 1..Len(published') : published'[i] \in Nat
    BY <1>t, DeliveryAssumption DEF TypeOK, Deliveries
  <2> QED BY <1>0, <2>1, <2>4, <2>5, <2>6, PublishRound DEF PublishOrder, Nothing
<1>4. CASE PublishFailed
  <2>1. /\ publishing # Nothing /\ accepted' = accepted /\ NextPublish
        /\ published' = published
    BY <1>4 DEF PublishFailed
  <2> QED BY <1>0, <1>n, <2>1, PublishRound DEF PublishOrder, Increasing, Nothing
<1>5. CASE SideEffectsStart \/ SideEffectsDone \/ SideEffectsFailed
  BY <1>0, <1>5, PublisherIdle
     DEF SideEffectsStart, SideEffectsDone, SideEffectsFailed, publisher
<1>6. CASE Disconnect \/ FlushTurn \/ UNCHANGED vars
  BY <1>0, <1>6, PublisherIdle DEF Disconnect, FlushTurn, vars, publisher
<1>7. CASE Kill
  <2>1. CancelPublish /\ accepted' = accepted
    BY <1>7 DEF Kill
  <2>2. /\ publishQueue' = publishQueue /\ publishing' \in {Nothing, publishing}
        /\ \/ published' = published
           \/ /\ publishing \in Deliveries /\ publishing' = Nothing
              /\ published' = Append(published, publishing)
    BY <1>0, <2>1, CancelledPublish
  <2>3. Taken' = Taken
    BY <2>1, <2>2 DEF Taken
  <2>4. CASE published' = published
    BY <1>0, <2>1, <2>2, <2>3, <2>4 DEF PublishOrder, Increasing
  <2>5. CASE publishing \in Deliveries /\ publishing' = Nothing
             /\ published' = Append(published, publishing)
    <3>1. publishing = Taken
      BY <1>0, <2>5, DeliveryAssumption DEF PublishOrder, Deliveries, Nothing
    <3>2. \A i \in 1..Len(published) : published[i] < publishing
      BY <1>0, <2>5, DeliveryAssumption DEF PublishOrder, Deliveries, Nothing
    <3>3. Increasing(published)'
      BY <1>0, <1>n, <2>5, <3>2, IncreasingAppend DEF PublishOrder
    <3>4. \A i \in 1..Len(published') : published'[i] <= Taken
      BY <1>n, <2>5, <3>1, <3>2, AppendFacts, DeliveryAssumption DEF Deliveries
    <3> QED BY <1>0, <2>1, <2>2, <2>3, <2>5, <3>3, <3>4 DEF PublishOrder
  <2> QED BY <2>2, <2>4, <2>5
<1> QED BY <1>1, <1>2, <1>3, <1>4, <1>5, <1>6, <1>7 DEF Next

-----------------------------------------------------------------------------
(* The side effects' bookkeeping does not mind a longer published sequence.*)
LEMMA SideIdle ==
  ASSUME TypeOK, SideOrder,
         UNCHANGED <<sideEffectQueue, effecting, effected>>,
         \/ published' = published
         \/ /\ publishing \in Deliveries
            /\ published' = Append(published, publishing)
  PROVE  SideOrder'
<1>1. \A x : (\E k \in 1..Len(published) : published[k] = x)
               => \E k \in 1..Len(published') : published'[k] = x
  <2>1. CASE published' = published
    BY <2>1
  <2>2. CASE publishing \in Deliveries /\ published' = Append(published, publishing)
    <3>1. published \in Seq(Deliveries) /\ Len(published) \in Nat
      BY DEF TypeOK
    <3>2. /\ Len(published') = Len(published) + 1
          /\ \A k \in 1..Len(published) : published'[k] = published[k]
      BY <2>2, <3>1, AppendFacts
    <3> QED BY <3>1, <3>2
  <2> QED BY <2>1, <2>2
<1> QED BY <1>1 DEF SideOrder, Increasing

(* The side-effect worker's next round, once what it held is out of its    *)
(* hands, keeps the order; the two cases differ in what became of that.    *)
LEMMA SideRoundOrder ==
  ASSUME TypeOK, SideOrder, NextSideEffects, published' = published,
         effected' \in Seq(Deliveries), Increasing(effected'),
         \A j \in 1..Len(effected') :
           /\ \E k \in 1..Len(published) : published[k] = effected'[j]
           /\ \A i \in 1..Len(sideEffectQueue) : effected'[j] < sideEffectQueue[i]
  PROVE  SideOrder'
<1>1. sideEffectQueue \in Seq(Deliveries) /\ Increasing(sideEffectQueue)
  BY DEF TypeOK, SideOrder
<1>2. CASE sideEffectQueue = << >>
  BY <1>2, SideRound DEF SideOrder, Increasing, Nothing
<1>3. CASE sideEffectQueue # << >>
  <2>1. /\ sideEffectQueue' = Tail(sideEffectQueue)
        /\ effecting' = sideEffectQueue[1] /\ effecting' \in Deliveries
        /\ Len(sideEffectQueue) \in Nat \ {0}
        /\ Len(sideEffectQueue') = Len(sideEffectQueue) - 1
        /\ \A i \in 1..Len(sideEffectQueue') :
             sideEffectQueue'[i] = sideEffectQueue[i + 1]
    BY <1>3, SideRound
  <2>2. /\ Increasing(sideEffectQueue)'
        /\ \A i \in 1..Len(sideEffectQueue') : effecting' < sideEffectQueue'[i]
    BY <1>1, <1>3, <2>1, IncreasingTail, TailFacts
  <2>3. \A i \in 1..Len(sideEffectQueue) :
          \E k \in 1..Len(published) : published[k] = sideEffectQueue[i]
    BY DEF SideOrder
  <2>4. \A i \in 1..Len(sideEffectQueue') :
          /\ \E k \in 1..Len(published') : published'[k] = sideEffectQueue'[i]
          /\ \A j \in 1..Len(effected') : effected'[j] < sideEffectQueue'[i]
    BY <2>1, <2>3
  <2>5. \A j \in 1..Len(effected') :
          /\ \E k \in 1..Len(published') : published'[k] = effected'[j]
          /\ effected'[j] < effecting'
    BY <2>1
  <2>6. \E k \in 1..Len(published') : published'[k] = effecting'
    BY <2>1, <2>3
  <2> QED BY <2>2, <2>4, <2>5, <2>6 DEF SideOrder, Increasing
<1> QED BY <1>2, <1>3

LEMMA SideOrderStep == IInv /\ [Next]_vars => SideOrder'
<1> SUFFICES ASSUME IInv, [Next]_vars PROVE SideOrder' OBVIOUS
<1>0. TypeOK /\ PublishOrder /\ SideOrder /\ TasksHold
  BY DEF IInv
<1>n. /\ published \in Seq(Deliveries) /\ effected \in Seq(Deliveries)
      /\ sideEffectQueue \in Seq(Deliveries)
      /\ Len(published) \in Nat /\ Len(effected) \in Nat
      /\ Len(sideEffectQueue) \in Nat
  BY <1>0 DEF TypeOK
<1>m. /\ \A i \in 1..Len(published) : published[i] \in Nat \ {0}
      /\ \A i \in 1..Len(effected) : effected[i] \in Nat \ {0}
      /\ \A i \in 1..Len(sideEffectQueue) : sideEffectQueue[i] \in Nat \ {0}
      /\ effecting \in Nat /\ publishing \in Nat
  BY <1>0, <1>n, DeliveryAssumption DEF TypeOK, Deliveries, Nothing
<1>1. CASE Enqueue \/ PublishStart \/ PublishFailed
  BY <1>0, <1>1, SideIdle DEF Enqueue, PublishStart, PublishFailed, sideWorker
<1>2. CASE Disconnect \/ FlushTurn \/ UNCHANGED vars
  BY <1>0, <1>2, SideIdle DEF Disconnect, FlushTurn, vars, sideWorker
<1>3. CASE PublishDone
  <2>1. /\ publishing # Nothing /\ effecting' = effecting /\ effected' = effected
        /\ published' = Append(published, publishing)
        /\ sideEffectQueue' = Append(sideEffectQueue, publishing)
    BY <1>3 DEF PublishDone
  <2>2. publishing \in Deliveries
    BY <1>0, <2>1 DEF TypeOK
  <2>3. \A i \in 1..Len(published) : published[i] < publishing
    BY <1>0, <2>1 DEF PublishOrder
  <2>4. /\ Len(published') = Len(published) + 1
        /\ \A i \in 1..Len(published) : published'[i] = published[i]
        /\ published'[Len(published) + 1] = publishing
    BY <1>n, <2>1, <2>2, AppendFacts
  <2>5. /\ Len(sideEffectQueue') = Len(sideEffectQueue) + 1
        /\ \A i \in 1..Len(sideEffectQueue) : sideEffectQueue'[i] = sideEffectQueue[i]
        /\ sideEffectQueue'[Len(sideEffectQueue) + 1] = publishing
    BY <1>n, <2>1, <2>2, AppendFacts
  <2>6. \A x : (\E k \in 1..Len(published) : published[k] = x)
                 => /\ x < publishing
                    /\ \E k \in 1..Len(published') : published'[k] = x
    BY <1>n, <2>3, <2>4
  <2>7. /\ \A i \in 1..Len(sideEffectQueue) : sideEffectQueue[i] < publishing
        /\ \A j \in 1..Len(effected) : effected[j] < publishing
        /\ effecting < publishing
    <3>1. \A i \in 1..Len(sideEffectQueue) : sideEffectQueue[i] < publishing
      BY <1>0, <2>6 DEF SideOrder
    <3>2. \A j \in 1..Len(effected) : effected[j] < publishing
      BY <1>0, <2>6 DEF SideOrder
    <3>3. CASE effecting = Nothing
      BY <1>m, <2>1, <3>1, <3>2, <3>3 DEF Nothing
    <3>4. CASE effecting # Nothing
      BY <1>0, <2>6, <3>1, <3>2, <3>4 DEF SideOrder
    <3> QED BY <3>3, <3>4
  <2>8. Increasing(sideEffectQueue)'
    BY <1>0, <1>n, <2>1, <2>2, <2>7, IncreasingAppend DEF SideOrder
  <2>9. \A i \in 1..Len(sideEffectQueue') :
          /\ \E k \in 1..Len(published') : published'[k] = sideEffectQueue'[i]
          /\ \A j \in 1..Len(effected') : effected'[j] < sideEffectQueue'[i]
          /\ effecting' < sideEffectQueue'[i]
    <3> SUFFICES ASSUME NEW i \in 1..Len(sideEffectQueue')
                 PROVE  /\ \E k \in 1..Len(published') :
                             published'[k] = sideEffectQueue'[i]
                        /\ \A j \in 1..Len(effected') :
                             effected'[j] < sideEffectQueue'[i]
                        /\ effecting' < sideEffectQueue'[i]
      OBVIOUS
    <3>1. CASE i = Len(sideEffectQueue) + 1
      <4>1. sideEffectQueue'[i] = publishing
        BY <2>5, <3>1
      <4>2. Len(published) + 1 \in 1..Len(published')
        BY <1>n, <2>4
      <4> QED BY <2>1, <2>4, <2>7, <4>1, <4>2
    <3>2. CASE i \in 1..Len(sideEffectQueue)
      BY <1>0, <2>1, <2>5, <2>6, <3>2 DEF SideOrder
    <3> QED BY <1>n, <2>5, <3>1, <3>2
  <2> QED BY <1>0, <2>1, <2>6, <2>8, <2>9 DEF SideOrder, Increasing
<1>4. CASE SideEffectsStart \/ SideEffectsFailed
  BY <1>0, <1>n, <1>4, SideRoundOrder
     DEF SideEffectsStart, SideEffectsFailed, SideOrder
<1>5. CASE SideEffectsDone
  <2>1. /\ effecting # Nothing /\ NextSideEffects /\ published' = published
        /\ effected' = Append(effected, effecting)
    BY <1>5 DEF SideEffectsDone
  <2>2. effecting \in Deliveries
    BY <1>0, <2>1 DEF TypeOK
  <2>3. /\ effected' \in Seq(Deliveries)
        /\ Len(effected') = Len(effected) + 1
        /\ \A i \in 1..Len(effected) : effected'[i] = effected[i]
        /\ effected'[Len(effected) + 1] = effecting
    BY <1>n, <2>1, <2>2, AppendFacts
  <2>4. Increasing(effected')
    BY <1>0, <1>n, <2>1, <2>2, IncreasingAppend DEF SideOrder
  <2>5. \A j \in 1..Len(effected') :
          /\ \E k \in 1..Len(published) : published[k] = effected'[j]
          /\ \A i \in 1..Len(sideEffectQueue) : effected'[j] < sideEffectQueue[i]
    <3> SUFFICES ASSUME NEW j \in 1..Len(effected')
                 PROVE  /\ \E k \in 1..Len(published) : published[k] = effected'[j]
                        /\ \A i \in 1..Len(sideEffectQueue) :
                             effected'[j] < sideEffectQueue[i]
      OBVIOUS
    <3>1. CASE j = Len(effected) + 1
      BY <1>0, <2>1, <2>3, <3>1 DEF SideOrder
    <3>2. CASE j \in 1..Len(effected)
      BY <1>0, <2>3, <3>2 DEF SideOrder
    <3> QED BY <1>n, <2>3, <3>1, <3>2
  <2> QED BY <1>0, <2>1, <2>3, <2>4, <2>5, SideRoundOrder
<1>6. CASE Kill
  <2>1. /\ sideEffectQueue' = sideEffectQueue
        /\ effecting' \in {Nothing, effecting}
        /\ \/ effected' = effected
           \/ /\ effecting \in Deliveries /\ effecting' = Nothing
              /\ effected' = Append(effected, effecting)
    BY <1>0, <1>6, CancelledSideEffects DEF Kill
  <2>2. \/ published' = published
        \/ /\ publishing \in Deliveries
           /\ published' = Append(published, publishing)
    BY <1>0, <1>6, CancelledPublish DEF Kill
  <2>3. \A x : (\E k \in 1..Len(published) : published[k] = x)
                 => \E k \in 1..Len(published') : published'[k] = x
    <3>1. CASE publishing \in Deliveries /\ published' = Append(published, publishing)
      <4>1. /\ Len(published') = Len(published) + 1
            /\ \A k \in 1..Len(published) : published'[k] = published[k]
        BY <1>n, <3>1, AppendFacts
      <4> QED BY <1>n, <4>1
    <3> QED BY <2>2, <3>1
  <2>4. CASE effected' = effected
    <3>1. \A i \in 1..Len(sideEffectQueue) : effecting' < sideEffectQueue[i]
      BY <1>0, <1>m, <2>1 DEF SideOrder, Nothing
    <3>2. effecting' # Nothing => effecting' = effecting
      BY <2>1
    <3> QED BY <1>0, <2>1, <2>3, <2>4, <3>1, <3>2 DEF SideOrder, Increasing
  <2>5. CASE effecting \in Deliveries /\ effecting' = Nothing
             /\ effected' = Append(effected, effecting)
    <3>0. effecting # Nothing
      BY <2>5, DeliveryAssumption DEF Deliveries, Nothing
    <3>1. /\ Len(effected') = Len(effected) + 1
          /\ \A i \in 1..Len(effected) : effected'[i] = effected[i]
          /\ effected'[Len(effected) + 1] = effecting
      BY <1>n, <2>5, AppendFacts
    <3>2. Increasing(effected)'
      BY <1>0, <1>n, <2>5, <3>0, IncreasingAppend DEF SideOrder
    <3>3. \A j \in 1..Len(effected') :
            /\ \E k \in 1..Len(published) : published[k] = effected'[j]
            /\ \A i \in 1..Len(sideEffectQueue) : effected'[j] < sideEffectQueue[i]
      <4> SUFFICES ASSUME NEW j \in 1..Len(effected')
                   PROVE  /\ \E k \in 1..Len(published) : published[k] = effected'[j]
                          /\ \A i \in 1..Len(sideEffectQueue) :
                               effected'[j] < sideEffectQueue[i]
        OBVIOUS
      <4>1. CASE j = Len(effected) + 1
        BY <1>0, <3>0, <3>1, <4>1 DEF SideOrder
      <4>2. CASE j \in 1..Len(effected)
        BY <1>0, <3>1, <4>2 DEF SideOrder
      <4> QED BY <1>n, <3>1, <4>1, <4>2
    <3>4. \A i \in 1..Len(sideEffectQueue) : effecting' < sideEffectQueue[i]
      BY <1>m, <2>5 DEF Nothing
    <3> QED BY <1>0, <2>1, <2>3, <2>5, <3>2, <3>3, <3>4 DEF SideOrder, Increasing
  <2> QED BY <2>1, <2>4, <2>5
<1> QED BY <1>1, <1>2, <1>3, <1>4, <1>5, <1>6 DEF Next

-----------------------------------------------------------------------------
LEMMA TasksHoldStep == IInv /\ [Next]_vars => TasksHold'
<1> SUFFICES ASSUME IInv, [Next]_vars PROVE TasksHold' OBVIOUS
<1>0. TypeOK /\ PublishOrder /\ TasksHold
  BY DEF IInv
<1>n. 0 \notin Deliveries
  BY DeliveryAssumption DEF Deliveries
<1>1. CASE Enqueue
  <2>1. publishQueue' # << >>
    BY <1>0, <1>1, AppendFacts DEF Enqueue, TypeOK
  <2> QED BY <1>0, <1>1, <2>1 DEF Enqueue, Ensure, TasksHold, TypeOK, sideWorker
<1>2. CASE PublishStart
  BY <1>0, <1>2, <1>n, PublishRound DEF PublishStart, TasksHold, sideWorker, Nothing
<1>3. CASE PublishDone
  <2>1. /\ publishing # Nothing /\ NextPublish /\ accepted' = accepted
        /\ sideEffectQueue' = Append(sideEffectQueue, publishing)
        /\ sideEffectTask' = Ensure(sideEffectTask)
        /\ effecting' = effecting /\ flush' = flush /\ cancelled' = cancelled
    BY <1>3 DEF PublishDone
  <2>2. /\ \/ /\ publishQueue' = << >> /\ publishing' = Nothing
              /\ publishTask' = "none" /\ awaited' = awaited \ {"publish"}
           \/ /\ publishing' # Nothing /\ publishTask' = "run"
              /\ awaited' = awaited
    BY <1>0, <1>n, <2>1, PublishRound DEF Nothing
  <2> QED BY <1>0, <2>1, <2>2 DEF TasksHold, Ensure, TypeOK
<1>4. CASE PublishFailed
  BY <1>0, <1>4, <1>n, PublishRound DEF PublishFailed, TasksHold, sideWorker, Nothing
<1>5. CASE SideEffectsStart
  BY <1>0, <1>5, <1>n, SideRound DEF SideEffectsStart, TasksHold, publisher, Nothing
<1>6. CASE SideEffectsDone
  BY <1>0, <1>6, <1>n, SideRound DEF SideEffectsDone, TasksHold, publisher, Nothing
<1>7. CASE SideEffectsFailed
  BY <1>0, <1>7, <1>n, SideRound DEF SideEffectsFailed, TasksHold, publisher, Nothing
<1>8. CASE Disconnect
  BY <1>0, <1>8 DEF Disconnect, TasksHold, publisher, sideWorker
<1>9. CASE FlushTurn
  BY <1>0, <1>9 DEF FlushTurn, Pending, Tasks, TasksHold, TypeOK, publisher, sideWorker
<1>10. CASE Kill
  BY <1>0, <1>10, CancelledPublish, CancelledSideEffects DEF Kill, TasksHold
<1>11. CASE UNCHANGED vars
  BY <1>0, <1>11 DEF vars, TasksHold, publisher, sideWorker
<1> QED BY <1>1, <1>2, <1>3, <1>4, <1>5, <1>6, <1>7, <1>8, <1>9, <1>10, <1>11 DEF Next

-----------------------------------------------------------------------------
(* Membership in the two sequences of the side-effect worker.              *)
Queued(d) == In(sideEffectQueue, d)
Effected(d) == In(effected, d)

(* What the side-effect worker takes leaves its queue.                     *)
LEMMA SideRoundQueue ==
  ASSUME TypeOK, SideOrder, NextSideEffects
  PROVE  /\ \A d : Queued(d) <=> Queued(d)' \/ (d = effecting' /\ effecting' # Nothing)
         /\ effecting' # Nothing => ~In(sideEffectQueue', effecting')
<1>n. Nothing \notin Deliveries /\ sideEffectQueue \in Seq(Deliveries)
  BY DeliveryAssumption DEF TypeOK, Deliveries, Nothing
<1>1. CASE sideEffectQueue = << >>
  BY <1>1, SideRound DEF Queued
<1>2. CASE sideEffectQueue # << >>
  <2>1. /\ effecting' = sideEffectQueue[1] /\ effecting' \in Deliveries
        /\ sideEffectQueue' = Tail(sideEffectQueue)
    BY <1>2, SideRound
  <2>2. Increasing(sideEffectQueue)
    BY DEF SideOrder
  <2>3. /\ \A d : In(sideEffectQueue, d) <=>
                 In(Tail(sideEffectQueue), d) \/ d = sideEffectQueue[1]
        /\ ~In(Tail(sideEffectQueue), sideEffectQueue[1])
    BY <1>n, <1>2, <2>2, InTail
  <2>4. /\ \A d : Queued(d) <=> In(sideEffectQueue, d)
        /\ \A d : Queued(d)' <=> In(Tail(sideEffectQueue), d)
    BY <2>1 DEF Queued
  <2>5. effecting' # Nothing
    BY <1>n, <2>1
  <2>6. ~In(sideEffectQueue', effecting')
    BY <2>1, <2>3
  <2> QED BY <2>1, <2>3, <2>4, <2>5, <2>6
<1> QED BY <1>1, <1>2

LEMMA AccountedIs ==
  Accounted <=>
    /\ \A d \in failed \union cancelled :
         d <= Taken /\ d # publishing /\ d # effecting /\ ~Queued(d)
    /\ \A d \in 1..Taken :
         \/ d = publishing \/ d = effecting \/ d \in failed \union cancelled
         \/ Queued(d) \/ Effected(d)
BY DEF Accounted, Queued, Effected, In

(* What the side-effect worker has in hand or queued was published, and    *)
(* so came before what the publish worker has in hand.                     *)
LEMMA SideIsPast ==
  ASSUME TypeOK, PublishOrder, SideOrder
  PROVE  /\ \A d : Queued(d) => /\ d <= Taken
                                /\ publishing # Nothing => d # publishing
                                /\ d # effecting
         /\ effecting # Nothing =>
              effecting <= Taken /\ effecting # publishing
         /\ \A d : Effected(d) => d # publishing
<1>1. \A k \in 1..Len(published) :
        /\ published[k] <= Taken
        /\ publishing # Nothing => published[k] # publishing
  <2> SUFFICES ASSUME NEW k \in 1..Len(published)
               PROVE  /\ published[k] <= Taken
                      /\ publishing # Nothing => published[k] # publishing
    OBVIOUS
  <2>1. published[k] \in Nat
    BY DeliveryAssumption DEF TypeOK, Deliveries
  <2> QED BY <2>1 DEF PublishOrder
<1>2. \A i \in 1..Len(sideEffectQueue) : sideEffectQueue[i] # effecting
  BY DeliveryAssumption DEF SideOrder, TypeOK, Deliveries, Nothing
<1>3. \A j \in 1..Len(effected) : effected[j] # Nothing
  BY DeliveryAssumption DEF TypeOK, Deliveries, Nothing
<1> QED BY <1>1, <1>2, <1>3 DEF SideOrder, Queued, Effected, In

LEMMA AccountedStep == IInv /\ [Next]_vars => Accounted'
<1> SUFFICES ASSUME IInv, [Next]_vars PROVE Accounted' OBVIOUS
<1>0. TypeOK /\ PublishOrder /\ SideOrder /\ TasksHold /\ Accounted
  BY DEF IInv
<1>n. /\ Taken \in Nat /\ Nothing \notin Deliveries
      /\ effected \in Seq(Deliveries) /\ sideEffectQueue \in Seq(Deliveries)
      /\ Len(effected) \in Nat /\ Len(sideEffectQueue) \in Nat
      /\ failed \subseteq Deliveries /\ cancelled \subseteq Deliveries
      /\ \A d \in Deliveries : d \in Nat \ {0}
  BY <1>0, DeliveryAssumption DEF TypeOK, Taken, PublishOrder, Deliveries, Nothing
<1>a. /\ \A d \in failed \union cancelled :
           d <= Taken /\ d # publishing /\ d # effecting /\ ~Queued(d)
      /\ \A d \in 1..Taken :
           \/ d = publishing \/ d = effecting \/ d \in failed \union cancelled
           \/ Queued(d) \/ Effected(d)
  BY <1>0, AccountedIs
<1>p. /\ \A d : Queued(d) => /\ d <= Taken
                             /\ publishing # Nothing => d # publishing
                             /\ d # effecting
      /\ effecting # Nothing => effecting <= Taken /\ effecting # publishing
      /\ \A d : Effected(d) => d # publishing
  BY <1>0, SideIsPast
<1>1. CASE Enqueue
  <2>1. Taken' = Taken
    BY <1>0, <1>1, AppendFacts, DeliveryAssumption DEF Enqueue, Taken, TypeOK, Deliveries
  <2> QED BY <1>0, <1>1, <2>1 DEF Enqueue, Accounted, sideWorker
<1>2. CASE PublishStart \/ PublishFailed
  <2>1. /\ NextPublish /\ accepted' = accepted
        /\ UNCHANGED <<sideEffectQueue, effecting, effected, cancelled>>
        /\ \/ publishing = Nothing /\ failed' = failed
           \/ publishing \in Deliveries /\ failed' = failed \union {publishing}
    BY <1>0, <1>2 DEF PublishStart, PublishFailed, TasksHold, sideWorker, TypeOK
  <2>2. \/ Taken' = Taken /\ publishing' = Nothing
        \/ Taken' = Taken + 1 /\ publishing' = Taken'
    BY <1>0, <2>1, PublishRound
  <2>3. publishing \in Deliveries => publishing = Taken
    BY <1>0, <1>n DEF PublishOrder
  <2>4. /\ \A d : Queued(d)' <=> Queued(d)
        /\ \A d : Effected(d)' <=> Effected(d)
    BY <2>1 DEF Queued, Effected
  <2>5. \A d \in (failed \union cancelled)' :
          d <= Taken' /\ d # publishing' /\ d # effecting' /\ ~Queued(d)'
    <3> SUFFICES ASSUME NEW d \in (failed \union cancelled)'
                 PROVE  /\ d <= Taken' /\ d # publishing' /\ d # effecting'
                        /\ ~Queued(d)'
      OBVIOUS
    <3>1. d \in Deliveries /\ d <= Taken /\ d # effecting /\ ~Queued(d)
      BY <1>n, <1>a, <1>p, <2>1, <2>3
    <3> QED BY <1>n, <2>1, <2>2, <2>4, <3>1
  <2>6. \A d \in (1..Taken)' :
          \/ d = publishing' \/ d = effecting' \/ d \in (failed \union cancelled)'
          \/ Queued(d)' \/ Effected(d)'
    <3> SUFFICES ASSUME NEW d \in 1..Taken', d # publishing'
                 PROVE  \/ d = effecting' \/ d \in (failed \union cancelled)'
                        \/ Queued(d)' \/ Effected(d)'
      OBVIOUS
    <3>1. d \in 1..Taken
      BY <1>n, <2>2
    <3> QED BY <1>n, <1>a, <2>1, <2>4, <3>1 DEF Nothing
  <2> QED BY <2>5, <2>6 DEF Accounted, Queued, Effected, In
<1>3. CASE PublishDone
  <2>1. /\ publishing \in Deliveries /\ NextPublish /\ accepted' = accepted
        /\ sideEffectQueue' = Append(sideEffectQueue, publishing)
        /\ UNCHANGED <<effecting, effected, failed, cancelled>>
    BY <1>0, <1>3 DEF PublishDone, TypeOK
  <2>2. /\ \/ Taken' = Taken /\ publishing' = Nothing
           \/ Taken' = Taken + 1 /\ publishing' = Taken'
        /\ publishing = Taken
    BY <1>0, <1>n, <2>1, PublishRound DEF PublishOrder
  <2>3. \A d : Queued(d)' <=> Queued(d) \/ d = publishing
    BY <1>n, <2>1, InAppend DEF Queued
  <2>4. \A d : Effected(d)' <=> Effected(d)
    BY <2>1 DEF Effected
  <2>5. \A d \in (failed \union cancelled)' :
          d <= Taken' /\ d # publishing' /\ d # effecting' /\ ~Queued(d)'
    BY <1>n, <1>a, <2>1, <2>2, <2>3
  <2>6. \A d \in (1..Taken)' :
          \/ d = publishing' \/ d = effecting' \/ d \in (failed \union cancelled)'
          \/ Queued(d)' \/ Effected(d)'
    BY <1>n, <1>a, <2>1, <2>2, <2>3, <2>4
  <2> QED BY <2>5, <2>6 DEF Accounted, Queued, Effected, In
<1>4. CASE SideEffectsStart \/ SideEffectsDone \/ SideEffectsFailed
  <2>1. /\ NextSideEffects /\ UNCHANGED <<accepted, publishQueue, publishing, cancelled>>
        /\ \/ effecting = Nothing /\ failed' = failed /\ effected' = effected
           \/ /\ effecting \in Deliveries
              /\ \/ failed' = failed \union {effecting} /\ effected' = effected
                 \/ failed' = failed /\ effected' = Append(effected, effecting)
    BY <1>0, <1>4 DEF SideEffectsStart, SideEffectsDone, SideEffectsFailed,
                      TasksHold, TypeOK, publisher
  <2>2. /\ \A d : Queued(d) <=> Queued(d)' \/ (d = effecting' /\ effecting' # Nothing)
        /\ effecting' # Nothing => ~In(sideEffectQueue', effecting')
    BY <1>0, <2>1, SideRoundQueue
  <2>3. /\ \A d : Effected(d) => Effected(d)'
        /\ \/ effecting = Nothing
           \/ effecting \in failed' \/ In(effected', effecting)
    <3>1. CASE effecting \in Deliveries /\ effected' = Append(effected, effecting)
      BY <1>n, <3>1, InAppend DEF Effected
    <3> QED BY <2>1, <3>1 DEF Effected
  <2>5. Taken' = Taken /\ publishing' = publishing
    BY <2>1 DEF Taken
  <2>6. \A d \in (failed \union cancelled)' :
          d <= Taken' /\ d # publishing' /\ d # effecting' /\ ~Queued(d)'
    <3> SUFFICES ASSUME NEW d \in (failed \union cancelled)'
                 PROVE  /\ d <= Taken' /\ d # publishing' /\ d # effecting'
                        /\ ~Queued(d)'
      OBVIOUS
    <3>1. d # Nothing /\ d \in Nat
      BY <1>n, <2>1
    <3>2. d <= Taken /\ d # publishing /\ ~Queued(d)
      BY <1>n, <1>a, <1>p, <2>1, <3>1
    <3> QED BY <2>2, <2>5, <3>1, <3>2
  <2>7. \A d \in (1..Taken)' :
          \/ d = publishing' \/ d = effecting' \/ d \in (failed \union cancelled)'
          \/ Queued(d)' \/ Effected(d)'
    <3> SUFFICES ASSUME NEW d \in 1..Taken, d # publishing
                 PROVE  \/ d = effecting' \/ d \in (failed \union cancelled)'
                        \/ Queued(d)' \/ Effected(d)'
      BY <2>5
    <3>1. d # Nothing
      BY DEF Nothing
    <3>2. \/ d = effecting \/ d \in failed \union cancelled
          \/ Queued(d) \/ Effected(d)
      BY <1>a
    <3>3. CASE d = effecting
      BY <2>1, <2>3, <3>1, <3>3 DEF Effected
    <3>4. CASE Queued(d)
      BY <2>2, <3>4
    <3>5. CASE Effected(d)
      BY <2>3, <3>5
    <3>6. CASE d \in failed \union cancelled
      BY <2>1, <3>6
    <3> QED BY <3>2, <3>3, <3>4, <3>5, <3>6
  <2> QED BY <2>6, <2>7 DEF Accounted, Queued, Effected, In
<1>5. CASE Disconnect \/ FlushTurn \/ UNCHANGED vars
  BY <1>0, <1>5 DEF Disconnect, FlushTurn, vars, publisher, sideWorker, Accounted, Taken
<1>6. CASE Kill
  <2>1. /\ publishQueue' = publishQueue /\ accepted' = accepted
        /\ sideEffectQueue' = sideEffectQueue /\ failed' = failed
        /\ cancelled' = cancelled \union Held
        /\ IF "publish" \in awaited
           THEN publishing \in Deliveries /\ publishing' = Nothing
           ELSE publishing' = publishing
        /\ IF "side_effects" \in awaited
           THEN effecting \in Deliveries /\ effecting' = Nothing
           ELSE effecting' = effecting
        /\ \/ effected' = effected
           \/ /\ effecting \in Deliveries
              /\ effected' = Append(effected, effecting)
    BY <1>0, <1>6, CancelledPublish, CancelledSideEffects DEF Kill
  <2>2. /\ "publish" \in awaited => publishing \in Held
        /\ "side_effects" \in awaited => effecting \in Held
        /\ \A d \in Held : \/ d = publishing /\ "publish" \in awaited
                           \/ d = effecting /\ "side_effects" \in awaited
        /\ Nothing \notin Held
    BY <1>n, <2>1 DEF Held
  <2>3. /\ Taken' = Taken /\ \A d : Queued(d)' <=> Queued(d)
        /\ \A d : Effected(d) => Effected(d)'
    <3>1. \A d : Effected(d) => Effected(d)'
      <4>1. CASE effecting \in Deliveries /\ effected' = Append(effected, effecting)
        BY <1>n, <4>1, InAppend DEF Effected
      <4> QED BY <2>1, <4>1 DEF Effected
    <3> QED BY <2>1, <3>1 DEF Taken, Queued
  <2>4. publishing \in {Nothing, Taken}
    BY <1>0 DEF PublishOrder
  <2>5. \A d \in (failed \union cancelled)' :
          d <= Taken' /\ d # publishing' /\ d # effecting' /\ ~Queued(d)'
    <3> SUFFICES ASSUME NEW d \in (failed \union cancelled)'
                 PROVE  /\ d <= Taken' /\ d # publishing' /\ d # effecting'
                        /\ ~Queued(d)'
      OBVIOUS
    <3>1. CASE d \in failed \union cancelled
      <4>1. d # Nothing
        BY <1>n, <3>1
      <4> QED BY <1>a, <2>1, <2>3, <3>1, <4>1
    <3>2. CASE d \in Held
      <4>1. d # Nothing
        BY <2>2, <3>2
      <4>2. CASE d = publishing /\ "publish" \in awaited
        BY <1>n, <1>p, <2>1, <2>3, <2>4, <4>1, <4>2
      <4>3. CASE d = effecting /\ "side_effects" \in awaited
        BY <1>n, <1>p, <2>1, <2>3, <4>1, <4>3
      <4> QED BY <2>2, <3>2, <4>2, <4>3
    <3> QED BY <2>1, <3>1, <3>2
  <2>6. \A d \in (1..Taken)' :
          \/ d = publishing' \/ d = effecting' \/ d \in (failed \union cancelled)'
          \/ Queued(d)' \/ Effected(d)'
    BY <1>a, <2>1, <2>2, <2>3
  <2> QED BY <2>5, <2>6 DEF Accounted, Queued, Effected, In
<1> QED BY <1>1, <1>2, <1>3, <1>4, <1>5, <1>6 DEF Next

-----------------------------------------------------------------------------
LEMMA InitIInv == Init => IInv
<1> SUFFICES ASSUME Init PROVE IInv OBVIOUS
<1>1. /\ accepted = 0 /\ Taken = 0
      /\ Len(publishQueue) = 0 /\ Len(sideEffectQueue) = 0
      /\ Len(published) = 0 /\ Len(effected) = 0
  <2>1. Len(<< >>) = 0
    OBVIOUS
  <2>2. /\ accepted = 0
        /\ publishQueue = << >> /\ sideEffectQueue = << >>
        /\ published = << >> /\ effected = << >>
    BY DEF Init
  <2>3. Len(publishQueue) = 0 /\ Len(sideEffectQueue) = 0
    BY <2>1, <2>2, Zenon
  <2>4. Len(published) = 0 /\ Len(effected) = 0
    BY <2>1, <2>2, Zenon
  <2>5. Taken = 0
    <3>1. accepted = 0 /\ Len(publishQueue) = 0
      BY <2>2, <2>3
    <3>2. \A a, b : a = 0 /\ b = 0 => a - b = 0
      OBVIOUS
    <3> QED BY <3>1, <3>2, Zenon DEF Taken
  <2> QED BY <2>2, <2>3, <2>4, <2>5
<1>2. TypeOK
  BY DeliveryAssumption DEF Init, TypeOK, Nothing
<1>3. PublishOrder /\ SideOrder
  BY <1>1 DEF Init, PublishOrder, SideOrder, Increasing, Nothing
<1>4. TasksHold /\ Accounted
  BY <1>1 DEF Init, TasksHold, Accounted, Nothing
<1> QED BY <1>2, <1>3, <1>4 DEF IInv

LEMMA IInvStep == IInv /\ [Next]_vars => IInv'
BY TypeStep, PublishOrderStep, SideOrderStep, TasksHoldStep, AccountedStep DEF IInv

THEOREM Invariance == Spec => []IInv
<1>1. Init => IInv
  BY InitIInv
<1>2. IInv /\ [Next]_vars => IInv'
  BY IInvStep
<1> QED BY <1>1, <1>2, PTL DEF Spec

-----------------------------------------------------------------------------
(* Types: TypeOK is part of the inductive invariant.                       *)
THEOREM TypeCorrect == Spec => []TypeOK
<1>1. IInv => TypeOK
  BY DEF IInv
<1> QED BY <1>1, Invariance, PTL

(* delivery.py's workers: no queue is ever left without one, so flush()'s  *)
(* branches that restart a worker are dead code.                           *)
THEOREM NoQueueIsStranded == Spec => []QueuesAreServed
<1>1. IInv => QueuesAreServed
  BY DEF IInv, TasksHold, QueuesAreServed
<1> QED BY <1>1, Invariance, PTL

(* The room and the inboxes see one connection's messages in the order in  *)
(* which they were saved, and inboxes only what the room was sent.         *)
THEOREM OrderIsKept == Spec => [](InOrder /\ EffectsFollowPublishing)
<1>1. IInv => InOrder /\ EffectsFollowPublishing
  <2> SUFFICES ASSUME IInv PROVE InOrder /\ EffectsFollowPublishing OBVIOUS
  <2>1. InOrder
    BY DEF IInv, PublishOrder, SideOrder, InOrder
  <2>2. published \in Seq(Deliveries) /\ effected \in Seq(Deliveries)
    BY DEF IInv, TypeOK
  <2>3. \A j \in 1..Len(effected) :
          \E k \in 1..Len(published) : published[k] = effected[j]
    BY DEF IInv, SideOrder
  <2>4. DOMAIN published = 1..Len(published) /\ DOMAIN effected = 1..Len(effected)
    BY <2>2
  <2>5. EffectsFollowPublishing
    BY <2>3, <2>4 DEF EffectsFollowPublishing, Range
  <2> QED BY <2>1, <2>5
<1> QED BY <1>1, Invariance, PTL

(* Where a delivery stands, in terms of the boundary and the side-effect   *)
(* worker's two sequences.                                                 *)
LEMMA Places ==
  ASSUME IInv
  PROVE  /\ \A d \in 1..accepted : Waiting(d) <=> d > Taken \/ d = publishing
         /\ \A d \in Deliveries : Published(d) <=> Queued(d) \/ d = effecting
         /\ \A d : Settled(d) <=> Effected(d) \/ d \in failed \/ d \in cancelled
         /\ \A d : Queued(d) \/ Effected(d) => d \in Deliveries /\ d <= Taken
         /\ accepted \in 0..MaxDeliveries /\ Taken \in 0..accepted
<1>1. /\ TypeOK /\ PublishOrder /\ SideOrder
  BY DEF IInv
<1>2. /\ publishQueue \in Seq(Deliveries) /\ sideEffectQueue \in Seq(Deliveries)
      /\ effected \in Seq(Deliveries) /\ published \in Seq(Deliveries)
      /\ accepted \in 0..MaxDeliveries /\ Len(publishQueue) \in Nat
  BY <1>1 DEF TypeOK
<1>3. Taken \in 0..accepted
  BY <1>1, <1>2, DeliveryAssumption DEF Taken, PublishOrder
<1>4. /\ DOMAIN publishQueue = 1..Len(publishQueue)
      /\ DOMAIN sideEffectQueue = 1..Len(sideEffectQueue)
      /\ DOMAIN effected = 1..Len(effected)
  BY <1>2
<1>5. \A d \in 1..accepted : d \in Range(publishQueue) <=> d > Taken
  <2> SUFFICES ASSUME NEW d \in 1..accepted
               PROVE  d \in Range(publishQueue) <=> d > Taken
    OBVIOUS
  <2>1. d \in Range(publishQueue) <=>
          \E i \in 1..Len(publishQueue) : publishQueue[i] = d
    BY <1>4 DEF Range
  <2>2. \A i \in 1..Len(publishQueue) : publishQueue[i] = Taken + i
    BY <1>1 DEF PublishOrder
  <2>3. ASSUME d > Taken PROVE d - Taken \in 1..Len(publishQueue) /\ publishQueue[d - Taken] = d
    <3>1. d - Taken \in 1..Len(publishQueue)
      BY <1>2, <1>3, <2>3, DeliveryAssumption DEF Taken
    <3> QED BY <1>2, <1>3, <2>2, <3>1
  <2> QED BY <1>2, <1>3, <2>1, <2>2, <2>3
<1>6. /\ \A d : d \in Range(sideEffectQueue) <=> Queued(d)
      /\ \A d : d \in Range(effected) <=> Effected(d)
  BY <1>4 DEF Range, Queued, Effected, In
<1>7. \A d : Queued(d) \/ Effected(d) => d \in Deliveries /\ d <= Taken
  <2>1. \A k \in 1..Len(published) : published[k] \in Deliveries /\ published[k] <= Taken
    BY <1>1, <1>2 DEF PublishOrder
  <2> QED BY <1>1, <2>1 DEF SideOrder, Queued, Effected, In
<1> QED BY <1>2, <1>3, <1>5, <1>6, <1>7 DEF Waiting, Published, Settled

LEMMA NotInTwoPlaces ==
  ASSUME IInv
  PROVE  \A d \in 1..accepted :
           /\ ~(Waiting(d) /\ Published(d))
           /\ ~(Settled(d) /\ (Waiting(d) \/ Published(d)))
<1>1. TypeOK /\ PublishOrder /\ SideOrder /\ Accounted
  BY DEF IInv
<1>2. /\ \A d : Queued(d) => /\ d <= Taken
                             /\ publishing # Nothing => d # publishing
                             /\ d # effecting
      /\ effecting # Nothing => effecting <= Taken /\ effecting # publishing
      /\ \A d : Effected(d) => d # publishing
  BY <1>1, SideIsPast
<1>3. \A d \in failed \union cancelled :
        d <= Taken /\ d # publishing /\ d # effecting /\ ~Queued(d)
  BY <1>1, AccountedIs
<1>4. \A d : Effected(d) => ~Queued(d) /\ d # effecting
  <2>1. \A i \in 1..Len(effected), j \in 1..Len(sideEffectQueue) :
          effected[i] < sideEffectQueue[j]
    BY <1>1 DEF SideOrder
  <2>2. \A i \in 1..Len(effected) : effected[i] \in Nat \ {0}
    BY <1>1, DeliveryAssumption DEF TypeOK, Deliveries
  <2>3. \A i \in 1..Len(effected) : effecting # Nothing => effected[i] < effecting
    BY <1>1 DEF SideOrder
  <2> QED BY <2>1, <2>2, <2>3 DEF Effected, Queued, In, Nothing
<1>5. \A d \in 1..accepted : d # Nothing /\ d \in Deliveries /\ d \in Nat
  BY <1>1, DeliveryAssumption DEF TypeOK, Deliveries, Nothing
<1> QED BY <1>2, <1>3, <1>4, <1>5, Places

(* Every delivery taken is in exactly one place.                           *)
THEOREM NothingDisappears == Spec => []NothingIsLost
<1>1. IInv => NothingIsLost
  <2> SUFFICES ASSUME IInv, NEW d \in 1..accepted
               PROVE  Waiting(d) \/ Published(d) \/ Settled(d)
    BY NotInTwoPlaces DEF NothingIsLost
  <2>1. d \in Deliveries
    BY Places, DeliveryAssumption DEF Deliveries
  <2>2. CASE d > Taken
    BY <2>2, Places
  <2>3. CASE ~(d > Taken)
    <3>1. d \in 1..Taken
      BY <2>3, Places
    <3>2. \/ d = publishing \/ d = effecting \/ d \in failed \union cancelled
          \/ Queued(d) \/ Effected(d)
      BY <3>1, AccountedIs DEF IInv
    <3> QED BY <2>1, <3>2, Places
  <2> QED BY <2>2, <2>3
<1> QED BY <1>1, Invariance, PTL

(* When flush() returns, the workers are gone and their queues empty, so   *)
(* all that was taken has settled.                                         *)
THEOREM FlushSettles == Spec => []FlushMeansSettled
<1>1. IInv => FlushMeansSettled
  <2> SUFFICES ASSUME IInv, flush = "done" PROVE FlushMeansSettled
    BY DEF FlushMeansSettled
  <2>1. /\ publishQueue = << >> /\ sideEffectQueue = << >> /\ cancelled = {}
        /\ publishing = Nothing /\ effecting = Nothing
    BY DEF IInv, TasksHold
  <2>2. Taken = accepted /\ \A d : ~Queued(d)
    BY <2>1, DeliveryAssumption DEF IInv, TypeOK, Taken, Queued, In
  <2>3. \A d \in 1..accepted : Effected(d) \/ d \in failed
    BY <2>1, <2>2, AccountedIs DEF IInv, Nothing
  <2>4. \A d : Effected(d) => d \in Range(effected)
    BY DEF IInv, TypeOK, Effected, In, Range
  <2> QED BY <2>1, <2>3, <2>4 DEF FlushMeansSettled
<1> QED BY <1>1, Invariance, PTL

(* The server's cancellation costs no more than the two deliveries held.   *)
THEOREM KillCost == Spec => []KillLosesOnlyWhatWasHeld
<1>1. Init => KillLosesOnlyWhatWasHeld
  BY FS_EmptySet DEF Init, KillLosesOnlyWhatWasHeld
<1>2. IInv /\ KillLosesOnlyWhatWasHeld /\ [Next]_vars => KillLosesOnlyWhatWasHeld'
  <2> SUFFICES ASSUME IInv, KillLosesOnlyWhatWasHeld, [Next]_vars
               PROVE  KillLosesOnlyWhatWasHeld'
    OBVIOUS
  <2>1. CASE Kill
    <3>1. cancelled' = Held
      BY <2>1 DEF Kill, IInv, TasksHold
    <3>2. Held \subseteq {publishing, effecting}
      BY DEF Held
    <3>3. /\ IsFiniteSet({publishing, effecting})
          /\ Cardinality({publishing, effecting}) <= 2
      <4>1. /\ IsFiniteSet({publishing}) /\ Cardinality({publishing}) = 1
        BY FS_Singleton
      <4>2. /\ IsFiniteSet({publishing} \union {effecting})
            /\ Cardinality({publishing} \union {effecting}) \in {1, 2}
        BY <4>1, FS_AddElement
      <4>3. {publishing} \union {effecting} = {publishing, effecting}
        OBVIOUS
      <4> QED BY <4>2, <4>3
    <3>4. Cardinality(Held) <= Cardinality({publishing, effecting})
          /\ Cardinality(Held) \in Nat /\ Cardinality({publishing, effecting}) \in Nat
      BY <3>2, <3>3, FS_Subset, FS_CardinalityType
    <3> QED BY <3>1, <3>3, <3>4 DEF KillLosesOnlyWhatWasHeld
  <2>2. CASE ~Kill
    <3>1. cancelled' = cancelled
      BY <2>2 DEF Next, Enqueue, PublishStart, PublishDone, PublishFailed,
         SideEffectsStart, SideEffectsDone, SideEffectsFailed, Disconnect,
         FlushTurn, vars
    <3> QED BY <3>1 DEF KillLosesOnlyWhatWasHeld
  <2> QED BY <2>1, <2>2
<1> QED BY <1>1, <1>2, Invariance, PTL DEF Spec

-----------------------------------------------------------------------------
(* The refinement.  In terms of the boundary, a delivery's stage is:       *)
Place(d) ==
  IF d > accepted THEN "unsaved"
  ELSE IF d > Taken \/ d = publishing THEN "waiting"
  ELSE IF Queued(d) \/ d = effecting THEN "published"
  ELSE "finished"

StagesAgree == \A d \in Deliveries : StageOf(d) = Place(d)

LEMMA StageIsPlace == IInv => StagesAgree
<1> SUFFICES ASSUME IInv, NEW d \in Deliveries PROVE StageOf(d) = Place(d)
  BY DEF StagesAgree
<1>1. d \in Nat \ {0} /\ accepted \in Nat /\ Taken \in Nat /\ Taken <= accepted
  BY Places, DeliveryAssumption DEF Deliveries
<1>2. CASE d > accepted
  BY <1>1, <1>2 DEF StageOf, Place
<1>3. CASE ~(d > accepted)
  <2>1. d \in 1..accepted /\ d <= accepted
    BY <1>1, <1>3
  <2>2. /\ Waiting(d) <=> d > Taken \/ d = publishing
        /\ Published(d) <=> Queued(d) \/ d = effecting
    BY <2>1, Places
  <2> QED BY <1>3, <2>1, <2>2 DEF StageOf, Place
<1> QED BY <1>2, <1>3

Stage == [d \in Deliveries |-> StageOf(d)]

(* A step that moves one delivery to stage s, seen through the mapping.    *)
LEMMA StageMoves ==
  ASSUME IInv, IInv', NEW d \in Deliveries, NEW s,
         \A e \in Deliveries : Place(e)' = IF e = d THEN s ELSE Place(e)
  PROVE  Stage' = [Stage EXCEPT ![d] = s]
<1>1. StagesAgree
  BY StageIsPlace
<1>2. StagesAgree'
  BY StageIsPlace, PTL
<1> QED BY <1>1, <1>2 DEF Stage, StagesAgree

LEMMA StageStays ==
  ASSUME IInv, IInv', \A e \in Deliveries : Place(e)' = Place(e)
  PROVE  Stage' = Stage
<1>1. StagesAgree
  BY StageIsPlace
<1>2. StagesAgree'
  BY StageIsPlace, PTL
<1> QED BY <1>1, <1>2 DEF Stage, StagesAgree

LEMMA RelayInitially == Init => Relay!RelayInit
<1> SUFFICES ASSUME Init PROVE Relay!RelayInit OBVIOUS
<1>1. \A d \in Deliveries : d > accepted /\ ~(d <= accepted)
  BY DeliveryAssumption DEF Init, Deliveries
<1>2. \A d \in Deliveries : StageOf(d) = "unsaved"
  BY <1>1 DEF StageOf
<1>3. flush # "done"
  BY DEF Init
<1> QED BY <1>2, <1>3 DEF Relay!RelayInit, Relay!Deliveries, Deliveries

LEMMA StageValue == IInv => \A d \in Deliveries : Stage[d] = Place(d)
BY StageIsPlace DEF Stage, StagesAgree

(* The abstract actions, read through the mapping.                         *)
LEMMA AbstractActions ==
  /\ \A d \in Deliveries :
       /\ flush # "done" /\ flush' # "done" /\ Stage[d] = "unsaved"
       /\ \A e \in Deliveries : e < d => Stage[e] # "unsaved"
       /\ Stage' = [Stage EXCEPT ![d] = "waiting"]
       => Relay!Accept(d)
  /\ \A d \in Deliveries, s \in {"published", "finished"} :
       /\ (flush' = "done") = (flush = "done") /\ Stage[d] = "waiting"
       /\ \A e \in Deliveries : e < d => Stage[e] # "waiting"
       /\ Stage' = [Stage EXCEPT ![d] = s]
       => Relay!Publish(d) \/ Relay!GiveUp(d)
  /\ \A d \in Deliveries :
       /\ (flush' = "done") = (flush = "done") /\ Stage[d] = "published"
       /\ \A e \in Deliveries : e < d => Stage[e] # "published"
       /\ Stage' = [Stage EXCEPT ![d] = "finished"]
       => Relay!Finish(d)
  /\ \A d, c \in Deliveries :
       /\ (flush' = "done") = (flush = "done")
       /\ Stage[d] = "waiting" /\ Stage[c] = "published"
       /\ \A e \in Deliveries : e < d => Stage[e] # "waiting"
       /\ \A e \in Deliveries : e < c => Stage[e] # "published"
       /\ Stage' = [Stage EXCEPT ![d] = "finished", ![c] = "finished"]
       => Relay!Cut(d, c)
  /\ /\ \A d \in Deliveries : Stage[d] \in {"unsaved", "finished"}
     /\ flush' = "done" /\ Stage' = Stage
     => Relay!Close
BY DEF Stage, Relay!Accept, Relay!Publish, Relay!GiveUp, Relay!LeaveQueue,
       Relay!Finish, Relay!Cut, Relay!Close, Relay!Before, Relay!Deliveries,
       Deliveries

(* What the invariant says of the places that Place tells apart.           *)
LEMMA StageFacts ==
  ASSUME IInv
  PROVE  /\ accepted \in Nat /\ Taken \in Nat /\ Taken <= accepted
         /\ accepted <= MaxDeliveries /\ MaxDeliveries \in Nat
         /\ publishing \in {0, Taken} /\ effecting \in Nat
         /\ effecting # 0 => effecting \in Deliveries /\ effecting <= Taken
                             /\ effecting # publishing
         /\ \A d : Queued(d) => /\ d \in Deliveries /\ d <= Taken
                                /\ effecting < d
                                /\ publishing # 0 => d # publishing
         /\ \A d \in Deliveries : d \in Nat /\ d # 0
<1>1. TypeOK /\ PublishOrder /\ SideOrder
  BY DEF IInv
<1>2. /\ accepted \in 0..MaxDeliveries /\ Taken \in 0..accepted
      /\ \A d : Queued(d) => d \in Deliveries /\ d <= Taken
  BY Places
<1>3. /\ \A d : Queued(d) => (publishing # Nothing => d # publishing)
      /\ effecting # Nothing => effecting <= Taken /\ effecting # publishing
  BY <1>1, SideIsPast
<1>4. \A d : Queued(d) => effecting < d
  BY <1>1 DEF SideOrder, Queued, In
<1> QED BY <1>1, <1>2, <1>3, <1>4, DeliveryAssumption
        DEF PublishOrder, TypeOK, Deliveries, Nothing

(* A round of the publish worker turns the stage of what it held, if it    *)
(* held anything, from "waiting" to s and leaves the others alone.         *)
LEMMA PublishMoves ==
  ASSUME IInv, IInv', accepted' = accepted, NextPublish,
         effecting' = effecting,
         NEW s \in {"published", "finished"},
         \A d \in Deliveries : d # publishing => (Queued(d)' <=> Queued(d)),
         \A d \in Deliveries : d = publishing => (Queued(d)' <=> s = "published"),
         (flush' = "done") = (flush = "done")
  PROVE  Relay!RelayNext \/ Stage' = Stage
<1>1. \/ Taken' = Taken /\ publishing' = 0
      \/ Taken' = Taken + 1 /\ publishing' = Taken'
  BY PublishRound DEF IInv, Nothing
<1>2. CASE publishing = 0
  <2>1. \A d \in Deliveries : Place(d)' = Place(d)
    BY <1>1, <1>2, StageFacts DEF Place
  <2> QED BY <2>1, StageStays
<1>3. CASE publishing # 0
  <2>1. publishing = Taken /\ publishing \in Deliveries
    BY <1>3, StageFacts DEF Deliveries
  <2>2. \A e \in Deliveries :
          Place(e)' = IF e = publishing THEN s ELSE Place(e)
    <3> SUFFICES ASSUME NEW e \in Deliveries
                 PROVE  Place(e)' = IF e = publishing THEN s ELSE Place(e)
      OBVIOUS
    <3>1. CASE e = publishing
      BY <1>1, <1>3, <2>1, <3>1, StageFacts DEF Place
    <3>2. CASE e # publishing
      BY <1>1, <1>3, <2>1, <3>2, StageFacts DEF Place
    <3> QED BY <3>1, <3>2
  <2>4. Stage' = [Stage EXCEPT ![publishing] = s]
    BY <2>1, <2>2, StageMoves
  <2>5. Place(publishing) = "waiting"
    BY <2>1, StageFacts DEF Place
  <2>6. \A e \in Deliveries : e < publishing => Place(e) # "waiting"
    BY <2>1, StageFacts DEF Place
  <2>7. Relay!Publish(publishing) \/ Relay!GiveUp(publishing)
    BY <2>1, <2>4, <2>5, <2>6, StageValue, AbstractActions
  <2> QED BY <2>1, <2>7 DEF Relay!RelayNext, Relay!Deliveries, Deliveries
<1> QED BY <1>2, <1>3

(* What the side-effect worker holds is the oldest published delivery.     *)
LEMMA EffectingIsOldest ==
  ASSUME IInv, effecting # 0
  PROVE  /\ effecting \in Deliveries /\ Place(effecting) = "published"
         /\ \A e \in Deliveries : e < effecting => Place(e) # "published"
BY StageFacts DEF Place

LEMMA PublishingIsOldest ==
  ASSUME IInv, publishing # 0
  PROVE  /\ publishing \in Deliveries /\ Place(publishing) = "waiting"
         /\ \A e \in Deliveries : e < publishing => Place(e) # "waiting"
<1>1. publishing = Taken /\ publishing \in Deliveries
  BY StageFacts DEF Deliveries
<1> QED BY <1>1, StageFacts DEF Place

LEMMA RelayStep ==
  IInv /\ IInv' /\ [Next]_vars => [Relay!RelayNext]_(Relay!relayVars)
<1> SUFFICES ASSUME IInv, IInv', [Next]_vars
             PROVE  \/ Relay!RelayNext
                    \/ Stage' = Stage /\ (flush' = "done") = (flush = "done")
  BY DEF Relay!relayVars, Stage
<1>0. TypeOK /\ PublishOrder /\ SideOrder /\ TasksHold
  BY DEF IInv
<1>1. CASE Enqueue
  <2>1. /\ accepted' = accepted + 1 /\ accepted < MaxDeliveries
        /\ UNCHANGED <<publishing, sideEffectQueue, effecting, flush>>
        /\ flush = "open"
    BY <1>1 DEF Enqueue, sideWorker
  <2>2. Taken' = Taken /\ \A d : Queued(d)' <=> Queued(d)
    BY <1>0, <1>1, AppendFacts, DeliveryAssumption
    DEF Enqueue, Taken, TypeOK, Deliveries, sideWorker, Queued
  <2>3. accepted + 1 \in Deliveries
    BY <2>1, StageFacts DEF Deliveries
  <2>4. Place(accepted + 1) = "unsaved"
    BY StageFacts DEF Place
  <2>5. \A e \in Deliveries : e < accepted + 1 => Place(e) # "unsaved"
    BY StageFacts DEF Place
  <2>6. \A e \in Deliveries :
          Place(e)' = IF e = accepted + 1 THEN "waiting" ELSE Place(e)
    BY <2>1, <2>2, StageFacts DEF Place
  <2>7. Stage' = [Stage EXCEPT ![accepted + 1] = "waiting"]
    <3> DEFINE a == accepted + 1
    <3>1. a \in Deliveries /\ \A e \in Deliveries :
            Place(e)' = IF e = a THEN "waiting" ELSE Place(e)
      BY <2>3, <2>6
    <3> HIDE DEF a
    <3>2. StagesAgree /\ StagesAgree'
      BY StageIsPlace, PTL
    <3>3. Stage' = [Stage EXCEPT ![a] = "waiting"]
      BY <3>1, <3>2 DEF Stage, StagesAgree
    <3> QED BY <3>3 DEF a
  <2>8. Relay!Accept(accepted + 1)
    BY <2>1, <2>3, <2>4, <2>5, <2>7, StageValue, AbstractActions
  <2> QED BY <2>3, <2>8 DEF Relay!RelayNext, Relay!Deliveries, Deliveries
<1>2. CASE PublishStart \/ PublishFailed
  <2>1. /\ NextPublish /\ accepted' = accepted
        /\ UNCHANGED <<sideEffectQueue, effecting, flush>>
    BY <1>2 DEF PublishStart, PublishFailed, sideWorker
  <2>2. \A d : Queued(d)' <=> Queued(d)
    BY <2>1 DEF Queued
  <2>3. publishing # 0 => ~Queued(publishing)
    BY StageFacts
  <2>4. Relay!RelayNext \/ Stage' = Stage
    BY <2>1, <2>2, <2>3, PublishMoves
  <2> QED BY <2>1, <2>4
<1>3. CASE PublishDone
  <2>1. /\ NextPublish /\ accepted' = accepted /\ publishing \in Deliveries
        /\ sideEffectQueue' = Append(sideEffectQueue, publishing)
        /\ sideEffectQueue \in Seq(Deliveries)
        /\ UNCHANGED <<effecting, flush>>
    BY <1>0, <1>3 DEF PublishDone, TypeOK
  <2>2. \A d : Queued(d)' <=> Queued(d) \/ d = publishing
    BY <2>1, InAppend DEF Queued
  <2>3. Relay!RelayNext \/ Stage' = Stage
    BY <2>1, <2>2, PublishMoves
  <2> QED BY <2>1, <2>3
<1>4. CASE SideEffectsStart \/ SideEffectsDone \/ SideEffectsFailed
  <2>1. /\ NextSideEffects
        /\ UNCHANGED <<accepted, publishQueue, publishing, flush>>
    BY <1>4 DEF SideEffectsStart, SideEffectsDone, SideEffectsFailed, publisher
  <2>2. /\ \A d : Queued(d) <=> Queued(d)' \/ (d = effecting' /\ effecting' # 0)
        /\ Taken' = Taken
    BY <1>0, <2>1, SideRoundQueue DEF Nothing, Taken
  <2>3. \A d \in Deliveries : d # effecting => Place(d)' = Place(d)
    BY <2>1, <2>2, StageFacts DEF Place
  <2>4. CASE effecting = 0
    <3>1. \A d \in Deliveries : Place(d)' = Place(d)
      BY <2>3, <2>4, StageFacts
    <3> QED BY <2>1, <3>1, StageStays
  <2>5. CASE effecting # 0
    <3>1. /\ effecting \in Deliveries /\ effecting <= Taken
          /\ effecting # publishing /\ ~Queued(effecting)
      BY <2>5, StageFacts
    <3>2. \A d \in Deliveries :
            Place(d)' = IF d = effecting THEN "finished" ELSE Place(d)
      BY <2>1, <2>2, <2>3, <3>1, StageFacts DEF Place
    <3>3. Stage' = [Stage EXCEPT ![effecting] = "finished"]
      BY <3>1, <3>2, StageMoves
    <3>4. Relay!Finish(effecting)
      BY <2>1, <2>5, <3>3, EffectingIsOldest, StageValue, AbstractActions
    <3> QED BY <3>1, <3>4 DEF Relay!RelayNext, Relay!Deliveries, Deliveries
  <2> QED BY <2>4, <2>5
<1>5. CASE Disconnect \/ FlushTurn \/ UNCHANGED vars
  <2>1. UNCHANGED <<accepted, publishQueue, publishing, sideEffectQueue, effecting>>
    BY <1>5 DEF Disconnect, FlushTurn, vars, publisher, sideWorker
  <2>2. \A d \in Deliveries : Place(d)' = Place(d)
    BY <2>1 DEF Place, Taken, Queued
  <2>3. Stage' = Stage
    BY <2>2, StageStays
  <2>4. CASE flush' = "done" /\ flush # "done"
    <3>1. /\ publishQueue = << >> /\ sideEffectQueue = << >>
          /\ publishTask = "none" /\ sideEffectTask = "none"
      BY <1>5, <2>4 DEF Disconnect, FlushTurn, vars, Pending, Tasks
    <3>2. publishing = 0 /\ effecting = 0
      BY <1>0, <3>1 DEF TasksHold, Nothing
    <3>3. Taken = accepted /\ \A d : ~Queued(d)
      BY <1>0, <3>1, StageFacts DEF TypeOK, Taken, Queued, In
    <3>4. \A d \in Deliveries : Place(d) \in {"unsaved", "finished"}
      BY <3>2, <3>3, StageFacts DEF Place
    <3>5. Relay!Close
      BY <2>3, <2>4, <3>4, StageValue, AbstractActions
    <3> QED BY <3>5 DEF Relay!RelayNext
  <2>5. CASE (flush' = "done") = (flush = "done")
    BY <2>3, <2>5
  <2>6. flush = "done" => flush' = "done"
    BY <1>5 DEF Disconnect, FlushTurn, vars
  <2> QED BY <2>4, <2>5, <2>6
<1>6. CASE Kill
  <2>1. /\ accepted' = accepted /\ flush = "flushing" /\ flush' = "killed"
        /\ publishQueue' = publishQueue /\ sideEffectQueue' = sideEffectQueue
        /\ \/ publishing' = publishing
           \/ publishing \in Deliveries /\ publishing' = 0
        /\ \/ effecting' = effecting
           \/ effecting \in Deliveries /\ effecting' = 0
    BY <1>0, <1>6, CancelledPublish, CancelledSideEffects DEF Kill, Nothing
  <2>2. Taken' = Taken /\ \A d : Queued(d)' <=> Queued(d)
    BY <2>1 DEF Taken, Queued
  <2> DEFINE cutP == publishing # 0 /\ publishing' = 0
             cutE == effecting # 0 /\ effecting' = 0
  <2>3. \A d \in Deliveries :
          Place(d)' = IF (cutP /\ d = publishing) \/ (cutE /\ d = effecting)
                      THEN "finished" ELSE Place(d)
    BY <2>1, <2>2, StageFacts DEF Place
  <2>4. CASE ~cutP /\ ~cutE
    <3>1. Stage' = Stage
      BY <2>3, <2>4, StageStays
    <3> QED BY <2>1, <3>1
  <2>5. CASE cutP /\ ~cutE
    <3>1. Stage' = [Stage EXCEPT ![publishing] = "finished"]
      BY <2>3, <2>5, PublishingIsOldest, StageMoves
    <3>2. Relay!Publish(publishing) \/ Relay!GiveUp(publishing)
      BY <2>1, <2>5, <3>1, PublishingIsOldest, StageValue, AbstractActions
    <3> QED BY <2>5, <3>2, PublishingIsOldest
            DEF Relay!RelayNext, Relay!Deliveries, Deliveries
  <2>6. CASE ~cutP /\ cutE
    <3>1. Stage' = [Stage EXCEPT ![effecting] = "finished"]
      BY <2>3, <2>6, EffectingIsOldest, StageMoves
    <3>2. Relay!Finish(effecting)
      BY <2>1, <2>6, <3>1, EffectingIsOldest, StageValue, AbstractActions
    <3> QED BY <2>6, <3>2, EffectingIsOldest
            DEF Relay!RelayNext, Relay!Deliveries, Deliveries
  <2>7. CASE cutP /\ cutE
    <3>1. StagesAgree /\ StagesAgree'
      BY StageIsPlace, PTL
    <3>2. Stage' = [Stage EXCEPT ![publishing] = "finished", ![effecting] = "finished"]
      BY <2>3, <2>7, <3>1 DEF Stage, StagesAgree
    <3>3. Relay!Cut(publishing, effecting)
      BY <2>1, <2>7, <3>2, PublishingIsOldest, EffectingIsOldest, StageValue,
         AbstractActions
    <3> QED BY <2>7, <3>3, PublishingIsOldest, EffectingIsOldest
            DEF Relay!RelayNext, Relay!Deliveries, Deliveries
  <2> QED BY <2>4, <2>5, <2>6, <2>7
<1> QED BY <1>1, <1>2, <1>3, <1>4, <1>5, <1>6 DEF Next

(* A connection's messages: in order, served, none lost, all settled at    *)
(* the end of flush().                                                     *)
THEOREM DeliveryIsSound == Spec => []DeliveryHolds
  BY NoQueueIsStranded, OrderIsKept, NothingDisappears, FlushSettles, KillCost, PTL
  DEF DeliveryHolds

(* The pipeline, with its queues and tasks, does only what MessageRelay    *)
(* allows: publish and finish deliveries in order, and close when done.    *)
THEOREM RelayIsImplemented == Spec => Relay!RelaySpec
<1>1. Init => Relay!RelayInit
  BY RelayInitially
<1>2. IInv /\ IInv' /\ [Next]_vars => [Relay!RelayNext]_(Relay!relayVars)
  BY RelayStep
<1> QED BY <1>1, <1>2, Invariance, PTL DEF Spec, Relay!RelaySpec
=============================================================================
