---------------------------- MODULE MessageRelay ----------------------------
(***************************************************************************)
(* What a chat connection promises about the messages it has saved,        *)
(* without queues, tasks or waiting: each delivery is published to the     *)
(* room and then given its side effects (inbox, unread counts), both in    *)
(* the order in which the messages were saved; a delivery may fail at      *)
(* either stage; and the connection is closed only when nothing is left    *)
(* to do.  ChatDelivery implements it.                                     *)
(***************************************************************************)
EXTENDS Naturals

CONSTANT MaxDeliveries

Deliveries == 1..MaxDeliveries

VARIABLES
  stage,   \* of each delivery: "unsaved", "waiting", "published", "finished"
  closed   \* the connection has ended with everything settled

relayVars == <<stage, closed>>

RelayInit == stage = [d \in Deliveries |-> "unsaved"] /\ closed = FALSE

Before(d) == {e \in Deliveries : e < d}

(* Deliveries are numbered in the order in which they are handed over.     *)
Accept(d) ==
  /\ ~closed
  /\ stage[d] = "unsaved"
  /\ \A e \in Before(d) : stage[e] # "unsaved"
  /\ stage' = [stage EXCEPT ![d] = "waiting"]
  /\ UNCHANGED closed

(* The next waiting delivery is published, or given up.                    *)
LeaveQueue(d, s) ==
  /\ stage[d] = "waiting"
  /\ \A e \in Before(d) : stage[e] # "waiting"
  /\ stage' = [stage EXCEPT ![d] = s]
  /\ UNCHANGED closed

Publish(d) == LeaveQueue(d, "published")
GiveUp(d) == LeaveQueue(d, "finished")

(* The oldest published delivery has had its side effects, or failed.      *)
Finish(d) ==
  /\ stage[d] = "published"
  /\ \A e \in Before(d) : stage[e] # "published"
  /\ stage' = [stage EXCEPT ![d] = "finished"]
  /\ UNCHANGED closed

(* Killing the connection cuts off the delivery that is being published    *)
(* and the one whose side effects are running.                             *)
Cut(d, e) ==
  /\ stage[d] = "waiting" /\ stage[e] = "published"
  /\ \A x \in Before(d) : stage[x] # "waiting"
  /\ \A x \in Before(e) : stage[x] # "published"
  /\ stage' = [stage EXCEPT ![d] = "finished", ![e] = "finished"]
  /\ UNCHANGED closed

Close ==
  /\ \A d \in Deliveries : stage[d] \in {"unsaved", "finished"}
  /\ closed' = TRUE
  /\ UNCHANGED stage

RelayNext ==
  \/ \E d \in Deliveries : Accept(d) \/ Publish(d) \/ GiveUp(d) \/ Finish(d)
  \/ \E d, e \in Deliveries : Cut(d, e)
  \/ Close

(* Whatever has been handed over is dealt with in the end.                 *)
RelayFairness ==
  \A d \in Deliveries :
    WF_relayVars(Publish(d) \/ GiveUp(d)) /\ WF_relayVars(Finish(d))

RelaySpec == RelayInit /\ [][RelayNext]_relayVars
RelayFairSpec == RelaySpec /\ RelayFairness
=============================================================================
