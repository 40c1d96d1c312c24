------------------------------ MODULE Delivery ------------------------------
(***************************************************************************)
(* A service's queue and the consumer of its worker (rabbitmq_consumer.go, *)
(* the same in order-, restaurant-, customer-, search- and notification-   *)
(* service): prefetch 1, manual acks, a retry counter carried in a header  *)
(* by republishing to the tail of the queue, and a dead-letter queue.      *)
(***************************************************************************)
EXTENDS Naturals, Sequences

CONSTANTS Messages,
          Poison,            \* messages the handler can never digest
          NoCopy,            \* nothing is delivered and unacknowledged
          MaxRetryAttempts,  \* the code's constant, 3
          MaxPublishes,      \* times the relay publishes one message
          MaxFaults          \* failed handlers, failed republishes, lost connections

ASSUME DeliveryAssumption ==
  /\ Poison \subseteq Messages
  /\ MaxRetryAttempts \in Nat /\ MaxPublishes \in Nat /\ MaxFaults \in Nat

VARIABLES
  sent,      \* how often each message was published to the exchange
  queue,     \* the broker's queue, its head first
  unacked,   \* the copy the consumer holds
  pc,        \* how far the consumer got with it
  handled,   \* times each message was handled successfully
  failures,  \* times its handler failed
  dead,      \* messages in the dead-letter queue
  faults

vars == <<sent, queue, unacked, pc, handled, failures, dead, faults>>

Copy == [id : Messages, retry : 0..MaxRetryAttempts]
Pc   == {"idle", "dispatch", "retry", "ack", "reject", "requeue"}

TypeOK ==
  /\ sent \in [Messages -> 0..MaxPublishes]
  /\ queue \in Seq(Copy)
  /\ pc \in Pc
  /\ IF pc = "idle" THEN unacked = NoCopy ELSE unacked \in Copy
  /\ handled \in [Messages -> Nat]
  /\ failures \in [Messages -> Nat]
  /\ dead \in SUBSET Messages
  /\ faults \in Nat

Init ==
  /\ sent = [m \in Messages |-> 0]
  /\ queue = <<>>
  /\ unacked = NoCopy
  /\ pc = "idle"
  /\ handled = [m \in Messages |-> 0]
  /\ failures = [m \in Messages |-> 0]
  /\ dead = {}
  /\ faults = 0

Fault == faults < MaxFaults /\ faults' = faults + 1

(* The broker forgets the copy, or gets it back at the head of the queue.  *)
Settle == unacked' = NoCopy /\ pc' = "idle"
GiveBack == Settle /\ queue' = <<unacked>> \o queue

-----------------------------------------------------------------------------
(* Publish (external: the sender's relay, Outbox): at least once.          *)
Publish(m) ==
  /\ sent[m] < MaxPublishes
  /\ sent' = [sent EXCEPT ![m] = @ + 1]
  /\ queue' = Append(queue, [id |-> m, retry |-> 0])
  /\ UNCHANGED <<unacked, pc, handled, failures, dead, faults>>

(* Qos(1): the next copy comes only when the last one is settled.          *)
Deliver ==
  /\ pc = "idle"
  /\ queue # <<>>
  /\ unacked' = Head(queue)
  /\ queue' = Tail(queue)
  /\ pc' = "dispatch"
  /\ UNCHANGED <<sent, handled, failures, dead, faults>>

DispatchOk ==
  /\ pc = "dispatch"
  /\ unacked.id \notin Poison
  /\ handled' = [handled EXCEPT ![unacked.id] = @ + 1]
  /\ pc' = "ack"
  /\ UNCHANGED <<sent, queue, unacked, failures, dead, faults>>

DispatchError ==
  /\ pc = "dispatch"
  /\ IF unacked.id \in Poison THEN UNCHANGED faults ELSE Fault
  /\ failures' = [failures EXCEPT ![unacked.id] = @ + 1]
  /\ pc' = IF unacked.retry >= MaxRetryAttempts THEN "reject" ELSE "retry"
  /\ UNCHANGED <<sent, queue, unacked, handled, dead>>

(* After the sleep: a second copy at the tail, then the first is acked.    *)
Republish ==
  /\ pc = "retry"
  /\ queue' = Append(queue, [unacked EXCEPT !.retry = @ + 1])
  /\ pc' = "ack"
  /\ UNCHANGED <<sent, unacked, handled, failures, dead, faults>>

(* Slip: the message is acked whether or not it was republished.           *)
RepublishError_acked ==
  /\ pc = "retry"
  /\ Fault
  /\ pc' = "ack"
  /\ UNCHANGED <<sent, queue, unacked, handled, failures, dead>>

RepublishError ==
  /\ pc = "retry"
  /\ Fault
  /\ pc' = "requeue"
  /\ UNCHANGED <<sent, queue, unacked, handled, failures, dead>>

(* Slip: a settled copy is put back.                                       *)
Ack_requeues ==
  /\ pc = "ack"
  /\ GiveBack
  /\ UNCHANGED <<sent, handled, failures, dead, faults>>

(* Ack(false), Nack(false, false) and Nack(false, true).                   *)
Ack ==
  /\ pc = "ack"
  /\ Settle
  /\ UNCHANGED <<sent, queue, handled, failures, dead, faults>>

Reject ==
  /\ pc = "reject"
  /\ Settle
  /\ dead' = dead \cup {unacked.id}
  /\ UNCHANGED <<sent, queue, handled, failures, faults>>

(* Slip: the loop continues without an answer to the broker.               *)
Requeue_silent ==
  /\ pc = "requeue"
  /\ UNCHANGED vars

Requeue ==
  /\ pc = "requeue"
  /\ GiveBack
  /\ UNCHANGED <<sent, handled, failures, dead, faults>>

(* The connection, the channel or the process is lost: what was not acked  *)
(* is delivered again, the answer under way never arrives.  Run reconnects.*)
ConnectionLost ==
  /\ pc # "idle"
  /\ Fault
  /\ GiveBack
  /\ UNCHANGED <<sent, handled, failures, dead>>

Consumer ==
  \/ Deliver \/ DispatchOk \/ DispatchError \/ Republish \/ Ack \/ Reject \/ Requeue

Next ==
  \/ \E m \in Messages : Publish(m)
  \/ Consumer \/ RepublishError \/ ConnectionLost

(* Fairness.  The consumer's loop goes on; faults and senders need not.    *)
Spec == Init /\ [][Next]_vars
FairSpec == Spec /\ WF_vars(Consumer)

-----------------------------------------------------------------------------
(* Properties                                                              *)

InQueue(m) == \E i \in DOMAIN queue : queue[i].id = m

(* A message that was published is handled, dead-lettered, or still with   *)
(* the broker, whatever is lost between the republish and the ack.         *)
NothingLost ==
  \A m \in Messages :
    sent[m] > 0 => \/ handled[m] > 0 \/ m \in dead
                   \/ InQueue(m) \/ (pc # "idle" /\ unacked.id = m)

(* A message is given up only after the first attempt and every retry of   *)
(* the budget have failed, however its copies multiplied.                  *)
DeadAfterBudget == \A m \in dead : failures[m] > MaxRetryAttempts

(* Handlers see a message again only because of a fault or because it was  *)
(* published again: runOnce by itself repeats nothing it has handled.      *)
RepeatsHaveReasons == \A m \in Messages : handled[m] <= sent[m] + faults

(* Nothing circulates for ever, poison included: the counter grows until   *)
(* the message is handled or dead-lettered (customer.md: "retries up to    *)
(* MaxRetryAttempts (3) before the message goes to customer_queue.dlq").   *)
PublishedSettles ==
  \A m \in Messages : sent[m] > 0 ~> (handled[m] > 0 \/ m \in dead)
=============================================================================
