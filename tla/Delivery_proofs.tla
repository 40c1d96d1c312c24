--------------------------- MODULE Delivery_proofs ---------------------------
(***************************************************************************)
(* Proofs about Delivery (one queue in detail), for any messages, retry    *)
(* budget, number of publishes and of faults; and about EventFlow (every   *)
(* queue of the system, and the tables the events come from), for any      *)
(* number of mishaps.                                                      *)
(***************************************************************************)
EXTENDS Delivery, EventFlow, FiniteSetTheorems, TLAPS

(* A copy with retry count n stands for n failures of its message; one     *)
(* that is about to be retried or rejected for one more.                   *)
Counted(copy) == copy.retry <= failures[copy.id]

RetryInv ==
  /\ \A i \in DOMAIN queue : Counted(queue[i])
  /\ pc # "idle" => Counted(unacked)
  /\ pc \in {"retry", "reject"} => unacked.retry < failures[unacked.id]
  /\ pc = "retry" => unacked.retry < MaxRetryAttempts
  /\ pc = "reject" => unacked.retry = MaxRetryAttempts

(* Where a published message is; with an ack under way the copy in hand no *)
(* longer counts, because it was handled or has a successor.               *)
PlaceInv ==
  \A m \in Messages :
    sent[m] > 0 => \/ handled[m] > 0 \/ m \in dead
                   \/ InQueue(m) \/ (pc \notin {"idle", "ack"} /\ unacked.id = m)

IInv == TypeOK /\ RetryInv /\ PlaceInv /\ DeadAfterBudget

LEMMA InitInv == Init => IInv
  BY DeliveryAssumption
  DEF Init, IInv, TypeOK, Pc, RetryInv, PlaceInv, DeadAfterBudget

-----------------------------------------------------------------------------
(* The queue                                                               *)

(* What appending a copy, taking the head and giving it back do to the     *)
(* queue.                                                                  *)
LEMMA QueueFacts ==
  ASSUME NEW q \in Seq(Copy), NEW c \in Copy
  PROVE  /\ Append(q, c) \in Seq(Copy)
         /\ \A i \in DOMAIN Append(q, c) :
              Append(q, c)[i] = c \/ (i \in DOMAIN q /\ Append(q, c)[i] = q[i])
         /\ \A i \in DOMAIN q : i \in DOMAIN Append(q, c) /\ Append(q, c)[i] = q[i]
         /\ \E i \in DOMAIN Append(q, c) : Append(q, c)[i] = c
         /\ <<c>> \o q \in Seq(Copy)
         /\ \A i \in DOMAIN (<<c>> \o q) :
              (<<c>> \o q)[i] = c \/ \E j \in DOMAIN q : (<<c>> \o q)[i] = q[j]
         /\ \A i \in DOMAIN q : \E j \in DOMAIN (<<c>> \o q) : (<<c>> \o q)[j] = q[i]
         /\ \E i \in DOMAIN (<<c>> \o q) : (<<c>> \o q)[i] = c
<1>1. /\ Append(q, c) \in Seq(Copy)
      /\ DOMAIN Append(q, c) = 1..(Len(q) + 1) /\ DOMAIN q = 1..Len(q) /\ Len(q) \in Nat
      /\ Append(q, c)[Len(q) + 1] = c
      /\ \A i \in 1..Len(q) : Append(q, c)[i] = q[i]
  OBVIOUS
<1>2. /\ <<c>> \o q \in Seq(Copy)
      /\ DOMAIN (<<c>> \o q) = 1..(Len(q) + 1)
      /\ (<<c>> \o q)[1] = c
      /\ \A i \in 2..(Len(q) + 1) : (<<c>> \o q)[i] = q[i - 1]
  OBVIOUS
<1>3. \A i \in DOMAIN q : i + 1 \in DOMAIN (<<c>> \o q) /\ (<<c>> \o q)[i + 1] = q[i]
  BY <1>1, <1>2
<1>4. \A i \in DOMAIN (<<c>> \o q) : i # 1 => i - 1 \in DOMAIN q /\ (<<c>> \o q)[i] = q[i - 1]
  BY <1>1, <1>2
<1>5. 1 \in DOMAIN (<<c>> \o q) /\ Len(q) + 1 \in DOMAIN Append(q, c)
  BY <1>1, <1>2
<1>6. \A i \in DOMAIN Append(q, c) : i = Len(q) + 1 \/ i \in DOMAIN q
  BY <1>1
<1>7. \A i \in DOMAIN q : i \in DOMAIN Append(q, c) /\ Append(q, c)[i] = q[i]
  BY <1>1
<1>8. \A i \in DOMAIN Append(q, c) :
        Append(q, c)[i] = c \/ (i \in DOMAIN q /\ Append(q, c)[i] = q[i])
  BY <1>1, <1>6
<1>9. \A i \in DOMAIN (<<c>> \o q) :
        (<<c>> \o q)[i] = c \/ \E j \in DOMAIN q : (<<c>> \o q)[i] = q[j]
  BY <1>2, <1>4
<1>10. \A i \in DOMAIN q : \E j \in DOMAIN (<<c>> \o q) : (<<c>> \o q)[j] = q[i]
  BY <1>3
<1>11. (\E i \in DOMAIN Append(q, c) : Append(q, c)[i] = c)
       /\ (\E i \in DOMAIN (<<c>> \o q) : (<<c>> \o q)[i] = c)
  BY <1>1, <1>2, <1>5
<1> QED
  BY <1>1, <1>2, <1>7, <1>8, <1>9, <1>10, <1>11

LEMMA HeadFacts ==
  ASSUME NEW q \in Seq(Copy), q # <<>>
  PROVE  /\ Head(q) \in Copy /\ Tail(q) \in Seq(Copy)
         /\ \E i \in DOMAIN q : Head(q) = q[i]
         /\ \A i \in DOMAIN Tail(q) : \E j \in DOMAIN q : Tail(q)[i] = q[j]
         /\ \A i \in DOMAIN q : q[i] = Head(q) \/ \E j \in DOMAIN Tail(q) : Tail(q)[j] = q[i]
<1>1. /\ Len(q) \in Nat /\ Len(q) >= 1 /\ DOMAIN q = 1..Len(q) /\ Head(q) = q[1]
      /\ Tail(q) \in Seq(Copy) /\ DOMAIN Tail(q) = 1..(Len(q) - 1)
      /\ \A i \in 1..(Len(q) - 1) : Tail(q)[i] = q[i + 1]
  OBVIOUS
<1>2. \A i \in DOMAIN q : i # 1 => i - 1 \in DOMAIN Tail(q) /\ Tail(q)[i - 1] = q[i]
  BY <1>1
<1>3. \A i \in DOMAIN Tail(q) : i + 1 \in DOMAIN q /\ Tail(q)[i] = q[i + 1]
  BY <1>1
<1>4. 1 \in DOMAIN q /\ Head(q) \in Copy
  BY <1>1
<1> QED
  BY <1>1, <1>2, <1>3, <1>4

-----------------------------------------------------------------------------
(* The steps                                                               *)

LEMMA PublishInv ==
  ASSUME IInv, NEW m \in Messages, Publish(m)
  PROVE  IInv'
<1> USE DEF IInv
<1> DEFINE c == [id |-> m, retry |-> 0]
<1>0. c \in Copy /\ queue \in Seq(Copy) /\ queue' = Append(queue, c)
  BY DeliveryAssumption DEF Copy, TypeOK, Publish
<1>1. TypeOK'
  <2>1. sent' \in [Messages -> 0..MaxPublishes]
    BY DeliveryAssumption DEF TypeOK, Publish
  <2> QED
    BY <1>0, <2>1, QueueFacts DEF TypeOK, Publish
<1>2. RetryInv'
  BY <1>0, QueueFacts DEF RetryInv, Counted, TypeOK, Publish
<1>3. InQueue(m)' /\ \A k \in Messages : InQueue(k) => InQueue(k)'
  BY <1>0, QueueFacts DEF InQueue
<1>4. PlaceInv'
  BY <1>3 DEF PlaceInv, TypeOK, Publish
<1>5. DeadAfterBudget'
  BY DEF DeadAfterBudget, Publish
<1> QED
  BY <1>1, <1>2, <1>4, <1>5

LEMMA DeliverInv ==
  ASSUME IInv, Deliver
  PROVE  IInv'
<1> USE DEF IInv
<1>0. /\ queue \in Seq(Copy) /\ queue # <<>> /\ pc = "idle" /\ pc' = "dispatch"
      /\ unacked' = Head(queue) /\ queue' = Tail(queue)
      /\ UNCHANGED <<sent, handled, failures, dead, faults>>
  BY DEF TypeOK, Deliver
<1>1. TypeOK'
  BY <1>0, HeadFacts DEF TypeOK, Pc
<1>2. RetryInv'
  BY <1>0, HeadFacts DEF RetryInv, Counted
<1>3. \A m \in Messages : InQueue(m) => InQueue(m)' \/ unacked'.id = m
  BY <1>0, HeadFacts DEF InQueue
<1>4. PlaceInv'
  BY <1>0, <1>3 DEF PlaceInv
<1>5. DeadAfterBudget'
  BY <1>0 DEF DeadAfterBudget
<1> QED
  BY <1>1, <1>2, <1>4, <1>5

LEMMA DispatchInv ==
  ASSUME IInv, DispatchOk \/ DispatchError
  PROVE  IInv'
<1> USE DEF IInv
<1>0. /\ unacked \in Copy /\ unacked.id \in Messages /\ unacked.retry \in 0..MaxRetryAttempts
      /\ UNCHANGED <<sent, queue, unacked, dead>> /\ pc = "dispatch"
      /\ \A i \in DOMAIN queue : queue[i] \in Copy
  <2>1. UNCHANGED <<sent, queue, unacked, dead>> /\ pc = "dispatch"
    BY DEF DispatchOk, DispatchError
  <2>2. unacked \in Copy
    BY <2>1 DEF TypeOK
  <2>3. queue \in Seq(Copy)
    BY DEF TypeOK
  <2>4. \A i \in DOMAIN queue : queue[i] \in Copy
    BY <2>3
  <2> QED
    BY <2>1, <2>2, <2>4 DEF Copy
<1>1. CASE DispatchOk
  <2>1. TypeOK'
    BY <1>0, <1>1 DEF TypeOK, DispatchOk, Pc
  <2>2. RetryInv' /\ DeadAfterBudget'
    BY <1>0, <1>1 DEF RetryInv, Counted, DeadAfterBudget, DispatchOk
  <2>3. handled'[unacked.id] > 0 /\ \A m \in Messages : handled[m] > 0 => handled'[m] > 0
    BY <1>0, <1>1 DEF DispatchOk, TypeOK
  <2>4. PlaceInv'
    BY <1>0, <1>1, <2>3 DEF PlaceInv, InQueue, DispatchOk
  <2> QED
    BY <2>1, <2>2, <2>4
<1>2. CASE DispatchError
  <2>1. /\ failures' = [failures EXCEPT ![unacked.id] = @ + 1]
        /\ pc' = IF unacked.retry >= MaxRetryAttempts THEN "reject" ELSE "retry"
        /\ UNCHANGED handled
    BY <1>2 DEF DispatchError
  <2>2. /\ failures' \in [Messages -> Nat]
        /\ \A m \in Messages : failures'[m] \in Nat /\ failures[m] \in Nat
                               /\ failures[m] <= failures'[m]
        /\ failures'[unacked.id] = failures[unacked.id] + 1
    BY <1>0, <2>1 DEF TypeOK
  <2>3. faults' \in Nat
    BY <1>2 DEF DispatchError, Fault, TypeOK
  <2>4. TypeOK'
    BY <1>0, <2>1, <2>2, <2>3 DEF TypeOK, Pc
  <2>5. \A i \in DOMAIN queue : Counted(queue[i])'
    BY <1>0, <2>2, DeliveryAssumption DEF RetryInv, Counted, Copy
  <2>6. unacked.retry <= failures[unacked.id]
    BY <1>0 DEF RetryInv, Counted
  <2>7. RetryInv'
    BY <1>0, <2>1, <2>2, <2>5, <2>6, DeliveryAssumption DEF RetryInv, Counted
  <2>8. DeadAfterBudget'
    BY <1>0, <2>2, DeliveryAssumption DEF DeadAfterBudget, TypeOK
  <2>9. PlaceInv'
    BY <1>0, <2>1 DEF PlaceInv, InQueue
  <2> QED
    BY <2>4, <2>7, <2>8, <2>9
<1> QED
  BY <1>1, <1>2

LEMMA RepublishInv ==
  ASSUME IInv, Republish \/ RepublishError
  PROVE  IInv'
<1> USE DEF IInv
<1>0. /\ unacked \in Copy /\ queue \in Seq(Copy) /\ pc = "retry"
      /\ UNCHANGED <<sent, unacked, handled, failures, dead>>
  BY DEF TypeOK, Republish, RepublishError
<1>1. CASE Republish
  <2> DEFINE c == [unacked EXCEPT !.retry = @ + 1]
  <2>1. /\ queue' = Append(queue, c) /\ pc' = "ack" /\ UNCHANGED faults
        /\ c.id = unacked.id /\ c.retry = unacked.retry + 1
    BY <1>0, <1>1 DEF Republish, Copy
  <2>2. c \in Copy
    <3>1. unacked.id \in Messages /\ unacked.retry \in 0..MaxRetryAttempts
      BY <1>0 DEF Copy
    <3>2. unacked.retry + 1 \in 0..MaxRetryAttempts
      BY <1>0, <3>1, DeliveryAssumption DEF RetryInv
    <3>3. c = [id |-> unacked.id, retry |-> unacked.retry + 1]
      BY <1>0 DEF Copy
    <3> QED
      BY <3>1, <3>2, <3>3 DEF Copy
  <2>3. Counted(c)
    BY <1>0, <2>1 DEF RetryInv, Counted, TypeOK, Copy
  <2> HIDE DEF c
  <2>4. TypeOK'
    BY <1>0, <2>1, <2>2, QueueFacts DEF TypeOK, Pc
  <2>5. RetryInv'
    <3>1. \A i \in DOMAIN queue' :
            queue'[i] = c \/ (i \in DOMAIN queue /\ queue'[i] = queue[i])
      BY <1>0, <2>1, <2>2, QueueFacts
    <3>2. c.retry <= failures[c.id] /\ \A j \in DOMAIN queue : Counted(queue[j])
      BY <1>0, <2>3 DEF RetryInv, Counted
    <3>3. \A i \in DOMAIN queue' : queue'[i].retry <= failures[queue'[i].id]
      BY <3>1, <3>2 DEF Counted
    <3> QED
      BY <1>0, <2>1, <3>3 DEF RetryInv, Counted
  <2>6. /\ \E i \in DOMAIN queue' : queue'[i].id = unacked.id
        /\ \A m \in Messages : InQueue(m) => InQueue(m)'
    BY <1>0, <2>1, <2>2, QueueFacts DEF InQueue
  <2>7. PlaceInv' /\ DeadAfterBudget'
    BY <1>0, <2>1, <2>6 DEF PlaceInv, InQueue, DeadAfterBudget
  <2> QED
    BY <2>4, <2>5, <2>7
<1>2. CASE RepublishError
  <2>1. TypeOK'
    BY <1>0, <1>2 DEF TypeOK, Pc, RepublishError, Fault
  <2>2. RetryInv'
    BY <1>0, <1>2 DEF RetryInv, Counted, RepublishError
  <2>3. PlaceInv' /\ DeadAfterBudget'
    BY <1>0, <1>2 DEF PlaceInv, InQueue, DeadAfterBudget, RepublishError
  <2> QED
    BY <2>1, <2>2, <2>3
<1> QED
  BY <1>1, <1>2

LEMMA SettleInv ==
  ASSUME IInv, Ack \/ Reject
  PROVE  IInv'
<1> USE DEF IInv
<1>0. /\ pc' = "idle" /\ unacked' = NoCopy /\ UNCHANGED <<sent, queue, handled, failures, faults>>
      /\ unacked \in Copy /\ unacked.id \in Messages
  BY DEF Ack, Reject, Settle, TypeOK, Copy
<1>1. TypeOK'
  BY <1>0 DEF TypeOK, Pc, Ack, Reject
<1>2. RetryInv'
  BY <1>0 DEF RetryInv, Counted
<1>3. CASE Ack
  <2>1. pc = "ack" /\ UNCHANGED dead
    BY <1>3 DEF Ack
  <2> QED
    BY <1>0, <1>1, <1>2, <2>1 DEF PlaceInv, InQueue, DeadAfterBudget
<1>4. CASE Reject
  <2>1. pc = "reject" /\ dead' = dead \cup {unacked.id}
    BY <1>4 DEF Reject
  <2>2. failures[unacked.id] > MaxRetryAttempts
    BY <1>0, <2>1, DeliveryAssumption DEF RetryInv, TypeOK
  <2>3. DeadAfterBudget' /\ PlaceInv'
    BY <1>0, <2>1, <2>2 DEF DeadAfterBudget, PlaceInv, InQueue
  <2> QED
    BY <1>1, <1>2, <2>3
<1> QED
  BY <1>3, <1>4

LEMMA GiveBackInv ==
  ASSUME IInv, Requeue \/ ConnectionLost
  PROVE  IInv'
<1> USE DEF IInv
<1>0. /\ pc # "idle" /\ pc' = "idle" /\ unacked' = NoCopy /\ queue' = <<unacked>> \o queue
      /\ unacked \in Copy /\ queue \in Seq(Copy) /\ faults' \in Nat
      /\ UNCHANGED <<sent, handled, failures, dead>>
  BY DEF Requeue, ConnectionLost, GiveBack, Settle, Fault, TypeOK
<1>1. TypeOK'
  BY <1>0, QueueFacts DEF TypeOK, Pc
<1>2. RetryInv'
  <2>1. \A i \in DOMAIN queue' : queue'[i] = unacked \/ \E j \in DOMAIN queue : queue'[i] = queue[j]
    BY <1>0, QueueFacts
  <2>2. Counted(unacked) /\ \A j \in DOMAIN queue : Counted(queue[j])
    BY <1>0 DEF RetryInv
  <2>3. \A i \in DOMAIN queue' : queue'[i].retry <= failures[queue'[i].id]
    BY <2>1, <2>2 DEF Counted
  <2> QED
    BY <1>0, <2>3 DEF RetryInv, Counted
<1>3. \E i \in DOMAIN queue' : queue'[i].id = unacked.id
  BY <1>0, QueueFacts
<1>4. \A m \in Messages : InQueue(m) => InQueue(m)'
  <2>1. \A i \in DOMAIN queue : \E j \in DOMAIN queue' : queue'[j] = queue[i]
    BY <1>0, QueueFacts
  <2> QED
    BY <2>1 DEF InQueue
<1>5. ASSUME NEW m \in Messages, m = unacked.id
      PROVE  InQueue(m)'
  BY <1>3, <1>5 DEF InQueue
<1>6. PlaceInv'
  BY <1>0, <1>4, <1>5 DEF PlaceInv
<1>7. DeadAfterBudget'
  BY <1>0 DEF DeadAfterBudget
<1> QED
  BY <1>1, <1>2, <1>6, <1>7

LEMMA StepInv == IInv /\ [Next]_vars => IInv'
<1> SUFFICES ASSUME IInv, [Next]_vars
             PROVE  IInv'
  OBVIOUS
<1>1. CASE UNCHANGED vars
  BY <1>1 DEF IInv, TypeOK, RetryInv, Counted, PlaceInv, InQueue, DeadAfterBudget, vars
<1> QED
  BY <1>1, PublishInv, DeliverInv, DispatchInv, RepublishInv, SettleInv, GiveBackInv
  DEF Next, Consumer

LEMMA Inductive == Spec => []IInv
  BY InitInv, StepInv, PTL DEF Spec

-----------------------------------------------------------------------------
(* The theorems                                                            *)

(* The type invariant; in particular no copy's counter exceeds the budget. *)
THEOREM TypeCorrect == Spec => []TypeOK
<1>1. IInv => TypeOK
  BY DEF IInv
<1> QED
  BY Inductive, <1>1, PTL

(* runOnce's order of republish, ack and nack loses no message.            *)
THEOREM Nothing_Lost == Spec => []NothingLost
<1>1. IInv => NothingLost
  BY DEF IInv, PlaceInv, NothingLost
<1> QED
  BY Inductive, <1>1, PTL

(* A dead-lettered message used up its budget.                             *)
THEOREM Dead_AfterBudget == Spec => []DeadAfterBudget
<1>1. IInv => DeadAfterBudget
  BY DEF IInv
<1> QED
  BY Inductive, <1>1, PTL

-----------------------------------------------------------------------------
(* Counting the copies of a message                                        *)

CopiesOf(q, m) == {i \in DOMAIN q : q[i].id = m}

(* The copy in hand counts until it was handled or has a successor.        *)
Held(m) == IF pc \notin {"idle", "ack"} /\ unacked.id = m THEN 1 ELSE 0

(* Every run of the handler, and every copy that may still cause one, is   *)
(* owed to a publish or a fault of its own.                                *)
CopiesInv ==
  \A m \in Messages :
    handled[m] + Cardinality(CopiesOf(queue, m)) + Held(m) <= sent[m] + faults

LEMMA OneMore ==
  ASSUME NEW S, NEW T, NEW x, IsFiniteSet(S), T \subseteq S \cup {x}
  PROVE  /\ Cardinality(T) \in Nat /\ Cardinality(S) \in Nat
         /\ Cardinality(T) <= Cardinality(S) + 1
<1>1. /\ IsFiniteSet(S \cup {x}) /\ Cardinality(S) \in Nat
      /\ Cardinality(S \cup {x}) = IF x \in S THEN Cardinality(S) ELSE Cardinality(S) + 1
  BY FS_AddElement, FS_CardinalityType
<1>2. Cardinality(T) <= Cardinality(S \cup {x}) /\ IsFiniteSet(T)
  BY <1>1, FS_Subset
<1>3. Cardinality(T) \in Nat
  BY <1>2, FS_CardinalityType
<1> QED  BY <1>1, <1>2, <1>3

(* Shifting positions changes no count.                                    *)
LEMMA Shifted ==
  ASSUME NEW S, NEW T, IsFiniteSet(S), NEW f \in [T -> S], \A i, j \in T : f[i] = f[j] => i = j
  PROVE  IsFiniteSet(T) /\ Cardinality(T) <= Cardinality(S)
         /\ Cardinality(T) \in Nat /\ Cardinality(S) \in Nat
<1>1. f \in Injection(T, S)
  BY DEF Injection, IsInjective
<1>2. IsFiniteSet(T) /\ Cardinality(T) <= Cardinality(S)
  BY <1>1, FS_Injection
<1> QED  BY <1>2, FS_CardinalityType

LEMMA FiniteCopies ==
  ASSUME NEW q \in Seq(Copy), NEW m
  PROVE  IsFiniteSet(CopiesOf(q, m)) /\ Cardinality(CopiesOf(q, m)) \in Nat
<1>1. IsFiniteSet(1..Len(q)) /\ CopiesOf(q, m) \subseteq 1..Len(q)
  BY FS_Interval DEF CopiesOf
<1> QED  BY <1>1, FS_Subset, FS_CardinalityType

LEMMA AppendCount ==
  ASSUME NEW q \in Seq(Copy), NEW c \in Copy, NEW m
  PROVE  Cardinality(CopiesOf(Append(q, c), m))
           <= Cardinality(CopiesOf(q, m)) + (IF c.id = m THEN 1 ELSE 0)
<1>1. CopiesOf(Append(q, c), m) \subseteq
        CopiesOf(q, m) \cup (IF c.id = m THEN {Len(q) + 1} ELSE {})
  BY DEF CopiesOf
<1>2. CASE c.id = m
  <2>1. CopiesOf(Append(q, c), m) \subseteq CopiesOf(q, m) \cup {Len(q) + 1}
    BY <1>1, <1>2
  <2> QED  BY <1>2, <2>1, FiniteCopies, OneMore
<1>3. CASE c.id # m
  <2>1. Cardinality(CopiesOf(Append(q, c), m)) <= Cardinality(CopiesOf(q, m))
    BY <1>1, <1>3, FiniteCopies, FS_Subset
  <2> QED  BY <1>3, <2>1, FiniteCopies
<1> QED  BY <1>2, <1>3

LEMMA GiveBackCount ==
  ASSUME NEW q \in Seq(Copy), NEW c \in Copy, NEW m
  PROVE  Cardinality(CopiesOf(<<c>> \o q, m))
           <= Cardinality(CopiesOf(q, m)) + (IF c.id = m THEN 1 ELSE 0)
<1> DEFINE S == CopiesOf(q, m)
           T == CopiesOf(<<c>> \o q, m)
           f == [i \in T \ {1} |-> i - 1]
<1>1. /\ <<c>> \o q \in Seq(Copy) /\ DOMAIN (<<c>> \o q) = 1..(Len(q) + 1)
      /\ (<<c>> \o q)[1] = c /\ DOMAIN q = 1..Len(q) /\ Len(q) \in Nat
      /\ \A i \in 2..(Len(q) + 1) : (<<c>> \o q)[i] = q[i - 1]
  OBVIOUS
<1>2. T \subseteq 1..(Len(q) + 1) /\ \A i \in T \ {1} : i - 1 \in S
  BY <1>1 DEF CopiesOf
<1>3. 1 \in T => c.id = m
  BY <1>1 DEF CopiesOf
<1>4. IsFiniteSet(S) /\ Cardinality(S) \in Nat
  BY FiniteCopies
<1> HIDE DEF S, T
<1>5. f \in [T \ {1} -> S] /\ \A i, j \in T \ {1} : f[i] = f[j] => i = j
  BY <1>2
<1>6. IsFiniteSet(T \ {1}) /\ Cardinality(T \ {1}) <= Cardinality(S) /\ Cardinality(T \ {1}) \in Nat
  <2> HIDE DEF f
  <2> QED  BY <1>4, <1>5, Shifted
<1>7. Cardinality(T) \in Nat /\ Cardinality(T) <= Cardinality(T \ {1}) + 1
  <2>1. T \subseteq (T \ {1}) \cup {1}
    OBVIOUS
  <2> QED  BY <1>6, <2>1, OneMore
<1>8. 1 \notin T => Cardinality(T) = Cardinality(T \ {1})
  <2>1. 1 \notin T => T = T \ {1}
    OBVIOUS
  <2> QED  BY <2>1
<1>9. Cardinality(T) <= Cardinality(S) + (IF c.id = m THEN 1 ELSE 0)
  BY <1>3, <1>4, <1>6, <1>7, <1>8
<1> QED  BY <1>9 DEF S, T

LEMMA DeliverCount ==
  ASSUME NEW q \in Seq(Copy), q # <<>>, NEW m
  PROVE  Cardinality(CopiesOf(Tail(q), m)) + (IF Head(q).id = m THEN 1 ELSE 0)
           <= Cardinality(CopiesOf(q, m))
<1> DEFINE S == CopiesOf(q, m)
           T == CopiesOf(Tail(q), m)
           f == [i \in T |-> i + 1]
<1>1. /\ Len(q) \in Nat /\ Len(q) >= 1 /\ DOMAIN q = 1..Len(q) /\ Head(q) = q[1]
      /\ DOMAIN Tail(q) = 1..(Len(q) - 1)
      /\ \A i \in 1..(Len(q) - 1) : Tail(q)[i] = q[i + 1]
  OBVIOUS
<1>2. T \subseteq Nat \ {0} /\ \A i \in T : i + 1 \in S \ {1}
  BY <1>1 DEF CopiesOf
<1>3. Head(q).id = m <=> 1 \in S
  BY <1>1 DEF CopiesOf
<1>4. IsFiniteSet(S) /\ Cardinality(S) \in Nat
  BY FiniteCopies
<1> HIDE DEF S, T
<1>5. f \in [T -> S \ {1}] /\ \A i, j \in T : f[i] = f[j] => i = j
  BY <1>2
<1>6. /\ IsFiniteSet(S \ {1})
      /\ Cardinality(S \ {1}) = IF 1 \in S THEN Cardinality(S) - 1 ELSE Cardinality(S)
  BY <1>4, FS_RemoveElement
<1>7. Cardinality(T) <= Cardinality(S \ {1}) /\ Cardinality(T) \in Nat /\ Cardinality(S \ {1}) \in Nat
  <2> HIDE DEF f
  <2> QED  BY <1>5, <1>6, Shifted
<1>8. Cardinality(T) + (IF 1 \in S THEN 1 ELSE 0) <= Cardinality(S)
  BY <1>4, <1>6, <1>7
<1> QED  BY <1>3, <1>8 DEF S, T

LEMMA CopiesTypes ==
  ASSUME TypeOK, NEW m \in Messages
  PROVE  /\ handled[m] \in Nat /\ sent[m] \in Nat /\ faults \in Nat /\ Held(m) \in 0..1
         /\ Cardinality(CopiesOf(queue, m)) \in Nat /\ queue \in Seq(Copy)
<1>1. Cardinality(CopiesOf(queue, m)) \in Nat
  BY FiniteCopies DEF TypeOK
<1> QED  BY <1>1, DeliveryAssumption DEF TypeOK, Held

(* It is enough that a step adds no more to the left side than to the      *)
(* right.                                                                  *)
LEMMA CopiesStep ==
  ASSUME CopiesInv, TypeOK, TypeOK',
         \A m \in Messages :
           handled'[m] + Cardinality(CopiesOf(queue', m)) + Held(m)' + (sent[m] + faults)
             <= handled[m] + Cardinality(CopiesOf(queue, m)) + Held(m) + (sent'[m] + faults')
  PROVE  CopiesInv'
<1> SUFFICES ASSUME NEW m \in Messages
             PROVE  handled'[m] + Cardinality(CopiesOf(queue', m)) + Held(m)' <= sent'[m] + faults'
  BY DEF CopiesInv
<1>1. /\ handled'[m] \in Nat /\ sent'[m] \in Nat /\ faults' \in Nat /\ Held(m)' \in 0..1
      /\ Cardinality(CopiesOf(queue', m)) \in Nat
  <2>1. Cardinality(CopiesOf(queue', m)) \in Nat
    BY FiniteCopies DEF TypeOK
  <2> QED  BY <2>1, DeliveryAssumption DEF TypeOK, Held
<1>2. handled[m] + Cardinality(CopiesOf(queue, m)) + Held(m) <= sent[m] + faults
  BY DEF CopiesInv
<1> DEFINE h  == handled[m]
           n  == Cardinality(CopiesOf(queue, m))
           d  == Held(m)
           s  == sent[m]
           hh == handled'[m]
           nn == Cardinality(CopiesOf(queue', m))
           dd == Held(m)'
           ss == sent'[m]
           ff == faults'
<1>3. /\ h \in Nat /\ n \in Nat /\ d \in Nat /\ s \in Nat /\ faults \in Nat
      /\ hh \in Nat /\ nn \in Nat /\ dd \in Nat /\ ss \in Nat /\ ff \in Nat
  BY <1>1, CopiesTypes
<1>4. h + n + d <= s + faults /\ hh + nn + dd + (s + faults) <= h + n + d + (ss + ff)
  BY <1>2
<1> HIDE DEF h, n, d, s, hh, nn, dd, ss, ff
<1>5. hh + nn + dd <= ss + ff
  BY <1>3, <1>4
<1> QED  BY <1>5 DEF hh, nn, dd, ss, ff

LEMMA CopiesInductive == CopiesInv /\ IInv /\ IInv' /\ [Next]_vars => CopiesInv'
<1> SUFFICES ASSUME CopiesInv, TypeOK, TypeOK', [Next]_vars PROVE CopiesInv'
  BY DEF IInv
<1>1. ASSUME NEW p \in Messages, Publish(p) PROVE CopiesInv'
  <2> DEFINE c == [id |-> p, retry |-> 0]
  <2>1. c \in Copy /\ c.id = p
    BY DeliveryAssumption DEF Copy
  <2>2. queue' = Append(queue, c) /\ UNCHANGED <<unacked, pc, handled, faults>>
    BY <1>1 DEF Publish
  <2>3. \A m \in Messages : sent'[m] = sent[m] + (IF p = m THEN 1 ELSE 0)
    BY <1>1, CopiesTypes DEF Publish, TypeOK
  <2> HIDE DEF c
  <2>4. ASSUME NEW m \in Messages
        PROVE  handled'[m] + Cardinality(CopiesOf(queue', m)) + Held(m)' + (sent[m] + faults)
                 <= handled[m] + Cardinality(CopiesOf(queue, m)) + Held(m) + (sent'[m] + faults')
    <3>1. Cardinality(CopiesOf(queue', m))
            <= Cardinality(CopiesOf(queue, m)) + (IF p = m THEN 1 ELSE 0)
      BY <2>1, <2>2, AppendCount, CopiesTypes
    <3>2. Held(m)' = Held(m) /\ handled'[m] = handled[m] /\ faults' = faults
      BY <2>2 DEF Held
    <3>3. Cardinality(CopiesOf(queue', m)) \in Nat
      BY FiniteCopies DEF TypeOK
    <3> DEFINE h  == handled[m]
               n  == Cardinality(CopiesOf(queue, m))
               d  == Held(m)
               s  == sent[m]
               hh == handled'[m]
               nn == Cardinality(CopiesOf(queue', m))
               dd == Held(m)'
               ss == sent'[m]
               ff == faults'
    <3>4. /\ h \in Nat /\ n \in Nat /\ d \in 0..1 /\ s \in Nat /\ faults \in Nat /\ nn \in Nat
      BY <3>3, CopiesTypes
    <3>5. /\ hh = h /\ dd = d /\ ff = faults
          /\ p = m  => nn <= n + 1 /\ ss = s + 1
          /\ p # m => nn <= n /\ ss = s
      BY <2>3, <3>1, <3>2, <3>3, CopiesTypes
    <3> HIDE DEF h, n, d, s, hh, nn, dd, ss, ff
    <3>6. hh + nn + dd + (s + faults) <= h + n + d + (ss + ff)
      BY <3>4, <3>5
    <3> QED  BY <3>6 DEF h, n, d, s, hh, nn, dd, ss, ff
  <2> QED  BY <2>4, CopiesStep
<1>2. CASE Deliver
  <2>1. /\ queue # <<>> /\ queue' = Tail(queue) /\ unacked' = Head(queue)
        /\ pc = "idle" /\ pc' = "dispatch" /\ UNCHANGED <<sent, handled, faults>>
    BY <1>2 DEF Deliver
  <2>2. ASSUME NEW m \in Messages
        PROVE  handled'[m] + Cardinality(CopiesOf(queue', m)) + Held(m)' + (sent[m] + faults)
                 <= handled[m] + Cardinality(CopiesOf(queue, m)) + Held(m) + (sent'[m] + faults')
    <3>1. Cardinality(CopiesOf(queue', m)) + (IF Head(queue).id = m THEN 1 ELSE 0)
            <= Cardinality(CopiesOf(queue, m))
      BY <2>1, DeliverCount, CopiesTypes
    <3>2. Held(m) = 0 /\ Held(m)' = (IF Head(queue).id = m THEN 1 ELSE 0)
      BY <2>1 DEF Held
    <3>3. Cardinality(CopiesOf(queue', m)) \in Nat
      BY FiniteCopies DEF TypeOK
    <3> QED  BY <2>1, <3>1, <3>2, <3>3, CopiesTypes
  <2> QED  BY <2>2, CopiesStep
<1>3. CASE DispatchOk \/ DispatchError
  <2>1. pc = "dispatch" /\ UNCHANGED <<sent, queue, unacked>> /\ unacked \in Copy
    BY <1>3 DEF DispatchOk, DispatchError, TypeOK
  <2>2. ASSUME NEW m \in Messages
        PROVE  handled'[m] + Cardinality(CopiesOf(queue', m)) + Held(m)' + (sent[m] + faults)
                 <= handled[m] + Cardinality(CopiesOf(queue, m)) + Held(m) + (sent'[m] + faults')
    <3>1. CASE DispatchOk
      <4>1. /\ handled'[m] = handled[m] + (IF unacked.id = m THEN 1 ELSE 0)
            /\ Held(m) = (IF unacked.id = m THEN 1 ELSE 0) /\ Held(m)' = 0 /\ faults' = faults
        BY <2>1, <3>1, CopiesTypes DEF DispatchOk, Held, TypeOK
      <4> QED  BY <2>1, <4>1, CopiesTypes
    <3>2. CASE DispatchError
      <4>1. /\ handled'[m] = handled[m] /\ Held(m)' = Held(m)
            /\ faults' \in {faults, faults + 1}
        BY <2>1, <3>2 DEF DispatchError, Held, Fault
      <4> QED  BY <2>1, <4>1, CopiesTypes
    <3> QED  BY <1>3, <3>1, <3>2
  <2> QED  BY <2>2, CopiesStep
<1>4. CASE Republish
  <2> DEFINE c == [unacked EXCEPT !.retry = @ + 1]
  <2>1. /\ pc = "retry" /\ pc' = "ack" /\ queue' = Append(queue, c) /\ unacked \in Copy
        /\ UNCHANGED <<sent, unacked, handled, faults>>
    BY <1>4 DEF Republish, TypeOK
  <2>2. c.id = unacked.id /\ Append(queue, c) \in Seq(Copy)
    BY <2>1 DEF Copy, TypeOK
  <2> HIDE DEF c
  <2>3. ASSUME NEW m \in Messages
        PROVE  handled'[m] + Cardinality(CopiesOf(queue', m)) + Held(m)' + (sent[m] + faults)
                 <= handled[m] + Cardinality(CopiesOf(queue, m)) + Held(m) + (sent'[m] + faults')
    <3>1. Cardinality(CopiesOf(queue', m))
            <= Cardinality(CopiesOf(queue, m)) + (IF c.id = m THEN 1 ELSE 0)
      BY <2>1, <2>2, AppendCount, CopiesTypes
    <3>2. Held(m) = (IF unacked.id = m THEN 1 ELSE 0) /\ Held(m)' = 0
      BY <2>1 DEF Held
    <3>3. Cardinality(CopiesOf(queue', m)) \in Nat
      BY FiniteCopies DEF TypeOK
    <3> QED  BY <2>1, <2>2, <3>1, <3>2, <3>3, CopiesTypes
  <2> QED  BY <2>3, CopiesStep
<1>5. CASE RepublishError \/ Ack \/ Reject
  <2>1. ASSUME NEW m \in Messages
        PROVE  handled'[m] + Cardinality(CopiesOf(queue', m)) + Held(m)' + (sent[m] + faults)
                 <= handled[m] + Cardinality(CopiesOf(queue, m)) + Held(m) + (sent'[m] + faults')
    <3>1. UNCHANGED <<sent, queue, handled>> /\ faults' \in {faults, faults + 1}
      BY <1>5 DEF RepublishError, Ack, Reject, Settle, Fault
    <3>2. Held(m)' <= Held(m) /\ Held(m)' \in 0..1
      BY <1>5 DEF RepublishError, Ack, Reject, Settle, Held
    <3> DEFINE h  == handled[m]
               n  == Cardinality(CopiesOf(queue, m))
               d  == Held(m)
               s  == sent[m]
               hh == handled'[m]
               nn == Cardinality(CopiesOf(queue', m))
               dd == Held(m)'
               ss == sent'[m]
               ff == faults'
    <3>4. /\ h \in Nat /\ n \in Nat /\ d \in 0..1 /\ s \in Nat /\ faults \in Nat /\ nn \in Nat
      BY <3>1, CopiesTypes
    <3>5. /\ hh = h /\ nn = n /\ ss = s /\ ff \in {faults, faults + 1}
          /\ dd <= d /\ dd \in 0..1
      BY <3>1, <3>2
    <3> HIDE DEF h, n, d, s, hh, nn, dd, ss, ff
    <3>6. hh + nn + dd + (s + faults) <= h + n + d + (ss + ff)
      BY <3>4, <3>5
    <3> QED  BY <3>6 DEF h, n, d, s, hh, nn, dd, ss, ff
  <2> QED  BY <2>1, CopiesStep
<1>6. CASE Requeue \/ ConnectionLost
  <2>1. /\ pc # "idle" /\ pc' = "idle" /\ queue' = <<unacked>> \o queue /\ unacked \in Copy
        /\ UNCHANGED <<sent, handled>>
        /\ \/ pc = "requeue" /\ faults' = faults
           \/ faults' = faults + 1
    BY <1>6 DEF Requeue, ConnectionLost, GiveBack, Settle, Fault, TypeOK
  <2>2. ASSUME NEW m \in Messages
        PROVE  handled'[m] + Cardinality(CopiesOf(queue', m)) + Held(m)' + (sent[m] + faults)
                 <= handled[m] + Cardinality(CopiesOf(queue, m)) + Held(m) + (sent'[m] + faults')
    <3>1. Cardinality(CopiesOf(queue', m))
            <= Cardinality(CopiesOf(queue, m)) + (IF unacked.id = m THEN 1 ELSE 0)
      BY <2>1, GiveBackCount, CopiesTypes
    <3>2. Held(m)' = 0 /\ (pc = "requeue" => Held(m) = (IF unacked.id = m THEN 1 ELSE 0))
      BY <2>1 DEF Held
    <3>3. Cardinality(CopiesOf(queue', m)) \in Nat
      BY FiniteCopies DEF TypeOK
    <3> DEFINE h  == handled[m]
               n  == Cardinality(CopiesOf(queue, m))
               d  == Held(m)
               s  == sent[m]
               hh == handled'[m]
               nn == Cardinality(CopiesOf(queue', m))
               dd == Held(m)'
               ss == sent'[m]
               ff == faults'
    <3>4. /\ h \in Nat /\ n \in Nat /\ d \in 0..1 /\ s \in Nat /\ faults \in Nat /\ nn \in Nat
      BY <3>3, CopiesTypes
    <3>5. /\ hh = h /\ ss = s /\ dd = 0
          /\ nn <= n + 1 /\ (unacked.id # m => nn <= n)
          /\ ff = faults + 1 \/ (ff = faults /\ (unacked.id = m => d = 1))
      BY <2>1, <3>1, <3>2, <3>3, CopiesTypes
    <3> HIDE DEF h, n, d, s, hh, nn, dd, ss, ff
    <3>6. hh + nn + dd + (s + faults) <= h + n + d + (ss + ff)
      BY <3>4, <3>5
    <3> QED  BY <3>6 DEF h, n, d, s, hh, nn, dd, ss, ff
  <2> QED  BY <2>2, CopiesStep
<1>7. CASE UNCHANGED vars
  BY <1>7 DEF vars, CopiesInv, Held
<1> QED  BY <1>1, <1>2, <1>3, <1>4, <1>5, <1>6, <1>7 DEF Next, Consumer

LEMMA CopiesInitInv == Init => CopiesInv
<1> SUFFICES ASSUME Init, NEW m \in Messages
             PROVE  handled[m] + Cardinality(CopiesOf(queue, m)) + Held(m) <= sent[m] + faults
  BY DEF CopiesInv
<1>1. CopiesOf(queue, m) = {}
  BY DEF Init, CopiesOf
<1> QED  BY <1>1, FS_EmptySet DEF Init, Held

(* Every run of a message's handler is owed to a publish or to a fault.    *)
THEOREM Repeats_HaveReasons == Spec => []RepeatsHaveReasons
<1>1. CopiesInv /\ IInv => RepeatsHaveReasons
  <2> SUFFICES ASSUME CopiesInv, TypeOK, NEW m \in Messages
               PROVE  handled[m] <= sent[m] + faults
    BY DEF RepeatsHaveReasons, IInv
  <2>1. handled[m] + Cardinality(CopiesOf(queue, m)) + Held(m) <= sent[m] + faults
    BY DEF CopiesInv
  <2> QED  BY <2>1, CopiesTypes
<1> QED  BY <1>1, CopiesInitInv, CopiesInductive, Inductive, PTL DEF Spec

-----------------------------------------------------------------------------
(* All queues together                                                     *)

LEMMA EventNames ==
  /\ IdentityEvents = {"email.verification_created", "user.registered", "restaurant.initiated"}
  /\ CustomerEvents = {"customer.phone_updated"}
  /\ PaymentEvents = {"payment.succeeded", "payment.failed"}
  /\ OrderEvents = {"order.address_saved", "order.confirmed"}
  /\ RestaurantEvents = {"restaurant.ready_for_review", "restaurant.approved"} \cup RestaurantNews
  /\ Names = IdentityEvents \cup CustomerEvents \cup PaymentEvents \cup OrderEvents \cup RestaurantEvents
<1>1. IdentityEvents = {"email.verification_created", "user.registered", "restaurant.initiated"}
  BY DEF IdentityEvents, IdentityTransactions
<1>2. CustomerEvents = {"customer.phone_updated"}
  BY DEF CustomerEvents, CustomerTransactions
<1>3. PaymentEvents = {"payment.succeeded", "payment.failed"}
  BY DEF PaymentEvents, PaymentTransactions
<1>4. OrderEvents = {"order.address_saved", "order.confirmed"}
  BY DEF OrderEvents, OrderTransactions
<1>5. RestaurantEvents = {"restaurant.ready_for_review", "restaurant.approved"} \cup RestaurantNews
  BY DEF RestaurantEvents, RestaurantTransactions, RestaurantNews
<1>6. Names = IdentityEvents \cup CustomerEvents \cup PaymentEvents \cup OrderEvents \cup RestaurantEvents
  BY DEF Names, Transactions, IdentityEvents, CustomerEvents, PaymentEvents, OrderEvents, RestaurantEvents
<1> QED  BY <1>1, <1>2, <1>3, <1>4, <1>5, <1>6

(* What a worker binds it handles, and what it handles it binds at the     *)
(* exchange of the service that publishes it.                              *)
LEMMA BoundAsHandled ==
  ASSUME NEW w \in Workers
  PROVE  /\ \A b \in Exchanges[w] : b[2] \in Handlers[w]
         /\ Handlers[w] \subseteq Names
         /\ \A e \in Handlers[w] :
              /\ e \in IdentityEvents   => <<"identity.events", e>> \in Exchanges[w]
              /\ e \in CustomerEvents   => <<"customer.events", e>> \in Exchanges[w]
              /\ e \in PaymentEvents    => <<"payment.events", e>> \in Exchanges[w]
              /\ e \in OrderEvents      => <<"order.events", e>> \in Exchanges[w]
              /\ e \in RestaurantEvents => <<"restaurant.events", e>> \in Exchanges[w]
         /\ "restaurant.initiated" \in Handlers[w] => w = "restaurant"
<1> USE EventNames DEF RestaurantNews
<1>1. CASE w = "order"
  BY <1>1 DEF Exchanges, Handlers, OrderExchanges, OrderHandlers
<1>2. CASE w = "customer"
  BY <1>2 DEF Exchanges, Handlers, CustomerExchanges, CustomerHandlers
<1>3. CASE w = "restaurant"
  BY <1>3 DEF Exchanges, Handlers, RestaurantExchanges, RestaurantHandlers
<1>4. CASE w = "search"
  BY <1>4 DEF Exchanges, Handlers, SearchExchanges, SearchHandlers
<1>5. CASE w = "notification"
  BY <1>5 DEF Exchanges, Handlers, NotificationExchanges, NotificationHandlers
<1> QED  BY <1>1, <1>2, <1>3, <1>4, <1>5 DEF Workers

LEMMA MailFacts ==
  ASSUME NEW e \in Names
  PROVE  /\ Len(Mails(e)) \in 0..2
         /\ \A i \in 1..Len(Mails(e)) : Mails(e)[i] \in Recipients
         /\ e = "order.confirmed" =>
              Len(Mails(e)) = 2 /\ Mails(e)[1] = "customer" /\ Mails(e)[2] = "owner"
<1>1. Mails(e) \in {<<"user">>, <<"admin">>, <<"owner">>, <<"customer", "owner">>, <<>>}
  BY DEF Mails, WelcomeMails, CodeMails, ReviewMails, ApprovedMails, OrderMails
<1>2. e = "order.confirmed" => Mails(e) = <<"customer", "owner">>
  BY DEF Mails, WelcomeMails, CodeMails, ReviewMails, ApprovedMails, OrderMails
<1> QED  BY <1>1, <1>2 DEF Recipients

Reached(w, e) ==
  \/ <<w, e>> \in accepted \cup deadLetters \cup early
  \/ \E c \in queues : c.at = w /\ c.name = e

(* Copies of an event that may yet make the notification worker mail, and  *)
(* whether the outbox may yet send another.                                *)
Waiting(e) == {c \in queues : c.at = "notification" /\ c.name = e}
Due(e)     == IF row[e].status \in {"none", "pending", "processing"} /\ row[e].relay # "confirmed"
              THEN 1 ELSE 0

TypeInv ==
  /\ FlowTypeOK
  /\ IsFiniteSet(queues)
  /\ \A e \in Names : row[e].relay # "none" => row[e].status = "processing"

(* Every queued copy has a handler and is owed to a mishap per try, or to  *)
(* the restaurant that is there already.                                   *)
TriesInv ==
  \A c \in queues :
    /\ c.name \in Handlers[c.at]
    /\ c.tries <= mishaps \/ (c.at = "restaurant" /\ <<c.at, c.name>> \in accepted)

ReachInv ==
  \A e \in Names : row[e].status = "processed" \/ row[e].relay = "confirmed" =>
    \A w \in Subscribers(e) : Reached(w, e)

(* Every mail beyond the first, and every copy that could send one, is     *)
(* owed to a mishap of its own.                                            *)
CountInv ==
  \A e \in Names, r \in Recipients :
    mails[e][r] + Cardinality(Waiting(e)) + Due(e) <= 1 + mishaps

MailInv ==
  /\ mails["order.confirmed"]["owner"] <= mails["order.confirmed"]["customer"]
  /\ \A e \in Names : <<"notification", e>> \in accepted =>
       \A i \in 1..Len(Mails(e)) : mails[e][Mails(e)[i]] > 0

FlowInv ==
  TypeInv /\ TriesInv /\ ReachInv /\ DeadHasReason /\ CountInv /\ MailInv

LEMMA FlowInitInv == FlowInit => FlowInv
<1> SUFFICES ASSUME FlowInit PROVE FlowInv
  OBVIOUS
<1>1. TypeInv
  BY FS_EmptySet, EventFlowAssumption DEF FlowInit, TypeInv, FlowTypeOK, Row
<1>2. \A e \in Names : row[e] = [status |-> "none", attempts |-> 0, relay |-> "none"]
  BY DEF FlowInit
<1>3. TriesInv /\ ReachInv /\ DeadHasReason
  BY <1>2 DEF FlowInit, TriesInv, ReachInv, DeadHasReason
<1>4. CountInv
  <2>1. \A e \in Names : Waiting(e) = {} /\ Due(e) = 1
    BY <1>2 DEF FlowInit, Waiting, Due
  <2>2. \A e \in Names, r \in Recipients : mails[e][r] = 0 /\ mishaps = 0
    BY DEF FlowInit
  <2> QED  BY <2>1, <2>2, FS_EmptySet DEF CountInv
<1>5. MailInv
  <2>1. mails["order.confirmed"]["owner"] = 0 /\ mails["order.confirmed"]["customer"] = 0
    BY DEF FlowInit, Names, Recipients
  <2> QED  BY <2>1 DEF FlowInit, MailInv
<1> QED  BY <1>1, <1>3, <1>4, <1>5 DEF FlowInv

LEMMA Bounds ==
  ASSUME FlowInv
  PROVE  /\ mishaps \in Nat
         /\ \A e \in Names, r \in Recipients : mails[e][r] \in Nat
         /\ \A e \in Names : /\ Due(e) \in 0..1
                             /\ IsFiniteSet(Waiting(e))
                             /\ Cardinality(Waiting(e)) \in Nat
<1>1. mishaps \in Nat /\ \A e \in Names, r \in Recipients : mails[e][r] \in Nat
  BY EventFlowAssumption DEF FlowInv, TypeInv, FlowTypeOK
<1>2. \A e \in Names : Due(e) \in 0..1
  BY DEF Due
<1>3. \A e \in Names : Waiting(e) \in SUBSET queues
  BY DEF Waiting
<1>4. \A e \in Names : IsFiniteSet(Waiting(e)) /\ Cardinality(Waiting(e)) \in Nat
  BY <1>3, FS_Subset, FS_CardinalityType DEF FlowInv, TypeInv
<1> QED  BY <1>1, <1>2, <1>4

(* A step of the relays that leaves the queues alone: it may use up one    *)
(* mishap, and only then is the event due once more.                       *)
LEMMA RelayStep ==
  ASSUME FlowInv, row' \in [Names -> Row],
         UNCHANGED <<queues, accepted, deadLetters, mails>>,
         bound' \in SUBSET Workers,
         early \subseteq early', early' \in SUBSET (Workers \X Names),
         mishaps' \in {mishaps, mishaps + 1}, mishaps' <= MaxMishaps,
         \A e \in Names : row'[e].relay # "none" => row'[e].status = "processing",
         \A e \in Names : row'[e].status = "processed" \/ row'[e].relay = "confirmed" =>
           row[e].status = "processed" \/ row[e].relay = "confirmed",
         \A e \in Names : Due(e)' <= Due(e) \/ mishaps' = mishaps + 1
  PROVE  FlowInv'
<1>1. mishaps \in Nat /\ mishaps' \in Nat /\ mishaps <= mishaps' /\ mishaps' \in 0..MaxMishaps
  BY Bounds, EventFlowAssumption
<1>2. TypeInv'
  BY <1>1 DEF FlowInv, TypeInv, FlowTypeOK
<1>3. TriesInv'
  <2>1. \A c \in queues : c.tries \in Nat
    BY EventFlowAssumption DEF FlowInv, TypeInv, FlowTypeOK, QueuedCopy
  <2> SUFFICES ASSUME NEW c \in queues
               PROVE  /\ c.name \in Handlers[c.at]
                      /\ c.tries <= mishaps' \/ (c.at = "restaurant" /\ <<c.at, c.name>> \in accepted)
    BY DEF TriesInv
  <2>2. /\ c.name \in Handlers[c.at]
        /\ c.tries <= mishaps \/ (c.at = "restaurant" /\ <<c.at, c.name>> \in accepted)
    BY DEF FlowInv, TriesInv
  <2> QED  BY <1>1, <2>1, <2>2
<1>4. \A w, e : Reached(w, e) => Reached(w, e)'
  BY DEF Reached
<1>5. ReachInv'
  BY <1>4 DEF FlowInv, ReachInv, Subscribers
<1>6. DeadHasReason'
  BY <1>1, EventFlowAssumption DEF FlowInv, DeadHasReason
<1>7. CountInv'
  <2> SUFFICES ASSUME NEW e \in Names, NEW r \in Recipients
               PROVE  mails[e][r] + Cardinality(Waiting(e)) + Due(e)' <= 1 + mishaps'
    BY DEF CountInv, Waiting
  <2>1. mails[e][r] + Cardinality(Waiting(e)) + Due(e) <= 1 + mishaps
    BY DEF FlowInv, CountInv
  <2>2. Due(e)' \in 0..1
    BY DEF Due
  <2> QED  BY <1>1, <2>1, <2>2, Bounds
<1>8. MailInv'
  BY DEF FlowInv, MailInv
<1> QED  BY <1>2, <1>3, <1>5, <1>6, <1>7, <1>8 DEF FlowInv

(* An event that is recorded was none before, and is as due as it was.     *)
LEMMA RecordedRow ==
  ASSUME TypeInv, NEW t, row' = Recorded(t)
  PROVE  /\ row' \in [Names -> Row]
         /\ \A e \in Names : row'[e].relay # "none" => row'[e].status = "processing"
         /\ \A e \in Names : row'[e].status = "processed" \/ row'[e].relay = "confirmed" =>
              row[e].status = "processed" \/ row[e].relay = "confirmed"
         /\ \A e \in Names : Due(e)' = Due(e)
<1>1. \A e \in Names : \/ row'[e] = row[e]
                       \/ /\ row[e].status = "none" /\ row[e].relay = "none"
                          /\ row'[e] = [status |-> "pending", attempts |-> 0, relay |-> "none"]
  BY DEF Recorded, TypeInv, FlowTypeOK, Row
<1>2. row' \in [Names -> Row]
  BY DEF Recorded, TypeInv, FlowTypeOK, Row
<1> QED  BY <1>1, <1>2 DEF TypeInv, Due

LEMMA CommitInv == ASSUME FlowInv, NEW transactions, Commit(transactions) PROVE FlowInv'
<1>1. PICK t \in transactions : row' = Recorded(t)
  BY DEF Commit
<1>2. mishaps' = mishaps /\ mishaps <= MaxMishaps
  BY EventFlowAssumption DEF Commit, FlowInv, TypeInv, FlowTypeOK
<1>3. /\ row' \in [Names -> Row]
      /\ \A e \in Names : row'[e].relay # "none" => row'[e].status = "processing"
      /\ \A e \in Names : row'[e].status = "processed" \/ row'[e].relay = "confirmed" =>
           row[e].status = "processed" \/ row[e].relay = "confirmed"
      /\ \A e \in Names : Due(e)' = Due(e)
  BY <1>1, RecordedRow DEF FlowInv
<1>4. /\ bound' \in SUBSET Workers /\ early \in SUBSET (Workers \X Names)
      /\ \A e \in Names : Due(e)' <= Due(e)
  BY <1>3, Bounds DEF Commit, FlowInv, TypeInv, FlowTypeOK
<1> QED  BY <1>2, <1>3, <1>4, RelayStep DEF Commit

(* What writing an event's row does.                                       *)
LEMMA SetRowFacts ==
  ASSUME FlowInv, NEW e \in Names,
         NEW status \in {"pending", "processing", "processed", "failed"}, NEW attempts \in Nat,
         NEW relay \in {"none", "claimed", "confirmed", "error"},
         relay # "none" => status = "processing",
         SetRow(e, status, attempts, relay)
  PROVE  /\ row' \in [Names -> Row]
         /\ row'[e] = [status |-> status, attempts |-> attempts, relay |-> relay]
         /\ \A f \in Names \ {e} : row'[f] = row[f] /\ Due(f)' = Due(f)
         /\ \A f \in Names : row'[f].relay # "none" => row'[f].status = "processing"
         /\ Due(e)' = IF status \in {"pending", "processing"} /\ relay # "confirmed" THEN 1 ELSE 0
<1>1. /\ row' \in [Names -> Row]
      /\ row'[e] = [status |-> status, attempts |-> attempts, relay |-> relay]
      /\ \A f \in Names \ {e} : row'[f] = row[f]
  BY DEF SetRow, FlowInv, TypeInv, FlowTypeOK, Row
<1> QED  BY <1>1 DEF FlowInv, TypeInv, Due

LEMMA ClaimsInv == ASSUME FlowInv, NEW e \in Names, Claims(e) PROVE FlowInv'
<1>1. row[e].attempts + 1 \in Nat
  BY DEF FlowInv, TypeInv, FlowTypeOK, Row
<1>2. /\ row' \in [Names -> Row]
      /\ row'[e] = [status |-> "processing", attempts |-> row[e].attempts + 1, relay |-> "claimed"]
      /\ \A f \in Names \ {e} : row'[f] = row[f] /\ Due(f)' = Due(f)
      /\ \A f \in Names : row'[f].relay # "none" => row'[f].status = "processing"
      /\ Due(e)' = 1
  BY <1>1, SetRowFacts DEF Claims
<1>3. Due(e) = 1
  BY DEF Claims, Due
<1>4. /\ bound' \in SUBSET Workers /\ early \in SUBSET (Workers \X Names)
      /\ mishaps' = mishaps /\ mishaps <= MaxMishaps
  BY EventFlowAssumption DEF Claims, FlowInv, TypeInv, FlowTypeOK
<1>5. \A f \in Names : Due(f)' <= Due(f)
  BY <1>2, <1>3, Bounds
<1>6. \A f \in Names : row'[f].status = "processed" \/ row'[f].relay = "confirmed" =>
        row[f].status = "processed" \/ row[f].relay = "confirmed"
  BY <1>2
<1> QED  BY <1>2, <1>4, <1>5, <1>6, RelayStep DEF Claims

LEMMA SettlesInv == ASSUME FlowInv, NEW e \in Names, Settles(e) PROVE FlowInv'
<1>1. /\ row[e].relay \in {"confirmed", "error"} /\ row[e].attempts \in Nat
      /\ row[e].status = "processing"
      /\ UNCHANGED <<bound, queues, accepted, deadLetters, mails, early>>
      /\ bound' \in SUBSET Workers /\ early \in SUBSET (Workers \X Names)
      /\ mishaps \in 0..MaxMishaps
  BY DEF Settles, FlowInv, TypeInv, FlowTypeOK, Row
<1> DEFINE status == IF row[e].relay = "confirmed" THEN "processed"
                     ELSE IF row[e].attempts >= MaxAttempts THEN "failed" ELSE "pending"
<1>2. CASE SetRow(e, status, row[e].attempts, "none") /\ UNCHANGED mishaps
  <2>1. /\ status \in {"pending", "processed", "failed"}
        /\ status = "processed" => row[e].relay = "confirmed"
        /\ status = "pending" => row[e].relay = "error"
    BY <1>1
  <2> HIDE DEF status
  <2>2. /\ row' \in [Names -> Row]
        /\ row'[e] = [status |-> status, attempts |-> row[e].attempts, relay |-> "none"]
        /\ \A f \in Names \ {e} : row'[f] = row[f] /\ Due(f)' = Due(f)
        /\ \A f \in Names : row'[f].relay # "none" => row'[f].status = "processing"
        /\ Due(e)' = IF status = "pending" THEN 1 ELSE 0
    BY <1>1, <1>2, <2>1, SetRowFacts
  <2>3. \A f \in Names : Due(f)' <= Due(f)
    BY <1>1, <2>1, <2>2, Bounds DEF Due
  <2>4. \A f \in Names : row'[f].status = "processed" \/ row'[f].relay = "confirmed" =>
          row[f].status = "processed" \/ row[f].relay = "confirmed"
    BY <2>1, <2>2
  <2>5. mishaps' = mishaps /\ mishaps' <= MaxMishaps
    BY <1>1, <1>2, EventFlowAssumption
  <2> QED  BY <1>1, <2>2, <2>3, <2>4, <2>5, RelayStep
<1>3. CASE SetRow(e, "processing", row[e].attempts, "none") /\ Mishaps(1)
  <2>1. /\ row' \in [Names -> Row]
        /\ row'[e] = [status |-> "processing", attempts |-> row[e].attempts, relay |-> "none"]
        /\ \A f \in Names \ {e} : row'[f] = row[f]
        /\ \A f \in Names : row'[f].relay # "none" => row'[f].status = "processing"
    BY <1>1, <1>3, SetRowFacts
  <2>2. mishaps' = mishaps + 1 /\ mishaps' <= MaxMishaps
    BY <1>3 DEF Mishaps
  <2>3. \A f \in Names : row'[f].status = "processed" \/ row'[f].relay = "confirmed" =>
          row[f].status = "processed" \/ row[f].relay = "confirmed"
    BY <2>1
  <2> QED  BY <1>1, <2>1, <2>2, <2>3, RelayStep
<1> QED  BY <1>2, <1>3 DEF Settles

LEMMA StopsInv == ASSUME FlowInv, NEW e \in Names, Stops(e) PROVE FlowInv'
<1>1. PICK status \in {"processing", "pending"} : SetRow(e, status, row[e].attempts, "none")
  BY DEF Stops
<1>2. /\ row[e].attempts \in Nat
      /\ UNCHANGED <<bound, queues, accepted, deadLetters, mails, early>>
      /\ bound' \in SUBSET Workers /\ early \in SUBSET (Workers \X Names)
      /\ mishaps' = mishaps + 1 /\ mishaps' <= MaxMishaps
  BY DEF Stops, Mishaps, FlowInv, TypeInv, FlowTypeOK, Row
<1>3. /\ row' \in [Names -> Row]
      /\ row'[e] = [status |-> status, attempts |-> row[e].attempts, relay |-> "none"]
      /\ \A f \in Names \ {e} : row'[f] = row[f]
      /\ \A f \in Names : row'[f].relay # "none" => row'[f].status = "processing"
  <2>1. status \in {"pending", "processing", "processed", "failed"}
    OBVIOUS
  <2> QED  BY <1>1, <1>2, <2>1, SetRowFacts
<1>4. \A f \in Names : row'[f].status = "processed" \/ row'[f].relay = "confirmed" =>
        row[f].status = "processed" \/ row[f].relay = "confirmed"
  BY <1>3
<1> QED  BY <1>2, <1>3, <1>4, RelayStep

LEMMA ConnectsInv == ASSUME FlowInv, NEW w \in Workers, Connects(w) PROVE FlowInv'
<1>1. /\ UNCHANGED <<row, queues, accepted, deadLetters, mails, early, mishaps>>
      /\ bound' \in SUBSET Workers /\ early \in SUBSET (Workers \X Names)
      /\ row' \in [Names -> Row]
      /\ mishaps' <= MaxMishaps
      /\ \A e \in Names : row[e].relay # "none" => row[e].status = "processing"
  BY EventFlowAssumption DEF Connects, FlowInv, TypeInv, FlowTypeOK
<1>2. \A e \in Names : Due(e)' <= Due(e)
  BY <1>1, Bounds DEF Due
<1> QED  BY <1>1, <1>2, RelayStep

LEMMA FiveFinite == \A a, b, c, d, e : IsFiniteSet({a, b, c, d, e})
<1> TAKE a, b, c, d, e
<1>1. IsFiniteSet({a} \cup {b})
  BY FS_Singleton, FS_AddElement
<1>2. IsFiniteSet(({a} \cup {b}) \cup {c})
  BY <1>1, FS_AddElement
<1>3. IsFiniteSet((({a} \cup {b}) \cup {c}) \cup {d})
  BY <1>2, FS_AddElement
<1>4. IsFiniteSet(((({a} \cup {b}) \cup {c}) \cup {d}) \cup {e})
  BY <1>3, FS_AddElement
<1>5. {a, b, c, d, e} = ((({a} \cup {b}) \cup {c}) \cup {d}) \cup {e}
  OBVIOUS
<1> QED  BY <1>4, <1>5

(* What the broker makes of one message: a copy in every bound queue, one  *)
(* of them the notification worker's.                                      *)
LEMMA RoutedFacts ==
  ASSUME FlowInv, NEW e \in Names, NEW exchange, queues' = Routed(exchange, e)
  PROVE  /\ queues \subseteq queues'
         /\ \A c \in queues' : c \in QueuedCopy
         /\ IsFiniteSet(queues')
         /\ \A c \in queues' : \/ c \in queues
                               \/ /\ c.name = e /\ c.tries = 0 /\ c.at \in Workers
                                  /\ <<exchange, e>> \in Exchanges[c.at]
         /\ \A w \in bound : <<exchange, e>> \in Exchanges[w] => \E c \in queues' : c.at = w /\ c.name = e
         /\ \A f \in Names \ {e} : Waiting(f)' = Waiting(f)
         /\ Cardinality(Waiting(e)') <= Cardinality(Waiting(e)) + 1
<1> DEFINE New(w) == [at |-> w, name |-> e, copy |-> row[e].attempts, tries |-> 0]
           News == {New(w) : w \in {v \in bound : <<exchange, e>> \in Exchanges[v]}}
<1>1. queues' = queues \cup News
  BY DEF Routed
<1>2. /\ row[e].attempts \in Nat /\ bound \in SUBSET Workers /\ IsFiniteSet(queues)
      /\ \A c \in queues : c \in QueuedCopy
  BY DEF FlowInv, TypeInv, FlowTypeOK, Row
<1>3. \A w \in Workers : New(w) \in QueuedCopy /\ New(w).at = w /\ New(w).name = e /\ New(w).tries = 0
  BY <1>2, EventFlowAssumption DEF QueuedCopy
<1>4. IsFiniteSet(News)
  <2>1. IsFiniteSet({New("order"), New("customer"), New("restaurant"), New("search"), New("notification")})
    BY FiveFinite
  <2>2. News \in SUBSET {New("order"), New("customer"), New("restaurant"), New("search"), New("notification")}
    BY <1>2 DEF Workers
  <2> HIDE DEF News, New
  <2> QED  BY <2>1, <2>2, FS_Subset
<1>5. \A c \in News : \E w \in bound : <<exchange, e>> \in Exchanges[w] /\ c = New(w)
  OBVIOUS
<1>6. \A w \in bound : <<exchange, e>> \in Exchanges[w] => New(w) \in News
  OBVIOUS
<1> HIDE DEF News, New
<1>7. IsFiniteSet(queues')
  BY <1>1, <1>2, <1>4, FS_Union
<1>8. \A c \in News : /\ c \in QueuedCopy /\ c.name = e /\ c.tries = 0 /\ c.at \in Workers
                      /\ <<exchange, e>> \in Exchanges[c.at]
                      /\ c.at = "notification" => c = New("notification")
  BY <1>2, <1>3, <1>5
<1>9. \A w \in bound : <<exchange, e>> \in Exchanges[w] => \E c \in queues' : c.at = w /\ c.name = e
  BY <1>1, <1>2, <1>3, <1>6
<1>10. \A f \in Names \ {e} : Waiting(f)' = Waiting(f)
  BY <1>1, <1>8 DEF Waiting
<1>11. Cardinality(Waiting(e)') <= Cardinality(Waiting(e)) + 1
  <2>1. Waiting(e)' \subseteq Waiting(e) \cup {New("notification")}
    BY <1>1, <1>8 DEF Waiting
  <2>2. IsFiniteSet(Waiting(e))
    BY Bounds
  <2> QED  BY <2>1, <2>2, OneMore
<1> QED  BY <1>1, <1>2, <1>7, <1>8, <1>9, <1>10, <1>11

(* Every subscriber gets its copy, or had no queue yet.                    *)
LEMMA PublishesInv ==
  ASSUME FlowInv, NEW e \in Names, NEW exchange,
         \A w \in Workers : e \in Handlers[w] => <<exchange, e>> \in Exchanges[w],
         Publishes(exchange, e)
  PROVE  FlowInv'
<1>1. /\ row[e].relay = "claimed" /\ row[e].status = "processing" /\ row[e].attempts \in Nat
      /\ UNCHANGED <<bound, accepted, deadLetters, mails>>
      /\ bound \in SUBSET Workers
      /\ mishaps \in Nat
  BY Bounds DEF Publishes, FlowInv, TypeInv, FlowTypeOK, Row
<1>2. /\ early \subseteq early' /\ early' \in SUBSET (Workers \X Names)
      /\ \A w \in Workers \ bound : e \in Handlers[w] => <<w, e>> \in early'
  BY DEF Publishes, FlowInv, TypeInv, FlowTypeOK
<1>3. Due(e) = 1
  BY <1>1 DEF Due
<1>4. ASSUME NEW relay \in {"confirmed", "error"}, SetRow(e, "processing", row[e].attempts, relay)
      PROVE  /\ row' \in [Names -> Row]
             /\ row'[e] = [status |-> "processing", attempts |-> row[e].attempts, relay |-> relay]
             /\ \A f \in Names \ {e} : row'[f] = row[f] /\ Due(f)' = Due(f)
             /\ \A f \in Names : row'[f].relay # "none" => row'[f].status = "processing"
             /\ Due(e)' = IF relay # "confirmed" THEN 1 ELSE 0
  <2>1. "processing" \in {"pending", "processing", "processed", "failed"}
        /\ relay \in {"none", "claimed", "confirmed", "error"}
    BY <1>4
  <2> QED  BY <1>1, <1>4, <2>1, SetRowFacts
<1>5. CASE SetRow(e, "processing", row[e].attempts, "error") /\ queues' = queues /\ Mishaps(1)
  <2>1. mishaps' = mishaps + 1 /\ mishaps' <= MaxMishaps /\ bound' \in SUBSET Workers
    BY <1>1, <1>5 DEF Mishaps
  <2>2. /\ row' \in [Names -> Row]
        /\ row'[e] = [status |-> "processing", attempts |-> row[e].attempts, relay |-> "error"]
        /\ \A f \in Names \ {e} : row'[f] = row[f]
        /\ \A f \in Names : row'[f].relay # "none" => row'[f].status = "processing"
    BY <1>4, <1>5
  <2>3. \A f \in Names : row'[f].status = "processed" \/ row'[f].relay = "confirmed" =>
          row[f].status = "processed" \/ row[f].relay = "confirmed"
    BY <2>2
  <2>4. UNCHANGED <<queues, accepted, deadLetters, mails>>
    BY <1>1, <1>5
  <2> QED  BY <1>2, <2>1, <2>2, <2>3, <2>4, RelayStep
<1>6. ASSUME NEW relay \in {"confirmed", "error"}, SetRow(e, "processing", row[e].attempts, relay),
             queues' = Routed(exchange, e),
             \/ relay = "confirmed" /\ mishaps' = mishaps
             \/ relay = "error" /\ Mishaps(1)
      PROVE  FlowInv'
  <2>1. /\ row' \in [Names -> Row]
        /\ row'[e] = [status |-> "processing", attempts |-> row[e].attempts, relay |-> relay]
        /\ \A f \in Names \ {e} : row'[f] = row[f] /\ Due(f)' = Due(f)
        /\ \A f \in Names : row'[f].relay # "none" => row'[f].status = "processing"
        /\ Due(e)' = IF relay # "confirmed" THEN 1 ELSE 0
    BY <1>4, <1>6
  <2>2. /\ queues \subseteq queues'
        /\ \A c \in queues' : c \in QueuedCopy
        /\ IsFiniteSet(queues')
        /\ \A c \in queues' : \/ c \in queues
                              \/ /\ c.name = e /\ c.tries = 0 /\ c.at \in Workers
                                 /\ <<exchange, e>> \in Exchanges[c.at]
        /\ \A w \in bound : <<exchange, e>> \in Exchanges[w] => \E c \in queues' : c.at = w /\ c.name = e
        /\ \A f \in Names \ {e} : Waiting(f)' = Waiting(f)
        /\ Cardinality(Waiting(e)') <= Cardinality(Waiting(e)) + 1
    BY <1>6, RoutedFacts
  <2>3. /\ mishaps' \in 0..MaxMishaps /\ mishaps <= mishaps'
        /\ mishaps' = mishaps + (IF relay = "confirmed" THEN 0 ELSE 1)
    BY <1>1, <1>6, EventFlowAssumption DEF Mishaps, FlowInv, TypeInv, FlowTypeOK
  <2>4. TypeInv'
    BY <1>1, <1>2, <2>1, <2>2, <2>3 DEF FlowInv, TypeInv, FlowTypeOK
  <2>5. TriesInv'
    <3> SUFFICES ASSUME NEW c \in queues'
                 PROVE  /\ c.name \in Handlers[c.at]
                        /\ c.tries <= mishaps' \/ (c.at = "restaurant" /\ <<c.at, c.name>> \in accepted)
      BY <1>1 DEF TriesInv
    <3>1. CASE c \in queues
      <4>1. c.tries \in Nat
        BY <2>2, EventFlowAssumption DEF QueuedCopy
      <4>2. /\ c.name \in Handlers[c.at]
            /\ c.tries <= mishaps \/ (c.at = "restaurant" /\ <<c.at, c.name>> \in accepted)
        BY <3>1 DEF FlowInv, TriesInv
      <4> QED  BY <1>1, <2>3, <4>1, <4>2
    <3>2. CASE c.name = e /\ c.tries = 0 /\ c.at \in Workers /\ <<exchange, e>> \in Exchanges[c.at]
      <4>1. <<exchange, e>>[2] \in Handlers[c.at]
        BY <3>2, BoundAsHandled
      <4> QED  BY <2>3, <3>2, <4>1
    <3> QED  BY <2>2, <3>1, <3>2
  <2>6. \A w, f : Reached(w, f) => Reached(w, f)'
    BY <1>1, <1>2, <2>2 DEF Reached
  <2>7. ReachInv'
    <3>1. \A w \in Subscribers(e) : Reached(w, e)'
      BY <1>1, <1>2, <2>2 DEF Subscribers, Reached
    <3>2. \A f \in Names \ {e} : row'[f].status = "processed" \/ row'[f].relay = "confirmed" =>
            \A w \in Subscribers(f) : Reached(w, f)'
      BY <2>1, <2>6 DEF FlowInv, ReachInv
    <3> QED  BY <3>1, <3>2 DEF ReachInv, Subscribers
  <2>8. DeadHasReason'
    BY <1>1, <2>3, EventFlowAssumption DEF FlowInv, DeadHasReason
  <2>9. CountInv'
    <3> SUFFICES ASSUME NEW f \in Names, NEW r \in Recipients
                 PROVE  mails[f][r] + Cardinality(Waiting(f)') + Due(f)' <= 1 + mishaps'
      BY <1>1 DEF CountInv
    <3>1. mails[f][r] + Cardinality(Waiting(f)) + Due(f) <= 1 + mishaps
      BY DEF FlowInv, CountInv
    <3>2. /\ mails[f][r] \in Nat /\ Cardinality(Waiting(f)) \in Nat /\ Due(f) \in 0..1
      BY Bounds
    <3>3. CASE f # e
      BY <1>1, <2>1, <2>2, <2>3, <3>1, <3>2, <3>3
    <3>4. CASE f = e
      <4>1. Cardinality(Waiting(e)') \in Nat
        <5>1. Waiting(e)' \in SUBSET queues'
          BY DEF Waiting
        <5> QED  BY <2>2, <5>1, FS_Subset, FS_CardinalityType
      <4> QED  BY <1>1, <1>3, <2>1, <2>2, <2>3, <3>1, <3>2, <3>4, <4>1
    <3> QED  BY <3>3, <3>4
  <2>10. MailInv'
    BY <1>1 DEF FlowInv, MailInv
  <2> QED  BY <2>4, <2>5, <2>7, <2>8, <2>9, <2>10 DEF FlowInv
<1>7. \/ SetRow(e, "processing", row[e].attempts, "confirmed") /\ queues' = Routed(exchange, e)
         /\ mishaps' = mishaps
      \/ SetRow(e, "processing", row[e].attempts, "error") /\ queues' = queues /\ Mishaps(1)
      \/ SetRow(e, "processing", row[e].attempts, "error") /\ queues' = Routed(exchange, e)
         /\ Mishaps(1)
  BY DEF Publishes
<1> QED  BY <1>5, <1>6, <1>7

(* What sending the first n mails of a handler does to their counts.       *)
LEMMA SentFacts ==
  ASSUME FlowInv, NEW e \in Names, NEW n \in 0..Len(Mails(e)), mails' = Sent(e, n)
  PROVE  /\ mails' \in [Names -> [Recipients -> Nat]]
         /\ \A f \in Names \ {e}, r \in Recipients : mails'[f][r] = mails[f][r]
         /\ \A r \in Recipients : mails'[e][r] \in {mails[e][r], mails[e][r] + 1}
         /\ n = Len(Mails(e)) => \A i \in 1..Len(Mails(e)) : mails'[e][Mails(e)[i]] > 0
         /\ MailInv => mails'["order.confirmed"]["owner"] <= mails'["order.confirmed"]["customer"]
<1>1. /\ mails \in [Names -> [Recipients -> Nat]]
      /\ \A f \in Names, r \in Recipients : mails[f][r] \in Nat
  BY DEF FlowInv, TypeInv, FlowTypeOK
<1>2. /\ Len(Mails(e)) \in 0..2
      /\ \A i \in 1..Len(Mails(e)) : Mails(e)[i] \in Recipients
      /\ e = "order.confirmed" =>
           Len(Mails(e)) = 2 /\ Mails(e)[1] = "customer" /\ Mails(e)[2] = "owner"
  BY MailFacts
<1> DEFINE count == [r \in Recipients |->
                       IF \E i \in 1..n : Mails(e)[i] = r THEN mails[e][r] + 1 ELSE mails[e][r]]
<1>3. mails' = [mails EXCEPT ![e] = count]
  BY DEF Sent
<1>4. count \in [Recipients -> Nat]
  BY <1>1
<1>5. /\ \A r \in Recipients : count[r] \in {mails[e][r], mails[e][r] + 1}
      /\ \A r \in Recipients : (\E i \in 1..n : Mails(e)[i] = r) => count[r] = mails[e][r] + 1
      /\ \A r \in Recipients : ~(\E i \in 1..n : Mails(e)[i] = r) => count[r] = mails[e][r]
  OBVIOUS
<1> HIDE DEF count
<1>6. mails'[e] = count /\ \A f \in Names \ {e} : mails'[f] = mails[f]
  BY <1>1, <1>3
<1>7. mails' \in [Names -> [Recipients -> Nat]]
  BY <1>1, <1>3, <1>4
<1>8. ASSUME n = Len(Mails(e)), NEW i \in 1..Len(Mails(e)) PROVE mails'[e][Mails(e)[i]] > 0
  <2>1. Mails(e)[i] \in Recipients /\ mails[e][Mails(e)[i]] \in Nat
    BY <1>1, <1>2
  <2>2. count[Mails(e)[i]] = mails[e][Mails(e)[i]] + 1
    BY <1>5, <1>8, <2>1
  <2> QED  BY <1>6, <2>1, <2>2
<1>9. ASSUME MailInv PROVE mails'["order.confirmed"]["owner"] <= mails'["order.confirmed"]["customer"]
  <2>1. /\ mails["order.confirmed"]["owner"] <= mails["order.confirmed"]["customer"]
        /\ "order.confirmed" \in Names /\ {"owner", "customer"} \subseteq Recipients
    BY <1>9 DEF MailInv, Names, Recipients
  <2>2. CASE e # "order.confirmed"
    BY <1>6, <2>1, <2>2
  <2>3. CASE e = "order.confirmed"
    <3>1. (\E i \in 1..n : Mails(e)[i] = "owner") => \E i \in 1..n : Mails(e)[i] = "customer"
      <4>1. n \in 0..2 /\ Mails(e)[1] = "customer" /\ "customer" # "owner"
        BY <1>2, <2>3
      <4>2. n = 0 \/ 1 \in 1..n
        BY <4>1
      <4> QED  BY <4>1, <4>2
    <3>2. count["owner"] <= count["customer"]
      <4>1. mails[e]["owner"] \in Nat /\ mails[e]["customer"] \in Nat
        BY <1>1, <2>1, <2>3
      <4>2. CASE \E i \in 1..n : Mails(e)[i] = "owner"
        BY <1>5, <2>1, <2>3, <3>1, <4>1, <4>2
      <4>3. CASE ~ \E i \in 1..n : Mails(e)[i] = "owner"
        <5>1. count["owner"] = mails[e]["owner"]
          BY <1>5, <2>1, <4>3
        <5>2. count["customer"] \in {mails[e]["customer"], mails[e]["customer"] + 1}
          BY <1>5, <2>1
        <5>3. mails[e]["owner"] <= mails[e]["customer"]
          BY <2>1, <2>3
        <5> QED  BY <4>1, <5>1, <5>2, <5>3
      <4> QED  BY <4>2, <4>3
    <3> QED  BY <1>6, <2>3, <3>2
  <2> QED  BY <2>2, <2>3
<1> QED  BY <1>5, <1>6, <1>7, <1>8, <1>9

(* A delivery may use up mishaps; it pays for what it adds to the mails    *)
(* and to the copies of its event, and it loses sight of no copy.          *)
LEMMA DeliveryStep ==
  ASSUME FlowInv, NEW c \in queues,
         row' \in [Names -> Row],
         \A e \in Names : row'[e].relay # "none" => row'[e].status = "processing",
         \A e \in Names : row'[e].status = "processed" \/ row'[e].relay = "confirmed" =>
           row[e].status = "processed" \/ row[e].relay = "confirmed",
         \A e \in Names : Due(e)' = Due(e),
         UNCHANGED <<bound, early>>,
         accepted \subseteq accepted', accepted' \in SUBSET (Workers \X Names),
         deadLetters \subseteq deadLetters', deadLetters' \in SUBSET (Workers \X Names),
         mishaps' \in 0..MaxMishaps, mishaps <= mishaps',
         IsFiniteSet(queues'), \A d \in queues' : d \in QueuedCopy,
         \A d \in queues \ queues' : d = c,
         \A d \in queues' \ queues :
           /\ d.at = c.at /\ d.name = c.name
           /\ d.tries <= mishaps' \/ (d.at = "restaurant" /\ <<d.at, d.name>> \in accepted'),
         c \in queues' \/ Reached(c.at, c.name)',
         mails' \in [Names -> [Recipients -> Nat]],
         \A e \in Names, r \in Recipients :
           mails'[e][r] # mails[e][r] => c.at = "notification" /\ e = c.name,
         c.at = "notification" =>
           \A r \in Recipients :
             mails'[c.name][r] + Cardinality(Waiting(c.name)')
               <= mails[c.name][r] + Cardinality(Waiting(c.name)) + (mishaps' - mishaps),
         DeadHasReason', MailInv'
  PROVE  FlowInv'
<1>1. TypeInv'
  BY DEF FlowInv, TypeInv, FlowTypeOK
<1>2. mishaps \in Nat /\ mishaps' \in Nat
  BY Bounds, EventFlowAssumption
<1>3. TriesInv'
  <2> SUFFICES ASSUME NEW d \in queues'
               PROVE  /\ d.name \in Handlers[d.at]
                      /\ d.tries <= mishaps' \/ (d.at = "restaurant" /\ <<d.at, d.name>> \in accepted')
    BY DEF TriesInv
  <2>1. CASE d \in queues
    <3>1. d.tries \in Nat
      BY <2>1, EventFlowAssumption DEF FlowInv, TypeInv, FlowTypeOK, QueuedCopy
    <3>2. /\ d.name \in Handlers[d.at]
          /\ d.tries <= mishaps \/ (d.at = "restaurant" /\ <<d.at, d.name>> \in accepted)
      BY <2>1 DEF FlowInv, TriesInv
    <3> QED  BY <1>2, <3>1, <3>2
  <2>2. CASE d \notin queues
    <3>1. c.name \in Handlers[c.at]
      BY DEF FlowInv, TriesInv
    <3> QED  BY <2>2, <3>1
  <2> QED  BY <2>1, <2>2
<1>4. ASSUME NEW w, NEW e, Reached(w, e) PROVE Reached(w, e)'
  <2>1. CASE <<w, e>> \in accepted \cup deadLetters \cup early
    BY <2>1 DEF Reached
  <2>2. ASSUME NEW d \in queues, d.at = w, d.name = e PROVE Reached(w, e)'
    <3>1. CASE d \in queues'
      BY <2>2, <3>1 DEF Reached
    <3>2. CASE d \notin queues'
      BY <2>2, <3>2
    <3> QED  BY <3>1, <3>2
  <2> QED  BY <1>4, <2>1, <2>2 DEF Reached
<1>5. ReachInv'
  BY <1>4 DEF FlowInv, ReachInv, Subscribers
<1>6. CountInv'
  <2> SUFFICES ASSUME NEW e \in Names, NEW r \in Recipients
               PROVE  mails'[e][r] + Cardinality(Waiting(e)') + Due(e) <= 1 + mishaps'
    BY DEF CountInv
  <2>1. mails[e][r] + Cardinality(Waiting(e)) + Due(e) <= 1 + mishaps
    BY DEF FlowInv, CountInv
  <2>2. /\ mails[e][r] \in Nat /\ mails'[e][r] \in Nat /\ Due(e) \in 0..1
        /\ IsFiniteSet(Waiting(e)) /\ Cardinality(Waiting(e)) \in Nat
    BY Bounds
  <2>3. CASE c.at = "notification" /\ e = c.name
    <3>1. Cardinality(Waiting(e)') \in Nat
      <4>1. Waiting(e)' \in SUBSET queues'
        BY DEF Waiting
      <4> QED  BY <4>1, FS_Subset, FS_CardinalityType
    <3> QED  BY <1>2, <2>1, <2>2, <2>3, <3>1
  <2>4. CASE ~(c.at = "notification" /\ e = c.name)
    <3>1. Waiting(e)' = Waiting(e)
      BY <2>4 DEF Waiting
    <3>2. mails'[e][r] = mails[e][r]
      BY <2>4
    <3> QED  BY <1>2, <2>1, <2>2, <3>1, <3>2
  <2> QED  BY <2>3, <2>4
<1> QED  BY <1>1, <1>3, <1>5, <1>6 DEF FlowInv

LEMMA CopyFacts ==
  ASSUME FlowInv, NEW c \in queues
  PROVE  /\ c \in QueuedCopy /\ c.at \in Workers /\ c.name \in Names /\ c.tries \in 0..MaxRetries
         /\ c.name \in Handlers[c.at]
         /\ Refuses(c) => c.at = "restaurant" /\ <<c.at, c.name>> \in accepted
         /\ mishaps \in 0..MaxMishaps /\ mishaps \in Nat
         /\ IsFiniteSet(queues)
         /\ c.at = "notification" => c \in Waiting(c.name)
<1>1. c \in QueuedCopy /\ c.at \in Workers /\ c.name \in Names /\ c.tries \in 0..MaxRetries
  BY DEF FlowInv, TypeInv, FlowTypeOK, QueuedCopy
<1>2. c.name \in Handlers[c.at]
  BY DEF FlowInv, TriesInv
<1>3. Refuses(c) => c.at = "restaurant" /\ <<c.at, c.name>> \in accepted
  BY <1>1, <1>2, BoundAsHandled DEF Refuses
<1>4. mishaps \in 0..MaxMishaps /\ mishaps \in Nat /\ IsFiniteSet(queues)
  BY Bounds DEF FlowInv, TypeInv, FlowTypeOK
<1> QED  BY <1>1, <1>2, <1>3, <1>4 DEF Waiting

(* The mails of the handler are paid for by the copy that was taken, or by *)
(* the lost acknowledgement.                                               *)
LEMMA AcceptsInv ==
  ASSUME FlowInv, NEW c \in queues, Accepts(c), UNCHANGED <<bound, early>>
  PROVE  FlowInv'
<1>1. /\ c \in QueuedCopy /\ c.at \in Workers /\ c.name \in Names
      /\ mishaps \in 0..MaxMishaps /\ mishaps \in Nat
      /\ IsFiniteSet(queues)
      /\ c.at = "notification" => c \in Waiting(c.name)
  BY CopyFacts
<1>2. /\ row' \in [Names -> Row]
      /\ \A e \in Names : row'[e].relay # "none" => row'[e].status = "processing"
      /\ \A e \in Names : row'[e].status = "processed" \/ row'[e].relay = "confirmed" =>
           row[e].status = "processed" \/ row[e].relay = "confirmed"
      /\ \A e \in Names : Due(e)' = Due(e)
  <2> DEFINE t == IF c.at = "order" /\ c.name = "payment.succeeded" THEN {"order.confirmed"} ELSE {}
  <2>1. row' = Recorded(t)
    BY DEF Accepts, HandledBy
  <2> HIDE DEF t
  <2> QED  BY <2>1, RecordedRow DEF FlowInv
<1>3. /\ accepted' = accepted \cup {<<c.at, c.name>>} /\ deadLetters' = deadLetters
      /\ accepted' \in SUBSET (Workers \X Names) /\ deadLetters' \in SUBSET (Workers \X Names)
  BY <1>1 DEF Accepts, FlowInv, TypeInv, FlowTypeOK
<1>4. \/ queues' = queues \ {c} /\ mishaps' = mishaps
      \/ queues' = queues /\ mishaps' = mishaps + 1 /\ mishaps' <= MaxMishaps
  BY DEF Accepts, Mishaps
<1>5. /\ mishaps' \in 0..MaxMishaps /\ mishaps <= mishaps'
      /\ IsFiniteSet(queues') /\ queues' \subseteq queues
      /\ \A d \in queues \ queues' : d = c
      /\ \A d \in queues' : d \in QueuedCopy
      /\ Reached(c.at, c.name)'
  <2>1. IsFiniteSet(queues') /\ queues' \subseteq queues
    BY <1>1, <1>4, FS_Subset
  <2>2. \A d \in queues' : d \in QueuedCopy
    BY <2>1 DEF FlowInv, TypeInv, FlowTypeOK
  <2>3. Reached(c.at, c.name)'
    BY <1>3 DEF Reached
  <2>4. mishaps' \in 0..MaxMishaps /\ mishaps <= mishaps'
    BY <1>1, <1>4, EventFlowAssumption
  <2> QED  BY <1>4, <2>1, <2>2, <2>3, <2>4
<1>6. DeadHasReason'
  BY <1>1, <1>3, <1>5, EventFlowAssumption DEF FlowInv, DeadHasReason
<1>7. CASE c.at # "notification"
  <2>1. mails' = mails
    BY <1>7 DEF Accepts
  <2>2. MailInv'
    BY <1>3, <1>7, <2>1 DEF FlowInv, MailInv
  <2>3. mails' \in [Names -> [Recipients -> Nat]]
    BY <2>1 DEF FlowInv, TypeInv, FlowTypeOK
  <2> QED  BY <1>2, <1>3, <1>5, <1>6, <1>7, <2>1, <2>2, <2>3, DeliveryStep
<1>8. CASE c.at = "notification"
  <2> DEFINE e == c.name
             n == Len(Mails(e))
  <2>1. mails' = Sent(e, n) /\ n \in 0..n
    BY <1>1, <1>8, MailFacts DEF Accepts
  <2> HIDE DEF n
  <2>2. /\ mails' \in [Names -> [Recipients -> Nat]]
        /\ \A f \in Names \ {e}, r \in Recipients : mails'[f][r] = mails[f][r]
        /\ \A r \in Recipients : mails'[e][r] \in {mails[e][r], mails[e][r] + 1}
        /\ \A i \in 1..Len(Mails(e)) : mails'[e][Mails(e)[i]] > 0
        /\ MailInv => mails'["order.confirmed"]["owner"] <= mails'["order.confirmed"]["customer"]
    BY <1>1, <2>1, SentFacts DEF n
  <2>3. MailInv'
    <3>1. ASSUME NEW f \in Names, <<"notification", f>> \in accepted', NEW i \in 1..Len(Mails(f))
          PROVE  mails'[f][Mails(f)[i]] > 0
      <4>1. CASE f = e
        BY <2>2, <4>1
      <4>2. CASE f # e
        <5>1. <<"notification", f>> \in accepted
          BY <1>3, <3>1, <4>2
        <5>2. mails[f][Mails(f)[i]] > 0 /\ Mails(f)[i] \in Recipients
          BY <5>1, MailFacts DEF FlowInv, MailInv
        <5> QED  BY <2>2, <4>2, <5>2
      <4> QED  BY <4>1, <4>2
    <3> QED  BY <2>2, <3>1 DEF FlowInv, MailInv
  <2>4. IsFiniteSet(Waiting(e)) /\ Cardinality(Waiting(e)) \in Nat
        /\ \A r \in Recipients : mails[e][r] \in Nat
    BY <1>1, Bounds
  <2>5. ASSUME NEW r \in Recipients
        PROVE  mails'[e][r] + Cardinality(Waiting(e)')
                 <= mails[e][r] + Cardinality(Waiting(e)) + (mishaps' - mishaps)
    <3>1. CASE queues' = queues \ {c} /\ mishaps' = mishaps
      <4>1. Waiting(e)' = Waiting(e) \ {c}
        BY <3>1 DEF Waiting
      <4>2. Cardinality(Waiting(e) \ {c}) = Cardinality(Waiting(e)) - 1
        BY <1>1, <1>8, <2>4, FS_RemoveElement
      <4> QED  BY <1>1, <2>2, <2>4, <3>1, <4>1, <4>2
    <3>2. CASE queues' = queues /\ mishaps' = mishaps + 1
      <4>1. Waiting(e)' = Waiting(e)
        BY <3>2 DEF Waiting
      <4>2. mails[e][r] \in Nat /\ mails'[e][r] <= mails[e][r] + 1
        BY <2>2, <2>4
      <4>3. mails'[e][r] \in Nat
        BY <2>2, <2>4
      <4> HIDE DEF e
      <4> QED  BY <1>1, <2>4, <3>2, <4>1, <4>2, <4>3
    <3> QED  BY <1>4, <3>1, <3>2
  <2> QED  BY <1>1, <1>2, <1>3, <1>5, <1>6, <1>8, <2>2, <2>3, <2>5, DeliveryStep
<1> QED  BY <1>7, <1>8

(* A failure pays for the mails that got out and the try it costs, a lost  *)
(* acknowledgement for the copy that stays; only the restaurant that is    *)
(* there already costs nothing.                                            *)
LEMMA RejectsInv ==
  ASSUME FlowInv, NEW c \in queues, Rejects(c), UNCHANGED <<bound, early>>
  PROVE  FlowInv'
<1> DEFINE d == [c EXCEPT !.tries = @ + 1]
<1>1. /\ c \in QueuedCopy /\ c.at \in Workers /\ c.name \in Names /\ c.tries \in 0..MaxRetries
      /\ Refuses(c) => c.at = "restaurant" /\ <<c.at, c.name>> \in accepted
      /\ mishaps \in 0..MaxMishaps /\ mishaps \in Nat
      /\ IsFiniteSet(queues)
      /\ c.at = "notification" => c \in Waiting(c.name)
      /\ c.tries <= mishaps \/ (c.at = "restaurant" /\ <<c.at, c.name>> \in accepted)
  BY CopyFacts DEF FlowInv, TriesInv
<1>2. PICK cause \in 0..1, lost \in 0..1 :
        /\ Refuses(c) = (cause = 0)
        /\ Mishaps(cause + lost)
        /\ c.tries = MaxRetries => lost = 0
        /\ queues' = (IF lost = 1 THEN queues ELSE queues \ {c}) \cup
                     (IF c.tries < MaxRetries THEN {d} ELSE {})
  BY DEF Rejects
<1>3. mishaps' = mishaps + cause + lost /\ mishaps' \in 0..MaxMishaps /\ mishaps <= mishaps'
  BY <1>1, <1>2, EventFlowAssumption DEF Mishaps
<1>4. /\ d.at = c.at /\ d.name = c.name /\ d.tries = c.tries + 1
      /\ c.tries < MaxRetries => d \in QueuedCopy
  BY <1>1, EventFlowAssumption DEF QueuedCopy
<1>5. c.tries + 1 <= mishaps' \/ (c.at = "restaurant" /\ <<c.at, c.name>> \in accepted)
  <2>1. CASE cause = 0
    BY <1>1, <1>2, <2>1
  <2>2. CASE cause = 1
    BY <1>1, <1>3, <2>2
  <2> QED  BY <2>1, <2>2
<1> HIDE DEF d
<1>6. /\ row' = row /\ accepted' = accepted
      /\ deadLetters' = deadLetters \cup (IF c.tries < MaxRetries THEN {} ELSE {<<c.at, c.name>>})
      /\ deadLetters' \in SUBSET (Workers \X Names) /\ accepted' \in SUBSET (Workers \X Names)
      /\ row' \in [Names -> Row]
      /\ \A e \in Names : row'[e].relay # "none" => row'[e].status = "processing"
      /\ \A e \in Names : Due(e)' = Due(e)
  BY <1>1 DEF Rejects, FlowInv, TypeInv, FlowTypeOK, Due
<1>7. /\ IsFiniteSet(queues')
      /\ \A b \in queues' : b \in QueuedCopy
      /\ \A b \in queues \ queues' : b = c
      /\ \A b \in queues' \ queues : b = d /\ c.tries < MaxRetries
      /\ Reached(c.at, c.name)'
  <2>1. IsFiniteSet(queues \ {c}) /\ IsFiniteSet((queues \ {c}) \cup {d}) /\ IsFiniteSet(queues \cup {d})
    BY <1>1, FS_RemoveElement, FS_AddElement
  <2>2. IsFiniteSet(queues')
    BY <1>1, <1>2, <2>1
  <2>3. \A b \in queues : b \in QueuedCopy
    BY DEF FlowInv, TypeInv, FlowTypeOK
  <2>4. Reached(c.at, c.name)'
    BY <1>2, <1>4, <1>6 DEF Reached
  <2> QED  BY <1>2, <1>4, <2>2, <2>3, <2>4
<1>8. DeadHasReason'
  <2> SUFFICES ASSUME NEW w \in Workers, NEW e \in Names, <<w, e>> \in deadLetters'
               PROVE  mishaps' > MaxRetries \/ (w = "restaurant" /\ <<w, e>> \in accepted)
    BY <1>6 DEF DeadHasReason
  <2>1. CASE <<w, e>> \in deadLetters
    BY <1>1, <1>3, <2>1, EventFlowAssumption DEF FlowInv, DeadHasReason
  <2>2. CASE <<w, e>> \notin deadLetters
    <3>1. w = c.at /\ e = c.name /\ ~(c.tries < MaxRetries)
      BY <1>6, <2>2
    <3> QED  BY <1>1, <1>3, <1>5, <3>1, EventFlowAssumption
  <2> QED  BY <2>1, <2>2
<1>9. \A b \in queues' \ queues :
        /\ b.at = c.at /\ b.name = c.name
        /\ b.tries <= mishaps' \/ (b.at = "restaurant" /\ <<b.at, b.name>> \in accepted')
  BY <1>4, <1>5, <1>6, <1>7
<1>10. CASE ~(c.at = "notification" /\ ~Refuses(c))
  <2>1. c.at # "notification"
    BY <1>1, <1>10
  <2>2. mails' = mails
    BY <1>10 DEF Rejects
  <2>3. MailInv'
    BY <1>6, <2>2 DEF FlowInv, MailInv
  <2>4. mails' \in [Names -> [Recipients -> Nat]]
    BY <2>2 DEF FlowInv, TypeInv, FlowTypeOK
  <2> QED  BY <1>3, <1>6, <1>7, <1>8, <1>9, <2>1, <2>2, <2>3, <2>4, DeliveryStep
<1>11. CASE c.at = "notification" /\ ~Refuses(c)
  <2> DEFINE e == c.name
  <2>1. PICK n \in 0..Len(Mails(e)) : mails' = Sent(e, n)
    BY <1>11 DEF Rejects
  <2>2. /\ mails' \in [Names -> [Recipients -> Nat]]
        /\ \A f \in Names \ {e}, r \in Recipients : mails'[f][r] = mails[f][r]
        /\ \A r \in Recipients : mails'[e][r] \in {mails[e][r], mails[e][r] + 1}
        /\ MailInv => mails'["order.confirmed"]["owner"] <= mails'["order.confirmed"]["customer"]
    BY <1>1, <2>1, SentFacts
  <2>3. IsFiniteSet(Waiting(e)) /\ Cardinality(Waiting(e)) \in Nat
        /\ \A f \in Names, r \in Recipients : mails[f][r] \in Nat
    BY <1>1, Bounds
  <2>4. MailInv'
    <3>1. ASSUME NEW f \in Names, <<"notification", f>> \in accepted', NEW i \in 1..Len(Mails(f))
          PROVE  mails'[f][Mails(f)[i]] > 0
      <4>1. mails[f][Mails(f)[i]] > 0 /\ Mails(f)[i] \in Recipients
        BY <1>6, <3>1, MailFacts DEF FlowInv, MailInv
      <4>2. mails'[f][Mails(f)[i]] \in {mails[f][Mails(f)[i]], mails[f][Mails(f)[i]] + 1}
        BY <2>2, <4>1
      <4> QED  BY <2>3, <4>1, <4>2
    <3> QED  BY <2>2, <3>1 DEF FlowInv, MailInv
  <2>5. cause = 1 /\ mishaps' = mishaps + 1 + lost
    <3>1. cause # 0
      BY <1>2, <1>11, Zenon
    <3> QED  BY <1>3, <3>1
  <2>6. Cardinality(Waiting(e)') <= Cardinality(Waiting(e)) + lost /\ Cardinality(Waiting(e)') \in Nat
    <3>1. CASE lost = 1
      <4>1. Waiting(e)' \subseteq Waiting(e) \cup {d}
        BY <1>7 DEF Waiting
      <4> QED  BY <2>3, <3>1, <4>1, OneMore
    <3>2. CASE lost = 0
      <4>1. Waiting(e)' \subseteq (Waiting(e) \ {c}) \cup {d}
        BY <1>2, <3>2 DEF Waiting
      <4>2. IsFiniteSet(Waiting(e) \ {c}) /\ Cardinality(Waiting(e) \ {c}) = Cardinality(Waiting(e)) - 1
        BY <1>1, <1>11, <2>3, FS_RemoveElement
      <4>3. Cardinality(Waiting(e)') <= Cardinality(Waiting(e) \ {c}) + 1 /\ Cardinality(Waiting(e)') \in Nat
        BY <4>1, <4>2, OneMore
      <4> QED  BY <2>3, <3>2, <4>2, <4>3
    <3> QED  BY <3>1, <3>2
  <2>7. ASSUME NEW r \in Recipients
        PROVE  mails'[e][r] + Cardinality(Waiting(e)')
                 <= mails[e][r] + Cardinality(Waiting(e)) + (mishaps' - mishaps)
    <3>1. mails[e][r] \in Nat /\ mails'[e][r] \in {mails[e][r], mails[e][r] + 1}
      BY <1>1, <2>2, <2>3
    <3>2. mails'[e][r] \in Nat /\ mails'[e][r] <= mails[e][r] + 1
      BY <3>1
    <3>3. mishaps' - mishaps = 1 + lost
      BY <1>1, <2>5
    <3> DEFINE a == mails'[e][r]
               b == mails[e][r]
               x == Cardinality(Waiting(e)')
               y == Cardinality(Waiting(e))
    <3>4. a \in Nat /\ b \in Nat /\ x \in Nat /\ y \in Nat /\ a <= b + 1 /\ x <= y + lost
      BY <2>3, <2>6, <3>1, <3>2
    <3> HIDE DEF a, b, x, y
    <3>5. a + x <= b + y + (1 + lost)
      BY <3>4
    <3> QED  BY <3>3, <3>5 DEF a, b, x, y
  <2> QED  BY <1>1, <1>3, <1>6, <1>7, <1>8, <1>9, <1>11, <2>2, <2>4, <2>7, DeliveryStep
<1> QED  BY <1>10, <1>11

LEMMA DeliversInv == ASSUME FlowInv, NEW w, Delivers(w) PROVE FlowInv'
  BY AcceptsInv, RejectsInv DEF Delivers

(* Each service publishes what is its own at its own exchange.             *)
LEMMA RelaysInv == ASSUME FlowInv, NEW e \in Committed, Relays(e) PROVE FlowInv'
<1>1. e \in Names
  BY DEF Committed
<1>2. CASE Claims(e) \/ Settles(e)
  BY <1>1, <1>2, ClaimsInv, SettlesInv
<1>3. CASE IdentityPublishes(e)
  BY <1>1, <1>3, BoundAsHandled, PublishesInv DEF IdentityPublishes
<1>4. CASE CustomerPublishes(e)
  BY <1>1, <1>4, BoundAsHandled, PublishesInv DEF CustomerPublishes
<1>5. CASE PaymentPublishes(e)
  BY <1>1, <1>5, BoundAsHandled, PublishesInv DEF PaymentPublishes
<1>6. CASE OrderPublishes(e)
  BY <1>1, <1>6, BoundAsHandled, PublishesInv DEF OrderPublishes
<1>7. CASE RestaurantPublishes(e)
  BY <1>1, <1>7, BoundAsHandled, PublishesInv DEF RestaurantPublishes
<1>8. \/ Claims(e) \/ Settles(e)
      \/ IdentityPublishes(e) \/ CustomerPublishes(e) \/ PaymentPublishes(e)
      \/ OrderPublishes(e) \/ RestaurantPublishes(e)
  BY DEF Relays, IdentityClaims, CustomerClaims, PaymentClaims, OrderClaims, RestaurantClaims,
         IdentitySettles, CustomerSettles, PaymentSettles, OrderSettles, RestaurantSettles
<1> QED  BY <1>2, <1>3, <1>4, <1>5, <1>6, <1>7, <1>8

LEMMA FlowStepInv == FlowInv /\ [FlowNext]_flowVars => FlowInv'
<1> SUFFICES ASSUME FlowInv, [FlowNext]_flowVars PROVE FlowInv'
  OBVIOUS
<1>1. CASE IdentityCommits \/ CustomerCommits \/ PaymentCommits \/ OrderCommits \/ RestaurantCommits
  BY <1>1, CommitInv DEF IdentityCommits, CustomerCommits, PaymentCommits, OrderCommits, RestaurantCommits
<1>2. ASSUME NEW e \in Committed, Relays(e) PROVE FlowInv'
  BY <1>2, RelaysInv
<1>3. ASSUME NEW e \in Committed,
             \/ IdentityStops(e) \/ CustomerStops(e) \/ PaymentStops(e)
             \/ OrderStops(e) \/ RestaurantStops(e)
      PROVE  FlowInv'
  <2>1. e \in Names /\ Stops(e)
    BY <1>3 DEF Committed, IdentityStops, CustomerStops, PaymentStops, OrderStops, RestaurantStops
  <2> QED  BY <2>1, StopsInv
<1>4. CASE \/ OrderConnects \/ CustomerConnects \/ RestaurantConnects
           \/ SearchConnects \/ NotificationConnects
  <2>1. \E w \in Workers : Connects(w)
    BY <1>4 DEF Workers, OrderConnects, CustomerConnects, RestaurantConnects, SearchConnects,
                NotificationConnects
  <2> QED  BY <2>1, ConnectsInv
<1>5. CASE Consumes
  BY <1>5, DeliversInv
  DEF Consumes, OrderDelivers, CustomerDelivers, RestaurantDelivers, SearchDelivers, NotificationDelivers
<1>6. CASE UNCHANGED flowVars
  <2>1. /\ UNCHANGED <<row, bound, queues, accepted, deadLetters, mails, early, mishaps>>
        /\ bound' \in SUBSET Workers /\ early \in SUBSET (Workers \X Names)
        /\ row' \in [Names -> Row]
        /\ mishaps' <= MaxMishaps
        /\ \A e \in Names : row[e].relay # "none" => row[e].status = "processing"
    BY <1>6, EventFlowAssumption DEF flowVars, FlowInv, TypeInv, FlowTypeOK
  <2>2. \A e \in Names : Due(e)' <= Due(e)
    BY <2>1, Bounds DEF Due
  <2> QED  BY <2>1, <2>2, RelayStep
<1> QED  BY <1>1, <1>2, <1>3, <1>4, <1>5, <1>6 DEF FlowNext

LEMMA FlowAlways == FlowSpec => []FlowInv
  BY FlowInitInv, FlowStepInv, PTL DEF FlowSpec

(* Every reachable state of the outboxes, queues and mails is well typed,  *)
(* for any budgets of attempts and retries and any number of mishaps.      *)
THEOREM Flow_TypeCorrect == FlowSpec => []FlowTypeOK
<1>1. FlowInv => FlowTypeOK
  BY DEF FlowInv, TypeInv
<1> QED  BY <1>1, FlowAlways, PTL

(* What the outbox marks as processed has reached every worker that has a  *)
(* handler for it and a queue.                                             *)
THEOREM Missed_HasReason == FlowSpec => []MissedHasReason
<1>1. FlowInv => MissedHasReason
  BY DEF FlowInv, ReachInv, Reached, MissedHasReason
<1> QED  BY <1>1, FlowAlways, PTL

(* A dead letter had a failure for each of its tries, or was a restaurant's*)
(* that had been created.                                                  *)
THEOREM Dead_HasReason == FlowSpec => []DeadHasReason
<1>1. FlowInv => DeadHasReason
  BY DEF FlowInv
<1> QED  BY <1>1, FlowAlways, PTL

(* A mail is repeated at most once for every failure, the owner never      *)
(* learns of an order before its customer, and a handled event has had all *)
(* its mails sent.                                                         *)
THEOREM Mails_HaveReasons == FlowSpec => []MailsHaveReasons
<1>1. FlowInv => MailsHaveReasons
  <2> SUFFICES ASSUME FlowInv PROVE MailsHaveReasons
    OBVIOUS
  <2>1. ASSUME NEW e \in Names, NEW r \in Recipients PROVE mails[e][r] <= 1 + mishaps
    <3>1. /\ mails[e][r] + Cardinality(Waiting(e)) + Due(e) <= 1 + mishaps
          /\ mails[e][r] \in Nat /\ Cardinality(Waiting(e)) \in Nat /\ Due(e) \in 0..1
          /\ mishaps \in Nat
      BY Bounds DEF FlowInv, CountInv
    <3> QED  BY <3>1
  <2> QED  BY <2>1 DEF FlowInv, MailInv, MailsHaveReasons
<1> QED  BY <1>1, FlowAlways, PTL
=============================================================================
