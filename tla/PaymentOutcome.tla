--------------------------- MODULE PaymentOutcome ---------------------------
(***************************************************************************)
(* What payment-service promises the rest of the marketplace about a       *)
(* subject's payment: it is opened once, it settles at most once, the      *)
(* outcome never changes afterwards, and in the very step in which it      *)
(* settles exactly the event of that outcome is recorded for delivery.     *)
(***************************************************************************)
EXTENDS PaymentDomain

CONSTANT Subjects

VARIABLES outcome,    \* "absent", "pending", "succeeded" or "failed"
          announced   \* the events recorded so far

Init ==
  /\ outcome = [s \in Subjects |-> "absent"]
  /\ announced = [s \in Subjects |-> {}]

Open(s) ==
  /\ outcome[s] = "absent"
  /\ outcome' = [outcome EXCEPT ![s] = "pending"]
  /\ UNCHANGED announced

Settle(s, result) ==
  /\ outcome[s] = "pending"
  /\ outcome' = [outcome EXCEPT ![s] = result]
  /\ announced' = [announced EXCEPT ![s] = {EventOf(result)}]

Next == \E s \in Subjects : Open(s) \/ Settle(s, "succeeded") \/ Settle(s, "failed")

Spec == Init /\ [][Next]_<<outcome, announced>>
=============================================================================
