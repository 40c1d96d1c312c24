------------------------------- MODULE Payment -------------------------------
(***************************************************************************)
(* payment-service on its own: the payment of one subject under CreatePay- *)
(* ment calls that are repeated (a caller whose answer was lost asks       *)
(* again) or overlap (a caller that gave up asks again while its first     *)
(* call still runs), webhook deliveries and CancelPayment.  OrderPayment   *)
(* has one call per order and so one gateway payment; here a subject may   *)
(* come to have several, and the row says which one payment-service knows. *)
(* Subjects share no rows: the module is about one of them.                *)
(***************************************************************************)
EXTENDS Naturals, PaymentDomain

CONSTANTS Calls,      \* concurrent CreatePayment calls
          Hooks,      \* concurrent webhook deliveries
          Gateways,   \* Mollie's payment ids
          NoGateway,  \* gateway_payment_id is NULL
          MaxFaults   \* errors, lost answers and crashes in a behaviour

ASSUME PaymentAssumption == MaxFaults \in Nat /\ NoGateway \notin Gateways

VARIABLES
  row,      \* the payments row of the subject
  events,   \* outcome events in the outbox
  mollie,   \* payments at Mollie
  hookDue,  \* gateway ids whose webhook Mollie still has to get through
  payable,  \* gateway ids whose checkout URL was handed to the caller
  calls,    \* CreatePayment calls: program counter, loaded row, gateway id
  hooks,    \* webhook deliveries: likewise, and made by Mollie?
  void,     \* gateway id a CancelPayment is about to cancel
  faults

vars == <<row, events, mollie, hookDue, payable, calls, hooks, void, faults>>

NullableId == Gateways \cup {NoGateway}
Row  == [status : PaymentStatus \cup {"absent"}, gw : NullableId]
Call == [pc : {"idle", "insert", "gateway", "attach", "replay"}, copy : Row, gw : NullableId]
Hook == [pc : {"idle", "status", "succeeded", "failed"}, copy : Row, owed : BOOLEAN]

Absent == [status |-> "absent", gw |-> NoGateway]
IdleCall == [pc |-> "idle", copy |-> Absent, gw |-> NoGateway]
IdleHook == [pc |-> "idle", copy |-> Absent, owed |-> FALSE]

TypeOK ==
  /\ row \in Row
  /\ events \in SUBSET PaymentEvents
  /\ mollie \in [Gateways -> MollieStatus]
  /\ hookDue \in SUBSET Gateways
  /\ payable \in SUBSET Gateways
  /\ calls \in [Calls -> Call]
  /\ hooks \in [Hooks -> Hook]
  /\ void \in NullableId
  /\ faults \in Nat

Init ==
  /\ row = Absent
  /\ events = {}
  /\ mollie = [g \in Gateways |-> "none"]
  /\ hookDue = {} /\ payable = {}
  /\ calls = [c \in Calls |-> IdleCall]
  /\ hooks = [h \in Hooks |-> IdleHook]
  /\ void = NoGateway
  /\ faults = 0

Fault == faults < MaxFaults /\ faults' = faults + 1

-----------------------------------------------------------------------------
(* CreatePayment                                                           *)

SetCall(c, pc, copy, gw) ==
  calls' = [calls EXCEPT ![c] = [pc |-> pc, copy |-> copy, gw |-> gw]]

(* Slip: an existing payment is never replayed, only paid for again.       *)
LookUp_noReplay(c) ==
  /\ calls[c].pc = "idle"
  /\ \/ row.status = "absent" /\ SetCall(c, "insert", Absent, NoGateway)
     \/ row.status # "absent" /\ SetCall(c, "gateway", row, NoGateway)
  /\ UNCHANGED <<row, events, mollie, hookDue, payable, hooks, void, faults>>

(* FindBySubject and its three branches: a new row, a row that never       *)
(* reached the gateway, and the replay.                                    *)
LookUp(c) ==
  /\ calls[c].pc = "idle"
  /\ \/ row.status = "absent" /\ SetCall(c, "insert", Absent, NoGateway)
     \/ row.status # "absent" /\ row.gw = NoGateway /\ SetCall(c, "gateway", row, NoGateway)
     \/ row.status # "absent" /\ row.gw # NoGateway /\ SetCall(c, "replay", row, NoGateway)
  /\ UNCHANGED <<row, events, mollie, hookDue, payable, hooks, void, faults>>

(* uq_payments_subject refuses a second row: that call ends with an error. *)
InsertRow(c) ==
  /\ calls[c].pc = "insert"
  /\ \/ /\ row.status = "absent"
        /\ row' = [status |-> "pending", gw |-> NoGateway]
        /\ SetCall(c, "gateway", row', NoGateway)
     \/ /\ row.status # "absent"
        /\ SetCall(c, "idle", Absent, NoGateway)
        /\ UNCHANGED row
  /\ UNCHANGED <<events, mollie, hookDue, payable, hooks, void, faults>>

(* Mollie makes a new payment for every request.                           *)
CallGateway(c, g) ==
  /\ calls[c].pc = "gateway"
  /\ mollie[g] = "none"
  /\ mollie' = [mollie EXCEPT ![g] = "open"]
  /\ SetCall(c, "attach", calls[c].copy, g)
  /\ UNCHANGED <<row, events, hookDue, payable, hooks, void, faults>>

(* The loaded row is saved whole, status included, and the URL returned    *)
(* unless the answer is lost on its way.                                   *)
Attach(c) ==
  /\ calls[c].pc = "attach"
  /\ row' = [status |-> calls[c].copy.status, gw |-> calls[c].gw]
  /\ \/ payable' = payable \cup {calls[c].gw} /\ UNCHANGED faults
     \/ Fault /\ UNCHANGED payable
  /\ SetCall(c, "idle", Absent, NoGateway)
  /\ UNCHANGED <<events, mollie, hookDue, hooks, void>>

(* GetStatus has a checkout URL as long as the payment is open.            *)
Replay(c) ==
  /\ calls[c].pc = "replay"
  /\ payable' = IF mollie[calls[c].copy.gw] = "open" THEN payable \cup {calls[c].copy.gw}
                                                     ELSE payable
  /\ SetCall(c, "idle", Absent, NoGateway)
  /\ UNCHANGED <<row, events, mollie, hookDue, hooks, void, faults>>

(* An error, a timeout or a crash at any call.                             *)
CallFail(c) ==
  /\ calls[c].pc # "idle"
  /\ Fault
  /\ SetCall(c, "idle", Absent, NoGateway)
  /\ UNCHANGED <<row, events, mollie, hookDue, payable, hooks, void>>

-----------------------------------------------------------------------------
(* CancelPayment: best effort at Mollie, nothing is written here.          *)
CancelLookUp ==
  /\ void = NoGateway
  /\ row.gw # NoGateway
  /\ void' = row.gw
  /\ UNCHANGED <<row, events, mollie, hookDue, payable, calls, hooks, faults>>

CancelAtGateway ==
  /\ void # NoGateway
  /\ \/ /\ mollie[void] = "open"
        /\ mollie' = [mollie EXCEPT ![void] = "canceled"]
        /\ hookDue' = hookDue \cup {void}
     \/ UNCHANGED <<mollie, hookDue>>
  /\ void' = NoGateway
  /\ UNCHANGED <<row, events, payable, calls, hooks, faults>>

-----------------------------------------------------------------------------
(* Mollie (external): only who was given the URL can pay.                  *)
MollieSettles(g) ==
  /\ mollie[g] = "open"
  /\ \/ g \in payable /\ mollie' = [mollie EXCEPT ![g] = "paid"]
     \/ mollie' = [mollie EXCEPT ![g] = "expired"]
  /\ hookDue' = hookDue \cup {g}
  /\ UNCHANGED <<row, events, payable, calls, hooks, void, faults>>

-----------------------------------------------------------------------------
(* HandleMollieWebhook                                                     *)

SetHook(h, pc, copy, owed) ==
  hooks' = [hooks EXCEPT ![h] = [pc |-> pc, copy |-> copy, owed |-> owed]]

Answer200(h) ==
  /\ hookDue' = IF hooks[h].owed THEN hookDue \ {hooks[h].copy.gw} ELSE hookDue
  /\ hooks' = [hooks EXCEPT ![h] = IdleHook]

(* An unknown id or a settled payment is answered 200 at once.             *)
WebhookLookUp(h, g) ==
  /\ mollie[g] # "none"
  /\ hooks[h].pc = "idle"
  /\ \/ /\ row.gw = g /\ CanSettle(row)
        /\ SetHook(h, "status", row, g \in hookDue)
        /\ UNCHANGED hookDue
     \/ /\ ~(row.gw = g /\ CanSettle(row))
        /\ hookDue' = hookDue \ {g}
        /\ UNCHANGED hooks
  /\ UNCHANGED <<row, events, mollie, payable, calls, void, faults>>

WebhookStatus(h) ==
  /\ hooks[h].pc = "status"
  /\ LET outcome == MapMollieStatus(mollie[hooks[h].copy.gw]) IN
       IF outcome = "pending" THEN hooks' = [hooks EXCEPT ![h] = IdleHook]
                              ELSE SetHook(h, outcome, hooks[h].copy, hooks[h].owed)
  /\ UNCHANGED <<row, events, mollie, hookDue, payable, calls, void, faults>>

(* Slip: the event is left to somebody else.                               *)
WebhookCommit_silent(h) ==
  /\ hooks[h].pc \in {"succeeded", "failed"}
  /\ row' = [status |-> hooks[h].pc, gw |-> hooks[h].copy.gw]
  /\ Answer200(h)
  /\ UNCHANGED <<events, mollie, payable, calls, void, faults>>

(* One transaction: the loaded row with its outcome, and the event.        *)
WebhookCommit(h) ==
  /\ hooks[h].pc \in {"succeeded", "failed"}
  /\ row' = [status |-> hooks[h].pc, gw |-> hooks[h].copy.gw]
  /\ events' = events \cup {EventOf(hooks[h].pc)}
  /\ Answer200(h)
  /\ UNCHANGED <<mollie, payable, calls, void, faults>>

(* Slip: the error is answered 200.                                        *)
WebhookFail_answers200(h) ==
  /\ hooks[h].pc # "idle"
  /\ Fault
  /\ Answer200(h)
  /\ UNCHANGED <<row, events, mollie, payable, calls, void>>

WebhookFail(h) ==
  /\ hooks[h].pc # "idle"
  /\ Fault
  /\ hooks' = [hooks EXCEPT ![h] = IdleHook]
  /\ UNCHANGED <<row, events, mollie, hookDue, payable, calls, void>>

-----------------------------------------------------------------------------
CallStep(c) ==
  \/ LookUp(c) \/ InsertRow(c) \/ (\E g \in Gateways : CallGateway(c, g))
  \/ Attach(c) \/ Replay(c) \/ CallFail(c)

WebhookStep(h) ==
  \/ \E g \in Gateways : WebhookLookUp(h, g)
  \/ WebhookStatus(h) \/ WebhookCommit(h) \/ WebhookFail(h)

Next ==
  \/ \E c \in Calls : CallStep(c)
  \/ CancelLookUp \/ CancelAtGateway
  \/ \E g \in Gateways : MollieSettles(g)
  \/ \E h \in Hooks : WebhookStep(h)

(* Fairness.  Mollie delivers while it is owed a 200 and a delivery ends.  *)
Fairness ==
  \A h \in Hooks :
    /\ \A g \in Gateways : WF_vars(g \in hookDue /\ WebhookLookUp(h, g))
    /\ WF_vars(WebhookStatus(h))
    /\ WF_vars(WebhookCommit(h))

Spec == Init /\ [][Next]_vars
FairSpec == Spec /\ Fairness

-----------------------------------------------------------------------------
(* Properties                                                              *)

(* With calls one at a time, however many of them fail or are replayed:    *)
(* the only payment the customer was given a URL for is the one the row    *)
(* refers to, so its webhook will be recognised (CreatePayment's branches).*)
PayableIsReferenced == payable \subseteq {row.gw}

(* With calls one at a time payment-service keeps its promise: one outcome *)
(* per subject, never revised, recorded together with its event.           *)
Outcome == INSTANCE PaymentOutcome
             WITH Subjects <- {"subject"},
                  outcome <- [s \in {"subject"} |-> row.status],
                  announced <- [s \in {"subject"} |-> events]
KeepsPaymentOutcome == Outcome!Spec

(* With calls one at a time whoever pays is credited (Mollie's retries     *)
(* and HandleMollieWebhook).                                               *)
PaidIsCredited == \A g \in Gateways : mollie[g] = "paid" ~> row.status = "succeeded"

(* Whatever overlaps, an outcome is announced only if some payment of the  *)
(* subject at Mollie ended that way ("never trusts the POSTed body").      *)
EventsAreReal ==
  /\ "payment.succeeded" \in events => \E g \in Gateways : mollie[g] = "paid"
  /\ "payment.failed" \in events => \E g \in Gateways : mollie[g] \in {"canceled", "expired"}
=============================================================================
