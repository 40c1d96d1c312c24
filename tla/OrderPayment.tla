---------------------------- MODULE OrderPayment ----------------------------
(***************************************************************************)
(* An order and its payment, across order-service, payment-service and     *)
(* Mollie.  Every handler is split at its database and network calls, and  *)
(* the row it loaded is kept as a local copy: order-service and            *)
(* payment-service both write a row back whole (gorm Save), so a handler   *)
(* that slept over another one's commit writes stale columns.              *)
(*                                                                         *)
(* Per order there run: one Checkout, its CreatePayment RPC inside         *)
(* payment-service, any number of Cancel / MarkReady / Complete requests   *)
(* (Slots at a time), Mollie's webhook deliveries (Hooks at a time) and    *)
(* the one consumer of payment.succeeded / payment.failed.                 *)
(***************************************************************************)
EXTENDS Naturals, OrderDomain, PaymentDomain

CONSTANTS Orders,     \* order ids, each made by one Checkout request
          Slots,      \* concurrent API requests on one order
          Hooks,      \* concurrent webhook deliveries for one payment
          MaxFaults   \* errors, timeouts and crashes injected in a behaviour

ASSUME MaxFaultsIsNat == MaxFaults \in Nat

VARIABLES
  \* order_db
  cart,         \* the customer's cart holds at least one line
  orders,       \* the orders table
  confirmedEvents,  \* order.confirmed rows inserted in the outbox, per order
  savedAddress, \* an order.address_saved row was inserted, per order
  \* payment_db and its outbox
  payments,     \* the payments table, by subject (the order)
  paymentEvents,\* outcome events recorded, per order
  acked,        \* outcome events the consumer has acknowledged, per order
  \* Mollie
  mollie,       \* the payment at Mollie
  hookDue,      \* Mollie still owes a webhook call for the final status
  \* processes
  checkout, rpc,        \* program counters of Checkout and CreatePayment
  reqPc, reqCopy,       \* API requests: counter and loaded order row
  hookPc, hookOwed,     \* webhook deliveries: counter, and made by Mollie?
  consPc, consCopy,     \* payment event consumer: counter and loaded row
  faults                \* faults injected so far

orderDb   == <<cart, orders, confirmedEvents, savedAddress>>
paymentDb == <<payments, paymentEvents>>
gateway   == <<mollie, hookDue>>
starting  == <<checkout, rpc>>
requests  == <<reqPc, reqCopy>>
webhooks  == <<hookPc, hookOwed>>
consumer  == <<consPc, consCopy, acked>>
vars == <<orderDb, paymentDb, gateway, starting, requests, webhooks, consumer, faults>>

AbsentPayment == [status |-> "absent", gw |-> FALSE]
PaymentRow == [status : PaymentStatus \cup {"absent"}, gw : BOOLEAN]

CheckoutPc == {"idle", "loaded", "rpc", "saved", "done", "failed"}
RpcPc  == {"idle", "gateway", "attach", "done", "failed"}
ReqPc  == {"idle", "cancel_check", "cancel_save", "cancel_void", "ready_save", "complete_save"}
HookPc == {"idle", "status", "succeeded", "failed"}
ConsPc == {"idle", "confirm", "cancel"}

TypeOK ==
  /\ cart \in BOOLEAN
  /\ orders \in [Orders -> OrderRow]
  /\ confirmedEvents \in [Orders -> Nat]
  /\ savedAddress \in [Orders -> BOOLEAN]
  /\ payments \in [Orders -> PaymentRow]
  /\ paymentEvents \in [Orders -> SUBSET PaymentEvents]
  /\ acked \in [Orders -> SUBSET PaymentEvents]
  /\ mollie \in [Orders -> MollieStatus]
  /\ hookDue \in [Orders -> BOOLEAN]
  /\ checkout \in [Orders -> CheckoutPc]
  /\ rpc \in [Orders -> RpcPc]
  /\ reqPc \in [Orders -> [Slots -> ReqPc]]
  /\ reqCopy \in [Orders -> [Slots -> OrderRow]]
  /\ hookPc \in [Orders -> [Hooks -> HookPc]]
  /\ hookOwed \in [Orders -> [Hooks -> BOOLEAN]]
  /\ consPc \in [Orders -> ConsPc]
  /\ consCopy \in [Orders -> OrderRow]
  /\ faults \in Nat

Init ==
  /\ cart = TRUE
  /\ orders = [o \in Orders |-> AbsentOrder]
  /\ confirmedEvents = [o \in Orders |-> 0]
  /\ savedAddress = [o \in Orders |-> FALSE]
  /\ payments = [o \in Orders |-> AbsentPayment]
  /\ paymentEvents = [o \in Orders |-> {}]
  /\ acked = [o \in Orders |-> {}]
  /\ mollie = [o \in Orders |-> "none"]
  /\ hookDue = [o \in Orders |-> FALSE]
  /\ checkout = [o \in Orders |-> "idle"]
  /\ rpc = [o \in Orders |-> "idle"]
  /\ reqPc = [o \in Orders |-> [s \in Slots |-> "idle"]]
  /\ reqCopy = [o \in Orders |-> [s \in Slots |-> AbsentOrder]]
  /\ hookPc = [o \in Orders |-> [h \in Hooks |-> "idle"]]
  /\ hookOwed = [o \in Orders |-> [h \in Hooks |-> FALSE]]
  /\ consPc = [o \in Orders |-> "idle"]
  /\ consCopy = [o \in Orders |-> AbsentOrder]
  /\ faults = 0

(* One more database error, gateway error, timeout or process crash.       *)
Fault == /\ faults < MaxFaults
         /\ faults' = faults + 1

-----------------------------------------------------------------------------
(* Checkout, order-service                                                 *)

(* The customer puts something in the cart again (Cart models the cart).   *)
FillCart ==
  /\ ~cart
  /\ cart' = TRUE
  /\ UNCHANGED <<orders, confirmedEvents, savedAddress, paymentDb, gateway,
                 starting, requests, webhooks, consumer, faults>>

(* The cart, the restaurant, the customer and the prices are read outside  *)
(* any transaction; a check that fails ends the request.                   *)
CheckoutLoad(o) ==
  /\ checkout[o] = "idle"
  /\ cart
  /\ checkout' = [checkout EXCEPT ![o] = "loaded"]
  /\ UNCHANGED <<orderDb, paymentDb, gateway, rpc, requests, webhooks, consumer, faults>>

CheckoutReject(o) ==
  /\ checkout[o] = "loaded"
  /\ checkout' = [checkout EXCEPT ![o] = "idle"]
  /\ UNCHANGED <<orderDb, paymentDb, gateway, rpc, requests, webhooks, consumer, faults>>

(* One transaction: the pending order, the cart cleared by id (whether or  *)
(* not it still exists), and order.address_saved when the customer asked   *)
(* for it.                                                                 *)
CheckoutCommit(o) ==
  /\ checkout[o] = "loaded"
  /\ orders' = [orders EXCEPT ![o] = NewOrder]
  /\ cart' = FALSE
  /\ \E save \in BOOLEAN : savedAddress' = [savedAddress EXCEPT ![o] = save]
  /\ checkout' = [checkout EXCEPT ![o] = "rpc"]
  /\ UNCHANGED <<confirmedEvents, paymentDb, gateway, rpc, requests, webhooks,
                 consumer, faults>>

(* The answer of CreatePayment carries a payment id: the aggregate built   *)
(* before the RPC is saved whole, with the id as its only news.            *)
CheckoutSave(o) ==
  /\ checkout[o] = "rpc"
  /\ rpc[o] = "done"
  /\ orders' = [orders EXCEPT ![o] = [NewOrder EXCEPT !.linked = TRUE]]
  /\ checkout' = [checkout EXCEPT ![o] = "saved"]
  /\ UNCHANGED <<cart, confirmedEvents, savedAddress, paymentDb, gateway, rpc,
                 requests, webhooks, consumer, faults>>

(* The customer receives the checkout URL; only now can they pay.          *)
CheckoutReply(o) ==
  /\ checkout[o] = "saved"
  /\ checkout' = [checkout EXCEPT ![o] = "done"]
  /\ UNCHANGED <<orderDb, paymentDb, gateway, rpc, requests, webhooks, consumer, faults>>

(* The RPC's error, or an error, a timeout or a crash of Checkout itself    *)
(* after the order is committed: nothing is undone, no URL is returned.    *)
CheckoutFail(o) ==
  /\ checkout[o] \in {"rpc", "saved"}
  /\ \/ rpc[o] = "failed" /\ UNCHANGED faults
     \/ Fault
  /\ checkout' = [checkout EXCEPT ![o] = "failed"]
  /\ UNCHANGED <<orderDb, paymentDb, gateway, rpc, requests, webhooks, consumer>>

-----------------------------------------------------------------------------
(* CreatePayment, payment-service, called once by each Checkout            *)

(* No payment for this subject yet: insert the pending row.                *)
CreatePaymentRow(o) ==
  /\ checkout[o] = "rpc"
  /\ rpc[o] = "idle"
  /\ payments' = [payments EXCEPT ![o] = [status |-> "pending", gw |-> FALSE]]
  /\ rpc' = [rpc EXCEPT ![o] = "gateway"]
  /\ UNCHANGED <<orderDb, paymentEvents, gateway, checkout, requests, webhooks,
                 consumer, faults>>

CallGateway(o) ==
  /\ rpc[o] = "gateway"
  /\ mollie' = [mollie EXCEPT ![o] = "open"]
  /\ rpc' = [rpc EXCEPT ![o] = "attach"]
  /\ UNCHANGED <<orderDb, paymentDb, hookDue, checkout, requests, webhooks,
                 consumer, faults>>

(* The row as inserted, saved whole with the gateway's reference.          *)
AttachGatewayReference(o) ==
  /\ rpc[o] = "attach"
  /\ payments' = [payments EXCEPT ![o] = [status |-> "pending", gw |-> TRUE]]
  /\ rpc' = [rpc EXCEPT ![o] = "done"]
  /\ UNCHANGED <<orderDb, paymentEvents, gateway, checkout, requests, webhooks,
                 consumer, faults>>

(* At "attach" Mollie has made the payment already: it stays unreferenced. *)
CreatePaymentFail(o) ==
  /\ rpc[o] \in {"gateway", "attach"}
  /\ Fault
  /\ rpc' = [rpc EXCEPT ![o] = "failed"]
  /\ UNCHANGED <<orderDb, paymentDb, gateway, checkout, requests, webhooks, consumer>>

-----------------------------------------------------------------------------
(* Cancel, MarkReady and Complete, order-service: load, decide on the copy,*)
(* save the copy whole, without a transaction or a lock                    *)

SetReq(o, s, pc, copy) ==
  /\ reqPc' = [reqPc EXCEPT ![o][s] = pc]
  /\ reqCopy' = [reqCopy EXCEPT ![o][s] = copy]

EndReq(o, s) == SetReq(o, s, "idle", AbsentOrder)

(* A linked order's payment is looked up next; an order without payment id *)
(* goes straight to Order.Cancel.                                          *)
CancelLoad(o, s) ==
  /\ reqPc[o][s] = "idle"
  /\ orders[o].status # "absent"
  /\ \/ orders[o].linked /\ SetReq(o, s, "cancel_check", orders[o])
     \/ /\ ~orders[o].linked
        /\ CanCancel(orders[o])
        /\ SetReq(o, s, "cancel_save", orders[o])
  /\ UNCHANGED <<orderDb, paymentDb, gateway, starting, webhooks, consumer, faults>>

(* GetPaymentStatus answers from payment-service's own table.  Only a      *)
(* succeeded payment, or a copy that is not pending, refuses the request.  *)
CancelCheck(o, s) ==
  /\ reqPc[o][s] = "cancel_check"
  /\ IF payments[o].status # "succeeded" /\ CanCancel(reqCopy[o][s])
       THEN SetReq(o, s, "cancel_save", reqCopy[o][s])
       ELSE EndReq(o, s)
  /\ UNCHANGED <<orderDb, paymentDb, gateway, starting, webhooks, consumer, faults>>

CancelSave(o, s) ==
  /\ reqPc[o][s] = "cancel_save"
  /\ orders' = [orders EXCEPT ![o] = MoveTo(reqCopy[o][s], "cancelled")]
  /\ IF reqCopy[o][s].linked
       THEN SetReq(o, s, "cancel_void", reqCopy[o][s])
       ELSE EndReq(o, s)
  /\ UNCHANGED <<cart, confirmedEvents, savedAddress, paymentDb, gateway, starting,
                 webhooks, consumer, faults>>

(* Slip: a refused void is compensated by putting the loaded order back.   *)
CancelVoid_compensating(o, s) ==
  /\ reqPc[o][s] = "cancel_void"
  /\ IF payments[o].gw /\ mollie[o] = "open"
       THEN /\ mollie' = [mollie EXCEPT ![o] = "canceled"]
            /\ hookDue' = [hookDue EXCEPT ![o] = TRUE]
            /\ UNCHANGED orders
       ELSE /\ orders' = [orders EXCEPT ![o] = reqCopy[o][s]]
            /\ UNCHANGED gateway
  /\ EndReq(o, s)
  /\ UNCHANGED <<cart, confirmedEvents, savedAddress, paymentDb, starting, webhooks,
                 consumer, faults>>

(* payment-service's CancelPayment, best effort: Mollie cancels a payment  *)
(* it still holds open and refuses otherwise; the outcome is ignored.      *)
CancelVoid(o, s) ==
  /\ reqPc[o][s] = "cancel_void"
  /\ IF payments[o].gw /\ mollie[o] = "open"
       THEN /\ mollie' = [mollie EXCEPT ![o] = "canceled"]
            /\ hookDue' = [hookDue EXCEPT ![o] = TRUE]
       ELSE UNCHANGED gateway
  /\ EndReq(o, s)
  /\ UNCHANGED <<orderDb, paymentDb, starting, webhooks, consumer, faults>>

MarkReadyLoad(o, s) ==
  /\ reqPc[o][s] = "idle"
  /\ CanMarkReady(orders[o])
  /\ SetReq(o, s, "ready_save", orders[o])
  /\ UNCHANGED <<orderDb, paymentDb, gateway, starting, webhooks, consumer, faults>>

MarkReadySave(o, s) ==
  /\ reqPc[o][s] = "ready_save"
  /\ orders' = [orders EXCEPT ![o] = MoveTo(reqCopy[o][s], "ready")]
  /\ EndReq(o, s)
  /\ UNCHANGED <<cart, confirmedEvents, savedAddress, paymentDb, gateway, starting,
                 webhooks, consumer, faults>>

CompleteLoad(o, s) ==
  /\ reqPc[o][s] = "idle"
  /\ CanComplete(orders[o])
  /\ SetReq(o, s, "complete_save", orders[o])
  /\ UNCHANGED <<orderDb, paymentDb, gateway, starting, webhooks, consumer, faults>>

CompleteSave(o, s) ==
  /\ reqPc[o][s] = "complete_save"
  /\ orders' = [orders EXCEPT ![o] = MoveTo(reqCopy[o][s], "completed")]
  /\ EndReq(o, s)
  /\ UNCHANGED <<cart, confirmedEvents, savedAddress, paymentDb, gateway, starting,
                 webhooks, consumer, faults>>

RequestFail(o, s) ==
  /\ reqPc[o][s] # "idle"
  /\ Fault
  /\ EndReq(o, s)
  /\ UNCHANGED <<orderDb, paymentDb, gateway, starting, webhooks, consumer>>

-----------------------------------------------------------------------------
(* Mollie and the customer at Mollie's page (external)                     *)

(* Paying takes the checkout URL; an open payment may also be abandoned,   *)
(* declined or run out of time.  Mollie then owes a webhook call.          *)
MollieSettles(o) ==
  /\ mollie[o] = "open"
  /\ \/ checkout[o] = "done" /\ mollie' = [mollie EXCEPT ![o] = "paid"]
     \/ mollie' = [mollie EXCEPT ![o] = "expired"]
  /\ hookDue' = [hookDue EXCEPT ![o] = TRUE]
  /\ UNCHANGED <<orderDb, paymentDb, starting, requests, webhooks, consumer, faults>>

-----------------------------------------------------------------------------
(* HandleMollieWebhook, payment-service                                    *)

SetHook(o, h, pc, owed) ==
  /\ hookPc' = [hookPc EXCEPT ![o][h] = pc]
  /\ hookOwed' = [hookOwed EXCEPT ![o][h] = owed]

(* Anyone who knows the gateway's id may post it; Mollie itself delivers   *)
(* while a call is due.  An id that is not attached to a payment, or whose *)
(* payment is settled, is answered 200 and so settles Mollie's debt.       *)
WebhookLoad(o, h) ==
  /\ mollie[o] # "none"
  /\ hookPc[o][h] = "idle"
  /\ IF payments[o].gw /\ CanSettle(payments[o])
       THEN /\ SetHook(o, h, "status", hookDue[o])
            /\ UNCHANGED hookDue
       ELSE /\ hookDue' = [hookDue EXCEPT ![o] = FALSE]
            /\ UNCHANGED webhooks
  /\ UNCHANGED <<orderDb, paymentDb, mollie, starting, requests, consumer, faults>>

(* GetStatus asks Mollie; a payment that is still open is left alone.      *)
WebhookStatus(o, h) ==
  /\ hookPc[o][h] = "status"
  /\ LET outcome == MapMollieStatus(mollie[o]) IN
       IF outcome = "pending" THEN SetHook(o, h, "idle", FALSE)
                              ELSE SetHook(o, h, outcome, hookOwed[o][h])
  /\ UNCHANGED <<orderDb, paymentDb, gateway, starting, requests, consumer, faults>>

(* Slip: the outcome is saved without its event.                           *)
WebhookCommit_silent(o, h) ==
  /\ hookPc[o][h] \in {"succeeded", "failed"}
  /\ payments' = [payments EXCEPT ![o] = [status |-> hookPc[o][h], gw |-> TRUE]]
  /\ hookDue' = [hookDue EXCEPT ![o] = @ /\ ~hookOwed[o][h]]
  /\ SetHook(o, h, "idle", FALSE)
  /\ UNCHANGED <<orderDb, paymentEvents, mollie, starting, requests, consumer, faults>>

(* One transaction: the payment saved whole and its event in the outbox.   *)
WebhookCommit(o, h) ==
  /\ hookPc[o][h] \in {"succeeded", "failed"}
  /\ payments' = [payments EXCEPT ![o] = [status |-> hookPc[o][h], gw |-> TRUE]]
  /\ paymentEvents' = [paymentEvents EXCEPT ![o] = @ \cup {EventOf(hookPc[o][h])}]
  /\ hookDue' = [hookDue EXCEPT ![o] = @ /\ ~hookOwed[o][h]]
  /\ SetHook(o, h, "idle", FALSE)
  /\ UNCHANGED <<orderDb, mollie, starting, requests, consumer, faults>>

(* Slip: the error is logged and answered 200.                             *)
WebhookFail_answers200(o, h) ==
  /\ hookPc[o][h] # "idle"
  /\ Fault
  /\ hookDue' = [hookDue EXCEPT ![o] = @ /\ ~hookOwed[o][h]]
  /\ SetHook(o, h, "idle", FALSE)
  /\ UNCHANGED <<orderDb, paymentDb, mollie, starting, requests, consumer>>

(* Any error is a 500: Mollie keeps the call due and delivers again.       *)
WebhookFail(o, h) ==
  /\ hookPc[o][h] # "idle"
  /\ Fault
  /\ SetHook(o, h, "idle", FALSE)
  /\ UNCHANGED <<orderDb, paymentDb, gateway, starting, requests, consumer>>

-----------------------------------------------------------------------------
(* PaymentSucceededHandler and PaymentFailedHandler, order-service worker. *)
(* Outbox and broker deliver a recorded event at least once, so an event   *)
(* may come again even after it was acknowledged.                          *)

SetCons(o, pc, copy) ==
  /\ consPc' = [consPc EXCEPT ![o] = pc]
  /\ consCopy' = [consCopy EXCEPT ![o] = copy]

Ack(o, e) == acked' = [acked EXCEPT ![o] = @ \cup {e}]

(* The row as the transaction reads it, unlocked (read committed).  An     *)
(* order that cannot make the transition is a logged no-op.                *)
ConsumeSucceeded(o) ==
  /\ consPc[o] = "idle"
  /\ "payment.succeeded" \in paymentEvents[o]
  /\ orders[o].status # "absent"
  /\ IF CanConfirm(orders[o])
       THEN SetCons(o, "confirm", orders[o]) /\ UNCHANGED acked
       ELSE Ack(o, "payment.succeeded") /\ UNCHANGED <<consPc, consCopy>>
  /\ UNCHANGED <<orderDb, paymentDb, gateway, starting, requests, webhooks, faults>>

(* The same transaction saves the copy whole and inserts order.confirmed.  *)
ConfirmCommit(o) ==
  /\ consPc[o] = "confirm"
  /\ orders' = [orders EXCEPT ![o] = MoveTo(consCopy[o], "confirmed")]
  /\ confirmedEvents' = [confirmedEvents EXCEPT ![o] = @ + 1]
  /\ Ack(o, "payment.succeeded")
  /\ SetCons(o, "idle", AbsentOrder)
  /\ UNCHANGED <<cart, savedAddress, paymentDb, gateway, starting, requests,
                 webhooks, faults>>

ConsumeFailed(o) ==
  /\ consPc[o] = "idle"
  /\ "payment.failed" \in paymentEvents[o]
  /\ orders[o].status # "absent"
  /\ IF CanCancel(orders[o])
       THEN SetCons(o, "cancel", orders[o]) /\ UNCHANGED acked
       ELSE Ack(o, "payment.failed") /\ UNCHANGED <<consPc, consCopy>>
  /\ UNCHANGED <<orderDb, paymentDb, gateway, starting, requests, webhooks, faults>>

CancelCommit(o) ==
  /\ consPc[o] = "cancel"
  /\ orders' = [orders EXCEPT ![o] = MoveTo(consCopy[o], "cancelled")]
  /\ Ack(o, "payment.failed")
  /\ SetCons(o, "idle", AbsentOrder)
  /\ UNCHANGED <<cart, confirmedEvents, savedAddress, paymentDb, gateway, starting,
                 requests, webhooks, faults>>

(* The transaction rolls back and the message is delivered again.          *)
ConsumeFail(o) ==
  /\ consPc[o] # "idle"
  /\ Fault
  /\ SetCons(o, "idle", AbsentOrder)
  /\ UNCHANGED <<acked, orderDb, paymentDb, gateway, starting, requests, webhooks>>

-----------------------------------------------------------------------------
CheckoutStep(o) ==
  \/ CheckoutLoad(o) \/ CheckoutReject(o) \/ CheckoutCommit(o)
  \/ CheckoutSave(o) \/ CheckoutReply(o) \/ CheckoutFail(o)

CreatePaymentStep(o) ==
  \/ CreatePaymentRow(o) \/ CallGateway(o)
  \/ AttachGatewayReference(o) \/ CreatePaymentFail(o)

RequestStep(o, s) ==
  \/ CancelLoad(o, s) \/ CancelCheck(o, s) \/ CancelSave(o, s) \/ CancelVoid(o, s)
  \/ MarkReadyLoad(o, s) \/ MarkReadySave(o, s)
  \/ CompleteLoad(o, s) \/ CompleteSave(o, s)
  \/ RequestFail(o, s)

WebhookStep(o, h) ==
  WebhookLoad(o, h) \/ WebhookStatus(o, h) \/ WebhookCommit(o, h) \/ WebhookFail(o, h)

ConsumerStep(o) ==
  \/ ConsumeSucceeded(o) \/ ConfirmCommit(o)
  \/ ConsumeFailed(o) \/ CancelCommit(o) \/ ConsumeFail(o)

Next ==
  \/ FillCart
  \/ \E o \in Orders :
       \/ CheckoutStep(o)
       \/ CreatePaymentStep(o)
       \/ \E s \in Slots : RequestStep(o, s)
       \/ MollieSettles(o)
       \/ \E h \in Hooks : WebhookStep(o, h)
       \/ ConsumerStep(o)

(* Fairness.  Mollie delivers while it is owed a 200, a webhook handler    *)
(* runs to its end, and the worker takes an unacknowledged event and ends  *)
(* its transaction.  Nothing obliges customers, owners or faults.          *)
Fairness ==
  \A o \in Orders :
    /\ \A h \in Hooks : /\ WF_vars(hookDue[o] /\ WebhookLoad(o, h))
                        /\ WF_vars(WebhookStatus(o, h))
                        /\ WF_vars(WebhookCommit(o, h))
    /\ WF_vars("payment.succeeded" \notin acked[o] /\ ConsumeSucceeded(o))
    /\ WF_vars("payment.failed" \notin acked[o] /\ ConsumeFailed(o))
    /\ WF_vars(ConfirmCommit(o))
    /\ WF_vars(CancelCommit(o))

Spec == Init /\ [][Next]_vars
FairSpec == Spec /\ Fairness

-----------------------------------------------------------------------------
(* Properties                                                              *)

Settled(o) == payments[o].status \in {"succeeded", "failed"}

(* No order is confirmed, readied or completed unless payment-service      *)
(* recorded its payment as succeeded and Mollie holds the money, whichever *)
(* of the racing whole-row saves of order_db landed last.                  *)
PreparedOnlyIfPaid ==
  \A o \in Orders : orders[o].status \in {"confirmed", "ready", "completed"} =>
    /\ payments[o].status = "succeeded"
    /\ mollie[o] = "paid"

(* However often payment.succeeded is redelivered, order.confirmed is      *)
(* recorded at most once ("must never double-confirm"), and it has been    *)
(* recorded for every order the restaurant works on.                       *)
ConfirmedOnce ==
  \A o \in Orders :
    /\ confirmedEvents[o] <= 1
    /\ orders[o].status \in {"confirmed", "ready", "completed"} => confirmedEvents[o] = 1

(* A payment's settled status is what Mollie says of it, although the      *)
(* webhook handler acts on an answer of GetStatus that is older than the   *)
(* commit and CreatePayment also saves the status column.                  *)
GatewayAgrees ==
  \A o \in Orders : Settled(o) => payments[o].status = MapMollieStatus(mollie[o])

(* An order that carries a payment id carries that of a payment which      *)
(* exists and has its gateway reference, so Cancel's check and void reach  *)
(* Mollie: the order is linked only after CreatePayment ran to its end.    *)
LinkedIsPayable ==
  \A o \in Orders : orders[o].linked => payments[o].gw /\ mollie[o] # "none"

(* Whole-row saves keep each orders row a possible history: stale it may   *)
(* be, but never a mix of one handler's status and another's timestamps.   *)
RowCoherent == \A o \in Orders : Coherent(orders[o])

(* Once the checkout URL has been handed out no step takes an order back   *)
(* to pending, so a payment made through it cannot be applied twice.       *)
NeverReopened ==
  [][\A o \in Orders : checkout[o] = "done" /\ orders[o].status # "pending"
                         => orders'[o].status # "pending"]_vars

(* payment-service keeps its promise: one outcome, never revised, recorded *)
(* together with its event (HandleMollieWebhook's transaction), in spite   *)
(* of overlapping webhook deliveries and CreatePayment's whole-row save.   *)
Outcome == INSTANCE PaymentOutcome
             WITH Subjects <- Orders,
                  outcome <- [o \in Orders |-> payments[o].status],
                  announced <- paymentEvents
KeepsPaymentOutcome == Outcome!Spec

(* A customer who paid sees the order leave pending: Mollie's webhook,     *)
(* the payment event and its handler get there in spite of the faults.     *)
PaidSettles ==
  \A o \in Orders : mollie[o] = "paid" ~> orders[o].status # "pending"

(* Step 9 of Checkout in docs/services/order.md, "UPDATE orders SET        *)
(* payment_id = ?": recording the payment id changes nothing else.  The    *)
(* code saves the whole aggregate it built before the RPC, and so takes    *)
(* back a Cancel that committed while CreatePayment was under way.         *)
PaymentIdUpdateKeepsStatus ==
  [][\A o \in Orders : checkout[o] = "rpc" /\ checkout'[o] = "saved"
                         => orders'[o].status = orders[o].status]_vars
=============================================================================
