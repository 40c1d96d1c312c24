------------------------- MODULE OrderPayment_proofs -------------------------
(***************************************************************************)
(* Proofs about OrderPayment, for any sets of orders, concurrent requests  *)
(* and webhook deliveries and any number of faults.                        *)
(***************************************************************************)
EXTENDS OrderPayment, TLAPS

-----------------------------------------------------------------------------
(* The inductive invariant                                                 *)

Prepared(row) == row.status \in {"confirmed", "ready", "completed"}

(* How far CreatePayment got decides what payment_db and Mollie can hold,  *)
(* and Checkout only hands out the URL of a finished CreatePayment.        *)
StartInv(o) ==
  /\ rpc[o] = "idle" => payments[o] = AbsentPayment /\ mollie[o] = "none"
  /\ rpc[o] \in {"gateway", "attach", "failed"} =>
       payments[o].status = "pending" /\ ~payments[o].gw
  /\ rpc[o] = "gateway" => mollie[o] = "none"
  /\ rpc[o] = "attach" => mollie[o] # "none"
  /\ rpc[o] = "done" => payments[o].gw /\ mollie[o] # "none" /\ payments[o].status # "absent"
  /\ checkout[o] \in {"saved", "done"} => rpc[o] = "done"
  /\ mollie[o] = "paid" => checkout[o] = "done"

(* What payment-service and its webhook handlers know is still true.       *)
GatewayInv(o) ==
  /\ Settled(o) => payments[o].gw /\ payments[o].status = MapMollieStatus(mollie[o])
  /\ paymentEvents[o] = IF Settled(o) THEN {EventOf(payments[o].status)} ELSE {}
  /\ \A h \in Hooks :
       /\ hookPc[o][h] # "idle" => payments[o].gw
       /\ hookPc[o][h] \in {"succeeded", "failed"} => hookPc[o][h] = MapMollieStatus(mollie[o])

(* What holds of the orders row and of every copy of it a handler has:     *)
(* stale or not, a copy was once the row.                                  *)
RowInv(o, row) ==
  /\ Coherent(row)
  /\ row.linked => rpc[o] = "done"
  /\ Prepared(row) => payments[o].status = "succeeded" /\ confirmedEvents[o] = 1

CopyInv(o) ==
  /\ RowInv(o, orders[o])
  /\ RowInv(o, consCopy[o])
  /\ consPc[o] = "confirm" => /\ CanConfirm(consCopy[o])
                              /\ payments[o].status = "succeeded"
                              /\ confirmedEvents[o] = 0
  /\ consPc[o] = "cancel" => CanCancel(consCopy[o])
  /\ \A s \in Slots :
       /\ RowInv(o, reqCopy[o][s])
       /\ reqPc[o][s] = "cancel_save" => CanCancel(reqCopy[o][s])
       /\ reqPc[o][s] = "ready_save" => CanMarkReady(reqCopy[o][s])
       /\ reqPc[o][s] = "complete_save" => CanComplete(reqCopy[o][s])

(* After a confirmation nobody is left who would write pending again.      *)
ConfirmInv(o) ==
  /\ confirmedEvents[o] \in {0, 1}
  /\ confirmedEvents[o] = 1 => /\ orders[o].status \notin {"absent", "pending"}
                               /\ payments[o].status = "succeeded"

OrderInv(o) == StartInv(o) /\ GatewayInv(o) /\ CopyInv(o) /\ ConfirmInv(o)

IInv == TypeOK /\ \A o \in Orders : OrderInv(o)

-----------------------------------------------------------------------------
(* Type correctness                                                        *)

(* Rows stay rows: the helpers that build one return an OrderRow.          *)
LEMMA RowTypes ==
  /\ AbsentOrder \in OrderRow
  /\ NewOrder \in OrderRow
  /\ [NewOrder EXCEPT !.linked = TRUE] \in OrderRow
  /\ \A row \in OrderRow : \A st \in OrderStatus \ {"pending"} : MoveTo(row, st) \in OrderRow
  /\ AbsentPayment \in PaymentRow
  BY DEF AbsentOrder, NewOrder, OrderRow, OrderStatus, MoveTo, AbsentPayment, PaymentRow,
         PaymentStatus

(* The three outcomes of the conversion of Mollie's status.                *)
LEMMA MapMollie ==
  /\ MapMollieStatus("paid") = "succeeded"
  /\ MapMollieStatus("canceled") = "failed"
  /\ MapMollieStatus("expired") = "failed"
  /\ MapMollieStatus("open") = "pending"
  /\ MapMollieStatus("none") = "pending"
  BY DEF MapMollieStatus

LEMMA InitType == Init => TypeOK
  BY RowTypes DEF Init, TypeOK, CheckoutPc, RpcPc, ReqPc, HookPc, ConsPc, MollieStatus

LEMMA CheckoutType ==
  ASSUME TypeOK, NEW o \in Orders, CheckoutStep(o)
  PROVE  TypeOK'
<1> USE DEF TypeOK, orderDb, paymentDb, gateway, starting, requests, webhooks, consumer
<1>1. CASE CheckoutLoad(o)
  BY <1>1 DEF CheckoutLoad, CheckoutPc
<1>2. CASE CheckoutReject(o)
  BY <1>2 DEF CheckoutReject, CheckoutPc
<1>3. CASE CheckoutCommit(o)
  BY <1>3, RowTypes DEF CheckoutCommit, CheckoutPc
<1>4. CASE CheckoutSave(o)
  BY <1>4, RowTypes DEF CheckoutSave, CheckoutPc
<1>5. CASE CheckoutReply(o)
  BY <1>5 DEF CheckoutReply, CheckoutPc
<1>6. CASE CheckoutFail(o)
  BY <1>6 DEF CheckoutFail, CheckoutPc, Fault
<1> QED
  BY <1>1, <1>2, <1>3, <1>4, <1>5, <1>6 DEF CheckoutStep

LEMMA CreatePaymentType ==
  ASSUME TypeOK, NEW o \in Orders, CreatePaymentStep(o)
  PROVE  TypeOK'
<1> USE DEF TypeOK, orderDb, paymentDb, gateway, starting, requests, webhooks, consumer
<1>1. CASE CreatePaymentRow(o)
  BY <1>1 DEF CreatePaymentRow, RpcPc, PaymentRow, PaymentStatus
<1>2. CASE CallGateway(o)
  BY <1>2 DEF CallGateway, RpcPc, MollieStatus
<1>3. CASE AttachGatewayReference(o)
  BY <1>3 DEF AttachGatewayReference, RpcPc, PaymentRow, PaymentStatus
<1>4. CASE CreatePaymentFail(o)
  BY <1>4 DEF CreatePaymentFail, RpcPc, Fault
<1> QED
  BY <1>1, <1>2, <1>3, <1>4 DEF CreatePaymentStep

(* Starting, continuing or ending a request keeps the request's types.     *)
LEMMA SetReqType ==
  ASSUME TypeOK, NEW o \in Orders, NEW s \in Slots,
         NEW pc \in ReqPc, NEW copy \in OrderRow, SetReq(o, s, pc, copy)
  PROVE  /\ reqPc' \in [Orders -> [Slots -> ReqPc]]
         /\ reqCopy' \in [Orders -> [Slots -> OrderRow]]
  BY DEF TypeOK, SetReq

LEMMA EndReqType ==
  ASSUME TypeOK, NEW o \in Orders, NEW s \in Slots, EndReq(o, s)
  PROVE  /\ reqPc' \in [Orders -> [Slots -> ReqPc]]
         /\ reqCopy' \in [Orders -> [Slots -> OrderRow]]
  BY SetReqType, RowTypes DEF EndReq, ReqPc

LEMMA RequestType ==
  ASSUME TypeOK, NEW o \in Orders, NEW s \in Slots, RequestStep(o, s)
  PROVE  TypeOK'
<1> USE DEF TypeOK, orderDb, paymentDb, gateway, starting, webhooks, consumer
<1>1. CASE CancelLoad(o, s)
  BY <1>1, SetReqType DEF CancelLoad, ReqPc
<1>2. CASE CancelCheck(o, s)
  BY <1>2, SetReqType, EndReqType DEF CancelCheck, ReqPc
<1>3. CASE CancelSave(o, s)
  BY <1>3, SetReqType, EndReqType, RowTypes DEF CancelSave, ReqPc, OrderStatus
<1>4. CASE CancelVoid(o, s)
  BY <1>4, EndReqType DEF CancelVoid, MollieStatus
<1>5. CASE MarkReadyLoad(o, s)
  BY <1>5, SetReqType DEF MarkReadyLoad, ReqPc
<1>6. CASE MarkReadySave(o, s)
  BY <1>6, EndReqType, RowTypes DEF MarkReadySave, OrderStatus
<1>7. CASE CompleteLoad(o, s)
  BY <1>7, SetReqType DEF CompleteLoad, ReqPc
<1>8. CASE CompleteSave(o, s)
  BY <1>8, EndReqType, RowTypes DEF CompleteSave, OrderStatus
<1>9. CASE RequestFail(o, s)
  BY <1>9, EndReqType DEF RequestFail, Fault
<1> QED
  BY <1>1, <1>2, <1>3, <1>4, <1>5, <1>6, <1>7, <1>8, <1>9 DEF RequestStep

LEMMA MollieType ==
  ASSUME TypeOK, NEW o \in Orders, MollieSettles(o)
  PROVE  TypeOK'
  BY DEF TypeOK, orderDb, paymentDb, starting, requests, webhooks, consumer,
         MollieSettles, MollieStatus

(* The same for a webhook delivery, and for the consumer's copy and acks.  *)
LEMMA SetHookType ==
  ASSUME TypeOK, NEW o \in Orders, NEW h \in Hooks,
         NEW pc \in HookPc, NEW owed \in BOOLEAN, SetHook(o, h, pc, owed)
  PROVE  /\ hookPc' \in [Orders -> [Hooks -> HookPc]]
         /\ hookOwed' \in [Orders -> [Hooks -> BOOLEAN]]
  BY DEF TypeOK, SetHook

LEMMA SetConsType ==
  ASSUME TypeOK, NEW o \in Orders, NEW pc \in ConsPc, NEW copy \in OrderRow,
         SetCons(o, pc, copy)
  PROVE  /\ consPc' \in [Orders -> ConsPc]
         /\ consCopy' \in [Orders -> OrderRow]
  BY DEF TypeOK, SetCons

LEMMA AckType ==
  ASSUME TypeOK, NEW o \in Orders, NEW e \in PaymentEvents, Ack(o, e)
  PROVE  acked' \in [Orders -> SUBSET PaymentEvents]
  BY DEF TypeOK, Ack

LEMMA WebhookType ==
  ASSUME TypeOK, NEW o \in Orders, NEW h \in Hooks, WebhookStep(o, h)
  PROVE  TypeOK'
<1> USE DEF TypeOK, orderDb, paymentDb, gateway, starting, requests, webhooks, consumer
<1>1. CASE WebhookLoad(o, h)
  <2>1. CASE payments[o].gw /\ CanSettle(payments[o])
    <3>1. SetHook(o, h, "status", hookDue[o])
      BY <1>1, <2>1 DEF WebhookLoad
    <3>2. hookPc' \in [Orders -> [Hooks -> HookPc]] /\ hookOwed' \in [Orders -> [Hooks -> BOOLEAN]]
      BY <3>1, SetHookType DEF HookPc
    <3> QED
      BY <1>1, <2>1, <3>2 DEF WebhookLoad
  <2>2. CASE ~(payments[o].gw /\ CanSettle(payments[o]))
    BY <1>1, <2>2 DEF WebhookLoad
  <2> QED
    BY <2>1, <2>2
<1>2. CASE WebhookStatus(o, h)
  <2>1. MapMollieStatus(mollie[o]) \in {"succeeded", "failed", "pending"}
    BY MapMollie DEF MollieStatus
  <2>2. PICK pc \in HookPc, owed \in BOOLEAN : SetHook(o, h, pc, owed)
    BY <1>2, <2>1 DEF WebhookStatus, HookPc
  <2>3. hookPc' \in [Orders -> [Hooks -> HookPc]] /\ hookOwed' \in [Orders -> [Hooks -> BOOLEAN]]
    BY <2>2, SetHookType
  <2> QED
    BY <1>2, <2>3 DEF WebhookStatus
<1>3. CASE WebhookCommit(o, h)
  BY <1>3 DEF WebhookCommit, SetHook, HookPc, PaymentRow, PaymentStatus, PaymentEvents, EventOf
<1>4. CASE WebhookFail(o, h)
  BY <1>4 DEF WebhookFail, SetHook, HookPc, Fault
<1> QED
  BY <1>1, <1>2, <1>3, <1>4 DEF WebhookStep

LEMMA ConsumerType ==
  ASSUME TypeOK, NEW o \in Orders, ConsumerStep(o)
  PROVE  TypeOK'
<1>0. "payment.succeeded" \in PaymentEvents /\ "payment.failed" \in PaymentEvents
  BY DEF PaymentEvents
<1> USE RowTypes DEF TypeOK, orderDb, paymentDb, gateway, starting, requests, webhooks, ConsPc
<1>1. CASE ConsumeSucceeded(o)
  <2>1. CASE CanConfirm(orders[o])
    BY <1>1, <2>1, SetConsType DEF ConsumeSucceeded
  <2>2. CASE ~CanConfirm(orders[o])
    BY <1>0, <1>1, <2>2, AckType DEF ConsumeSucceeded
  <2> QED
    BY <2>1, <2>2
<1>2. CASE ConfirmCommit(o)
  BY <1>0, <1>2, SetConsType, AckType DEF ConfirmCommit, OrderStatus
<1>3. CASE ConsumeFailed(o)
  <2>1. CASE CanCancel(orders[o])
    BY <1>3, <2>1, SetConsType DEF ConsumeFailed
  <2>2. CASE ~CanCancel(orders[o])
    BY <1>0, <1>3, <2>2, AckType DEF ConsumeFailed
  <2> QED
    BY <2>1, <2>2
<1>4. CASE CancelCommit(o)
  BY <1>0, <1>4, SetConsType, AckType DEF CancelCommit, OrderStatus
<1>5. CASE ConsumeFail(o)
  BY <1>5, SetConsType DEF ConsumeFail, Fault
<1> QED
  BY <1>1, <1>2, <1>3, <1>4, <1>5 DEF ConsumerStep

LEMMA StepType == TypeOK /\ [Next]_vars => TypeOK'
<1> SUFFICES ASSUME TypeOK, [Next]_vars
             PROVE  TypeOK'
  OBVIOUS
<1>1. CASE FillCart
  BY <1>1 DEF FillCart, TypeOK, paymentDb, gateway, starting, requests, webhooks, consumer
<1>2. CASE UNCHANGED vars
  BY <1>2 DEF vars, TypeOK, orderDb, paymentDb, gateway, starting, requests, webhooks, consumer
<1> QED
  BY <1>1, <1>2, CheckoutType, CreatePaymentType, RequestType, MollieType, WebhookType,
     ConsumerType DEF Next

(* Every reachable state is well typed: the handlers only ever write rows  *)
(* the orders and payments tables accept.                                  *)
THEOREM TypeCorrect == Spec => []TypeOK
  BY InitType, StepType, PTL DEF Spec

-----------------------------------------------------------------------------
(* The invariant is inductive                                              *)

(* A step of one order's handlers leaves every other order alone.          *)
SameAt(p) ==
  /\ orders'[p] = orders[p]
  /\ confirmedEvents'[p] = confirmedEvents[p]
  /\ payments'[p] = payments[p]
  /\ paymentEvents'[p] = paymentEvents[p]
  /\ mollie'[p] = mollie[p]
  /\ checkout'[p] = checkout[p]
  /\ rpc'[p] = rpc[p]
  /\ reqPc'[p] = reqPc[p]
  /\ reqCopy'[p] = reqCopy[p]
  /\ hookPc'[p] = hookPc[p]
  /\ consPc'[p] = consPc[p]
  /\ consCopy'[p] = consCopy[p]

StepOf(o) ==
  \/ CheckoutStep(o)
  \/ CreatePaymentStep(o)
  \/ \E s \in Slots : RequestStep(o, s)
  \/ MollieSettles(o)
  \/ \E h \in Hooks : WebhookStep(o, h)
  \/ ConsumerStep(o)

(* OrderInv(p) only speaks of the state at p.                              *)
LEMMA SameKeepsInv ==
  ASSUME NEW p \in Orders, OrderInv(p), SameAt(p)
  PROVE  OrderInv(p)'
<1> USE DEF SameAt
<1>1. StartInv(p)'
  BY DEF OrderInv, StartInv
<1>2. GatewayInv(p)'
  BY DEF OrderInv, GatewayInv, Settled
<1>3. CopyInv(p)'
  BY DEF OrderInv, CopyInv, RowInv
<1>4. ConfirmInv(p)'
  BY DEF OrderInv, ConfirmInv
<1> QED
  BY <1>1, <1>2, <1>3, <1>4 DEF OrderInv

LEMMA OthersSame ==
  ASSUME TypeOK, NEW o \in Orders, NEW p \in Orders, p # o, StepOf(o)
  PROVE  SameAt(p)
<1> USE DEF TypeOK, SameAt, orderDb, paymentDb, gateway, starting, requests, webhooks, consumer
<1>1. CASE CheckoutStep(o)
  BY <1>1 DEF CheckoutStep, CheckoutLoad, CheckoutReject, CheckoutCommit, CheckoutSave,
     CheckoutReply, CheckoutFail
<1>2. CASE CreatePaymentStep(o)
  BY <1>2 DEF CreatePaymentStep, CreatePaymentRow, CallGateway, AttachGatewayReference,
     CreatePaymentFail
<1>3. ASSUME NEW s \in Slots, RequestStep(o, s)
      PROVE  SameAt(p)
  BY <1>3 DEF RequestStep, CancelLoad, CancelCheck, CancelSave, CancelVoid, MarkReadyLoad,
     MarkReadySave, CompleteLoad, CompleteSave, RequestFail, SetReq, EndReq
<1>4. CASE MollieSettles(o)
  BY <1>4 DEF MollieSettles
<1>5. ASSUME NEW h \in Hooks, WebhookStep(o, h)
      PROVE  SameAt(p)
  BY <1>5 DEF WebhookStep, WebhookLoad, WebhookStatus, WebhookCommit, WebhookFail, SetHook
<1>6. CASE ConsumerStep(o)
  BY <1>6 DEF ConsumerStep, ConsumeSucceeded, ConfirmCommit, ConsumeFailed, CancelCommit,
     ConsumeFail, SetCons, Ack
<1> QED
  BY <1>1, <1>2, <1>3, <1>4, <1>5, <1>6 DEF StepOf

(* The transitions of the Order aggregate keep its timestamps coherent,    *)
(* keep payment_id, and reach the status they name.                        *)
LEMMA Transitions ==
  ASSUME NEW row \in OrderRow, Coherent(row)
  PROVE  /\ CanConfirm(row)   => Coherent(MoveTo(row, "confirmed"))
         /\ CanMarkReady(row) => Coherent(MoveTo(row, "ready"))
         /\ CanComplete(row)  => Coherent(MoveTo(row, "completed"))
         /\ CanCancel(row)    => Coherent(MoveTo(row, "cancelled"))
         /\ \A st : MoveTo(row, st).status = st /\ MoveTo(row, st).linked = row.linked
  BY DEF OrderRow, OrderStatus, Coherent, MoveTo, CanConfirm, CanMarkReady, CanComplete, CanCancel

(* The rows no transition made.                                            *)
LEMMA FreshRows ==
  /\ Coherent(AbsentOrder) /\ ~AbsentOrder.linked /\ ~Prepared(AbsentOrder)
  /\ Coherent(NewOrder) /\ ~NewOrder.linked /\ ~Prepared(NewOrder)
  /\ Coherent([NewOrder EXCEPT !.linked = TRUE]) /\ ~Prepared([NewOrder EXCEPT !.linked = TRUE])
  BY DEF AbsentOrder, NewOrder, Coherent, Prepared

(* Until the URL is handed out there is no money, hence no confirmation.   *)
LEMMA UnpaidUnconfirmed ==
  ASSUME TypeOK, NEW o \in Orders, OrderInv(o)
  PROVE  /\ payments[o].status = "succeeded" => mollie[o] = "paid" /\ checkout[o] = "done"
         /\ checkout[o] # "done" => confirmedEvents[o] = 0
<1>1. payments[o].status = "succeeded" => mollie[o] = "paid" /\ checkout[o] = "done"
  BY MapMollie DEF TypeOK, MollieStatus, OrderInv, GatewayInv, StartInv, Settled
<1> QED
  BY <1>1 DEF OrderInv, ConfirmInv

LEMMA InitInv == Init => IInv
<1> SUFFICES ASSUME Init
             PROVE  \A o \in Orders : OrderInv(o)
  BY InitType DEF IInv
<1> TAKE o \in Orders
<1>1. StartInv(o)
  BY DEF Init, StartInv
<1>2. GatewayInv(o)
  BY DEF Init, GatewayInv, Settled, AbsentPayment
<1>3. CopyInv(o)
  BY FreshRows DEF Init, CopyInv, RowInv
<1>4. ConfirmInv(o)
  BY DEF Init, ConfirmInv
<1> QED
  BY <1>1, <1>2, <1>3, <1>4 DEF OrderInv

LEMMA CheckoutInv ==
  ASSUME TypeOK, NEW o \in Orders, OrderInv(o), CheckoutStep(o)
  PROVE  OrderInv(o)'
<1> USE DEF orderDb, paymentDb, gateway, starting, requests, webhooks, consumer
<1>0. /\ UNCHANGED <<confirmedEvents, payments, paymentEvents, mollie, rpc, reqPc, reqCopy,
                     hookPc, consPc, consCopy>>
      /\ checkout[o] # "done"
      /\ checkout'[o] \in {"saved", "done"} => rpc[o] = "done"
      /\ orders'[o] \in {orders[o], NewOrder, [NewOrder EXCEPT !.linked = TRUE]}
      /\ orders'[o] = [NewOrder EXCEPT !.linked = TRUE] => orders'[o] = orders[o] \/ rpc[o] = "done"
  BY DEF TypeOK, CheckoutStep, CheckoutLoad, CheckoutReject, CheckoutCommit, CheckoutSave,
     CheckoutReply, CheckoutFail, OrderInv, StartInv, NewOrder
<1>1. confirmedEvents[o] = 0 /\ mollie[o] # "paid" /\ payments[o].status # "succeeded"
  BY <1>0, UnpaidUnconfirmed DEF OrderInv, StartInv
<1>2. StartInv(o)'
  BY <1>0, <1>1 DEF OrderInv, StartInv
<1>3. GatewayInv(o)'
  BY <1>0 DEF OrderInv, GatewayInv, Settled
<1>4. RowInv(o, orders[o])'
  <2>1. CASE orders'[o] = orders[o]
    BY <1>0, <2>1 DEF OrderInv, CopyInv, RowInv
  <2>2. CASE orders'[o] = NewOrder
    BY <1>0, <2>2, FreshRows DEF RowInv
  <2>3. CASE orders'[o] = [NewOrder EXCEPT !.linked = TRUE] /\ orders'[o] # orders[o]
    BY <1>0, <2>3, FreshRows DEF RowInv
  <2> QED
    BY <1>0, <2>1, <2>2, <2>3
<1>5. CopyInv(o)'
  BY <1>0, <1>4 DEF OrderInv, CopyInv, RowInv
<1>6. ConfirmInv(o)'
  BY <1>0, <1>1 DEF ConfirmInv
<1> QED
  BY <1>2, <1>3, <1>5, <1>6 DEF OrderInv

LEMMA CreatePaymentInv ==
  ASSUME TypeOK, NEW o \in Orders, OrderInv(o), CreatePaymentStep(o)
  PROVE  OrderInv(o)'
<1> USE DEF orderDb, paymentDb, gateway, starting, requests, webhooks, consumer
<1>0. /\ UNCHANGED <<orders, confirmedEvents, paymentEvents, checkout, reqPc, reqCopy,
                     hookPc, consPc, consCopy>>
      /\ rpc[o] # "done"
  BY DEF TypeOK, CreatePaymentStep, CreatePaymentRow, CallGateway, AttachGatewayReference,
     CreatePaymentFail
<1>1. payments[o].status \notin {"succeeded", "failed"} /\ ~payments[o].gw
  BY <1>0 DEF TypeOK, RpcPc, OrderInv, StartInv, AbsentPayment
<1>2. \A h \in Hooks : hookPc[o][h] = "idle"
  BY <1>1 DEF OrderInv, GatewayInv
<1>3. paymentEvents[o] = {} /\ payments'[o].status \notin {"succeeded", "failed"}
  BY <1>1 DEF OrderInv, GatewayInv, Settled, TypeOK, CreatePaymentStep, CreatePaymentRow, CallGateway,
     AttachGatewayReference, CreatePaymentFail
<1>4. StartInv(o)'
  BY <1>0, <1>1 DEF OrderInv, StartInv, TypeOK, CreatePaymentStep, CreatePaymentRow, CallGateway,
     AttachGatewayReference, CreatePaymentFail
<1>5. GatewayInv(o)'
  BY <1>0, <1>2, <1>3 DEF GatewayInv, Settled
<1>6. confirmedEvents[o] = 0 /\ consPc[o] # "confirm"
  BY <1>1 DEF OrderInv, ConfirmInv, CopyInv
<1>7. CopyInv(o)'
  BY <1>0, <1>1, <1>6 DEF OrderInv, CopyInv, RowInv
<1>8. ConfirmInv(o)'
  BY <1>0, <1>6 DEF ConfirmInv
<1> QED
  BY <1>4, <1>5, <1>7, <1>8 DEF OrderInv

LEMMA RequestInv ==
  ASSUME TypeOK, NEW o \in Orders, NEW s \in Slots, OrderInv(o), RequestStep(o, s)
  PROVE  OrderInv(o)'
<1> USE DEF orderDb, paymentDb, gateway, starting, requests, webhooks, consumer
<1>0. UNCHANGED <<confirmedEvents, payments, paymentEvents, checkout, rpc, hookPc, consPc, consCopy>>
  BY DEF RequestStep, CancelLoad, CancelCheck, CancelSave, CancelVoid, MarkReadyLoad,
     MarkReadySave, CompleteLoad, CompleteSave, RequestFail
<1>1. PICK pc \in ReqPc, copy \in OrderRow :
        /\ SetReq(o, s, pc, copy)
        /\ copy \in {orders[o], reqCopy[o][s], AbsentOrder}
        /\ pc = "cancel_save" => CanCancel(copy)
        /\ pc = "ready_save" => CanMarkReady(copy)
        /\ pc = "complete_save" => CanComplete(copy)
  BY RowTypes DEF TypeOK, ReqPc, RequestStep, CancelLoad, CancelCheck, CancelSave, CancelVoid,
     MarkReadyLoad, MarkReadySave, CompleteLoad, CompleteSave, RequestFail, EndReq
<1>2. /\ reqPc'[o][s] = pc /\ reqCopy'[o][s] = copy
      /\ \A t \in Slots \ {s} : reqPc'[o][t] = reqPc[o][t] /\ reqCopy'[o][t] = reqCopy[o][t]
  BY <1>1 DEF SetReq, TypeOK
<1>3. \/ orders'[o] = orders[o]
      \/ /\ CanCancel(reqCopy[o][s])
         /\ orders'[o] = MoveTo(reqCopy[o][s], "cancelled")
      \/ /\ CanMarkReady(reqCopy[o][s])
         /\ orders'[o] = MoveTo(reqCopy[o][s], "ready")
      \/ /\ CanComplete(reqCopy[o][s])
         /\ orders'[o] = MoveTo(reqCopy[o][s], "completed")
  BY DEF TypeOK, OrderInv, CopyInv, RequestStep, CancelLoad, CancelCheck, CancelSave, CancelVoid,
     MarkReadyLoad, MarkReadySave, CompleteLoad, CompleteSave, RequestFail
<1>4. mollie'[o] = mollie[o] \/ (mollie[o] = "open" /\ mollie'[o] = "canceled")
  <2>1. CASE CancelVoid(o, s)
    BY <2>1 DEF TypeOK, CancelVoid
  <2>2. CASE ~CancelVoid(o, s)
    BY <2>2 DEF RequestStep, CancelLoad, CancelCheck, CancelSave, MarkReadyLoad,
       MarkReadySave, CompleteLoad, CompleteSave, RequestFail
  <2> QED
    BY <2>1, <2>2
<1>5. StartInv(o)'
  BY <1>0, <1>4 DEF OrderInv, StartInv
<1>6. GatewayInv(o)'
  BY <1>0, <1>4, MapMollie DEF OrderInv, GatewayInv, Settled
<1>7. RowInv(o, reqCopy[o][s]) /\ RowInv(o, orders[o]) /\ reqCopy[o][s] \in OrderRow
  BY DEF OrderInv, CopyInv, TypeOK
<1>8. RowInv(o, orders[o])' /\ (orders'[o] = orders[o] \/ orders'[o].status \notin {"absent", "pending"})
  <2>1. CASE orders'[o] = orders[o]
    BY <1>0, <1>7, <2>1 DEF RowInv
  <2>2. CASE orders'[o] # orders[o]
    BY <1>0, <1>3, <1>7, <2>2, Transitions
       DEF RowInv, Prepared, CanMarkReady, CanComplete, CanCancel
  <2> QED
    BY <2>1, <2>2
<1>9. CopyInv(o)'
  <2>1. RowInv(o, copy)'
    BY <1>0, <1>1, <1>7, FreshRows DEF RowInv
  <2>2. RowInv(o, consCopy[o])' /\ (consPc[o] = "confirm" =>
          CanConfirm(consCopy[o]) /\ payments[o].status = "succeeded" /\ confirmedEvents[o] = 0)'
        /\ (consPc[o] = "cancel" => CanCancel(consCopy[o]))'
    BY <1>0 DEF OrderInv, CopyInv, RowInv
  <2>3. ASSUME NEW t \in Slots
        PROVE  (/\ RowInv(o, reqCopy[o][t])
                /\ reqPc[o][t] = "cancel_save" => CanCancel(reqCopy[o][t])
                /\ reqPc[o][t] = "ready_save" => CanMarkReady(reqCopy[o][t])
                /\ reqPc[o][t] = "complete_save" => CanComplete(reqCopy[o][t]))'
    <3>1. CASE t = s
      BY <1>1, <1>2, <2>1, <3>1 DEF RowInv
    <3>2. CASE t # s
      BY <1>0, <1>2, <3>2 DEF OrderInv, CopyInv, RowInv
    <3> QED
      BY <3>1, <3>2
  <2> QED
    BY <1>8, <2>2, <2>3 DEF CopyInv
<1>10. ConfirmInv(o)'
  BY <1>0, <1>8 DEF OrderInv, ConfirmInv
<1> QED
  BY <1>5, <1>6, <1>9, <1>10 DEF OrderInv

LEMMA MollieInv ==
  ASSUME TypeOK, NEW o \in Orders, OrderInv(o), MollieSettles(o)
  PROVE  OrderInv(o)'
<1> USE DEF orderDb, paymentDb, starting, requests, webhooks, consumer
<1>0. /\ UNCHANGED <<orders, confirmedEvents, payments, paymentEvents, checkout, rpc, reqPc,
                     reqCopy, hookPc, consPc, consCopy>>
      /\ mollie[o] = "open"
      /\ (mollie'[o] = "paid" /\ checkout[o] = "done") \/ mollie'[o] = "expired"
  BY DEF TypeOK, MollieSettles
<1>1. StartInv(o)'
  BY <1>0 DEF OrderInv, StartInv
<1>2. GatewayInv(o)'
  BY <1>0, MapMollie DEF OrderInv, GatewayInv, Settled
<1>3. CopyInv(o)' /\ ConfirmInv(o)'
  BY <1>0 DEF OrderInv, CopyInv, RowInv, ConfirmInv
<1> QED
  BY <1>1, <1>2, <1>3 DEF OrderInv

LEMMA WebhookInv ==
  ASSUME TypeOK, NEW o \in Orders, NEW h \in Hooks, OrderInv(o), WebhookStep(o, h)
  PROVE  OrderInv(o)'
<1> USE DEF orderDb, paymentDb, gateway, starting, requests, webhooks, consumer
<1>0. UNCHANGED <<orders, confirmedEvents, mollie, checkout, rpc, reqPc, reqCopy, consPc, consCopy>>
  BY DEF WebhookStep, WebhookLoad, WebhookStatus, WebhookCommit, WebhookFail
<1>1. \A g \in Hooks \ {h} : hookPc'[o][g] = hookPc[o][g]
  BY DEF TypeOK, WebhookStep, WebhookLoad, WebhookStatus, WebhookCommit, WebhookFail, SetHook
<1>2. CASE WebhookCommit(o, h)
  <2>1. /\ hookPc[o][h] = MapMollieStatus(mollie[o])
        /\ hookPc[o][h] \in {"succeeded", "failed"}
        /\ payments[o].gw
        /\ payments[o].status \in {"pending", hookPc[o][h]}
    BY <1>2 DEF WebhookCommit, OrderInv, GatewayInv, StartInv, Settled, TypeOK, PaymentRow,
       PaymentStatus, RpcPc, AbsentPayment
  <2>2. payments'[o] = [status |-> hookPc[o][h], gw |-> TRUE] /\ hookPc'[o][h] = "idle"
    BY <1>2 DEF WebhookCommit, SetHook, TypeOK
  <2>3. paymentEvents'[o] = {EventOf(hookPc[o][h])}
    BY <1>2, <2>1 DEF WebhookCommit, OrderInv, GatewayInv, Settled, TypeOK
  <2>4. StartInv(o)'
    BY <1>0, <2>1, <2>2 DEF OrderInv, StartInv, AbsentPayment
  <2>5. GatewayInv(o)'
    BY <1>0, <1>1, <2>1, <2>2, <2>3 DEF OrderInv, GatewayInv, Settled
  <2>6. payments[o].status = "succeeded" => payments'[o].status = "succeeded"
    BY <2>1, <2>2
  <2>7. CopyInv(o)' /\ ConfirmInv(o)'
    BY <1>0, <2>6 DEF OrderInv, CopyInv, RowInv, ConfirmInv
  <2> QED
    BY <2>4, <2>5, <2>7 DEF OrderInv
<1>3. CASE ~WebhookCommit(o, h)
  <2>1. UNCHANGED <<payments, paymentEvents>>
    BY <1>3 DEF WebhookStep, WebhookLoad, WebhookStatus, WebhookFail
  <2>2. /\ hookPc'[o][h] # "idle" => payments[o].gw
        /\ hookPc'[o][h] \in {"succeeded", "failed"} => hookPc'[o][h] = MapMollieStatus(mollie[o])
    BY <1>3 DEF TypeOK, OrderInv, GatewayInv, WebhookStep, WebhookLoad, WebhookStatus,
       WebhookFail, SetHook
  <2>3. GatewayInv(o)'
    BY <1>0, <1>1, <2>1, <2>2 DEF OrderInv, GatewayInv, Settled
  <2>4. StartInv(o)' /\ CopyInv(o)' /\ ConfirmInv(o)'
    BY <1>0, <2>1 DEF OrderInv, StartInv, CopyInv, RowInv, ConfirmInv
  <2> QED
    BY <2>3, <2>4 DEF OrderInv
<1> QED
  BY <1>2, <1>3

LEMMA ConsumerInv ==
  ASSUME TypeOK, NEW o \in Orders, OrderInv(o), ConsumerStep(o)
  PROVE  OrderInv(o)'
<1> USE DEF orderDb, paymentDb, gateway, starting, requests, webhooks, consumer
<1>0. UNCHANGED <<payments, paymentEvents, mollie, checkout, rpc, reqPc, reqCopy, hookPc>>
  BY DEF ConsumerStep, ConsumeSucceeded, ConfirmCommit, ConsumeFailed, CancelCommit, ConsumeFail
<1>1. StartInv(o)' /\ GatewayInv(o)'
  BY <1>0 DEF OrderInv, StartInv, GatewayInv, Settled
<1>2. RowInv(o, orders[o]) /\ RowInv(o, consCopy[o]) /\ consCopy[o] \in OrderRow
  BY DEF OrderInv, CopyInv, TypeOK
<1>3. CASE ConsumeSucceeded(o)
  <2>1. UNCHANGED <<orders, confirmedEvents>>
    BY <1>3 DEF ConsumeSucceeded
  <2>2. payments[o].status = "succeeded"
    BY <1>3 DEF ConsumeSucceeded, OrderInv, GatewayInv, Settled, EventOf
  <2>3. \/ consPc'[o] = consPc[o] /\ consCopy'[o] = consCopy[o]
        \/ consPc'[o] = "confirm" /\ consCopy'[o] = orders[o] /\ CanConfirm(orders[o])
    BY <1>3 DEF ConsumeSucceeded, SetCons, TypeOK
  <2>4. CanConfirm(orders[o]) => confirmedEvents[o] = 0
    BY DEF OrderInv, ConfirmInv, CanConfirm
  <2>5. CopyInv(o)'
    BY <1>0, <1>2, <2>1, <2>2, <2>3, <2>4 DEF OrderInv, CopyInv, RowInv
  <2>6. ConfirmInv(o)'
    BY <1>0, <2>1 DEF OrderInv, ConfirmInv
  <2> QED
    BY <1>1, <2>5, <2>6 DEF OrderInv
<1>4. CASE ConfirmCommit(o)
  <2>1. /\ CanConfirm(consCopy[o])
        /\ payments[o].status = "succeeded"
        /\ confirmedEvents[o] = 0
    BY <1>4 DEF ConfirmCommit, OrderInv, CopyInv
  <2>2. /\ orders'[o] = MoveTo(consCopy[o], "confirmed")
        /\ confirmedEvents'[o] = 1
        /\ consPc'[o] = "idle"
        /\ consCopy'[o] = AbsentOrder
    BY <1>4, <2>1 DEF ConfirmCommit, SetCons, TypeOK
  <2>3. RowInv(o, orders[o])'
    BY <1>0, <1>2, <2>1, <2>2, Transitions DEF RowInv
  <2>4. RowInv(o, consCopy[o])'
    BY <2>2, FreshRows DEF RowInv
  <2>5. CopyInv(o)'
    BY <1>0, <2>1, <2>2, <2>3, <2>4 DEF OrderInv, CopyInv, RowInv
  <2>6. ConfirmInv(o)'
    BY <1>0, <1>2, <2>1, <2>2, Transitions DEF RowInv, ConfirmInv
  <2> QED
    BY <1>1, <2>5, <2>6 DEF OrderInv
<1>5. CASE ConsumeFailed(o)
  <2>1. UNCHANGED <<orders, confirmedEvents>>
    BY <1>5 DEF ConsumeFailed
  <2>2. \/ consPc'[o] = consPc[o] /\ consCopy'[o] = consCopy[o]
        \/ consPc'[o] = "cancel" /\ consCopy'[o] = orders[o] /\ CanCancel(orders[o])
    BY <1>5 DEF ConsumeFailed, SetCons, TypeOK
  <2>3. CopyInv(o)' /\ ConfirmInv(o)'
    BY <1>0, <1>2, <2>1, <2>2 DEF OrderInv, CopyInv, RowInv, ConfirmInv
  <2> QED
    BY <1>1, <2>3 DEF OrderInv
<1>6. CASE CancelCommit(o)
  <2>1. CanCancel(consCopy[o])
    BY <1>6 DEF CancelCommit, OrderInv, CopyInv
  <2>2. /\ orders'[o] = MoveTo(consCopy[o], "cancelled")
        /\ confirmedEvents'[o] = confirmedEvents[o]
        /\ consPc'[o] = "idle"
        /\ consCopy'[o] = AbsentOrder
    BY <1>6 DEF CancelCommit, SetCons, TypeOK
  <2>3. RowInv(o, orders[o])' /\ RowInv(o, consCopy[o])'
    BY <1>0, <1>2, <2>1, <2>2, Transitions, FreshRows DEF RowInv, Prepared
  <2>4. CopyInv(o)'
    BY <1>0, <2>2, <2>3 DEF OrderInv, CopyInv, RowInv
  <2>5. ConfirmInv(o)'
    BY <1>0, <1>2, <2>2, Transitions DEF OrderInv, RowInv, ConfirmInv
  <2> QED
    BY <1>1, <2>4, <2>5 DEF OrderInv
<1>7. CASE ConsumeFail(o)
  <2>1. UNCHANGED <<orders, confirmedEvents>>
    BY <1>7 DEF ConsumeFail
  <2>2. consPc'[o] = "idle" /\ consCopy'[o] = AbsentOrder
    BY <1>7 DEF ConsumeFail, SetCons, TypeOK
  <2>3. CopyInv(o)' /\ ConfirmInv(o)'
    BY <1>0, <1>2, <2>1, <2>2, FreshRows DEF OrderInv, CopyInv, RowInv, ConfirmInv
  <2> QED
    BY <1>1, <2>3 DEF OrderInv
<1> QED
  BY <1>3, <1>4, <1>5, <1>6, <1>7 DEF ConsumerStep

LEMMA StepInv == IInv /\ [Next]_vars => IInv'
<1> SUFFICES ASSUME IInv, [Next]_vars, NEW p \in Orders
             PROVE  OrderInv(p)'
  BY StepType DEF IInv
<1> USE DEF IInv
<1>1. CASE FillCart \/ UNCHANGED vars
  <2>1. SameAt(p)
    BY <1>1 DEF SameAt, FillCart, vars, orderDb, paymentDb, gateway, starting, requests,
       webhooks, consumer
  <2> QED
    BY <2>1, SameKeepsInv
<1>2. ASSUME NEW o \in Orders, StepOf(o)
      PROVE  OrderInv(p)'
  <2>1. CASE p = o
    BY <1>2, <2>1, CheckoutInv, CreatePaymentInv, RequestInv, MollieInv, WebhookInv,
       ConsumerInv DEF StepOf
  <2>2. CASE p # o
    BY <1>2, <2>2, OthersSame, SameKeepsInv
  <2> QED
    BY <2>1, <2>2
<1> QED
  BY <1>1, <1>2 DEF Next, StepOf

LEMMA Inductive == Spec => []IInv
  BY InitInv, StepInv, PTL DEF Spec

-----------------------------------------------------------------------------
(* Safety                                                                  *)

(* What the restaurant works on has been paid: for any number of racing    *)
(* cancellations, owner requests, webhook deliveries and faults.           *)
THEOREM Prepared_Paid == Spec => []PreparedOnlyIfPaid
<1>1. IInv => PreparedOnlyIfPaid
  BY UnpaidUnconfirmed DEF IInv, OrderInv, CopyInv, RowInv, Prepared, PreparedOnlyIfPaid
<1> QED
  BY Inductive, <1>1, PTL

(* order.confirmed is recorded at most once per order, and was recorded    *)
(* for each order that got past pending with its payment.                  *)
THEOREM Confirmed_Once == Spec => []ConfirmedOnce
<1>1. IInv => ConfirmedOnce
  BY DEF IInv, OrderInv, CopyInv, RowInv, Prepared, ConfirmInv, ConfirmedOnce
<1> QED
  BY Inductive, <1>1, PTL

(* A settled payment agrees with Mollie.                                   *)
THEOREM Gateway_Agrees == Spec => []GatewayAgrees
<1>1. IInv => GatewayAgrees
  BY DEF IInv, OrderInv, GatewayInv, GatewayAgrees
<1> QED
  BY Inductive, <1>1, PTL

(* A linked order's payment is known to Mollie and to payment-service.     *)
THEOREM Linked_Payable == Spec => []LinkedIsPayable
<1>1. IInv => LinkedIsPayable
  BY DEF IInv, OrderInv, StartInv, CopyInv, RowInv, LinkedIsPayable
<1> QED
  BY Inductive, <1>1, PTL

(* No interleaving of whole-row saves leaves an incoherent orders row.     *)
THEOREM Row_Coherent == Spec => []RowCoherent
<1>1. IInv => RowCoherent
  BY DEF IInv, OrderInv, CopyInv, RowInv, RowCoherent
<1> QED
  BY Inductive, <1>1, PTL

-----------------------------------------------------------------------------
(* Action property and refinement                                          *)

(* Who may write a pending row: only Checkout, before it has answered.     *)
LEMMA PendingWriter ==
  ASSUME IInv, NEW o \in Orders, StepOf(o), checkout[o] = "done"
  PROVE  orders'[o] = orders[o] \/ orders'[o].status # "pending"
<1> USE DEF orderDb, paymentDb, gateway, starting, requests, webhooks, consumer
<1>0. /\ TypeOK
      /\ consCopy[o] \in OrderRow /\ Coherent(consCopy[o])
      /\ \A s \in Slots : reqCopy[o][s] \in OrderRow /\ Coherent(reqCopy[o][s])
  BY DEF IInv, OrderInv, CopyInv, RowInv, TypeOK
<1>1. \A row \in OrderRow : \A st : Coherent(row) => MoveTo(row, st).status = st
  BY Transitions
<1>2. CASE CheckoutStep(o)
  BY <1>2 DEF CheckoutStep, CheckoutLoad, CheckoutReject, CheckoutCommit, CheckoutSave,
     CheckoutReply, CheckoutFail
<1>3. ASSUME NEW s \in Slots, RequestStep(o, s)
      PROVE  orders'[o] = orders[o] \/ orders'[o].status # "pending"
  <2>1. CASE orders' = orders
    BY <2>1
  <2>2. CASE orders' # orders
    <3>1. PICK st \in {"cancelled", "ready", "completed"} :
            orders' = [orders EXCEPT ![o] = MoveTo(reqCopy[o][s], st)]
      BY <1>3, <2>2 DEF RequestStep, CancelLoad, CancelCheck, CancelSave, CancelVoid,
         MarkReadyLoad, MarkReadySave, CompleteLoad, CompleteSave, RequestFail
    <3> QED
      BY <1>0, <1>1, <3>1 DEF TypeOK
  <2> QED
    BY <2>1, <2>2
<1>4. CASE ConsumerStep(o)
  <2>1. CASE orders' = orders
    BY <2>1
  <2>2. CASE orders' # orders
    <3>1. PICK st \in {"cancelled", "confirmed"} :
            orders' = [orders EXCEPT ![o] = MoveTo(consCopy[o], st)]
      BY <1>4, <2>2 DEF ConsumerStep, ConsumeSucceeded, ConfirmCommit, ConsumeFailed,
         CancelCommit, ConsumeFail
    <3> QED
      BY <1>0, <1>1, <3>1 DEF TypeOK
  <2> QED
    BY <2>1, <2>2
<1>5. CASE CreatePaymentStep(o) \/ MollieSettles(o) \/ \E h \in Hooks : WebhookStep(o, h)
  BY <1>5 DEF CreatePaymentStep, CreatePaymentRow, CallGateway, AttachGatewayReference,
     CreatePaymentFail, MollieSettles, WebhookStep, WebhookLoad, WebhookStatus, WebhookCommit,
     WebhookFail
<1> QED
  BY <1>2, <1>3, <1>4, <1>5 DEF StepOf

(* An order whose URL was handed out never comes back to pending.          *)
THEOREM Never_Reopened == Spec => NeverReopened
<1>1. ASSUME IInv, [Next]_vars
      PROVE  [\A o \in Orders : checkout[o] = "done" /\ orders[o].status # "pending"
                 => orders'[o].status # "pending"]_vars
  <2>1. SUFFICES ASSUME Next, NEW p \in Orders, checkout[p] = "done", orders[p].status # "pending"
                 PROVE  orders'[p].status # "pending"
    BY <1>1
  <2>2. CASE FillCart
    BY <2>1, <2>2 DEF FillCart
  <2>3. ASSUME NEW o \in Orders, StepOf(o)
        PROVE  orders'[p].status # "pending"
    <3>1. CASE p = o
      BY <1>1, <2>1, <2>3, <3>1, PendingWriter
    <3>2. CASE p # o
      BY <1>1, <2>1, <2>3, <3>2, OthersSame DEF IInv, SameAt
    <3> QED
      BY <3>1, <3>2
  <2> QED
    BY <2>1, <2>2, <2>3 DEF Next, StepOf
<1> QED
  BY Inductive, <1>1, PTL DEF Spec, NeverReopened

(* What a step of the payment at o does to what the specification sees.    *)
LEMMA OutcomeStep ==
  ASSUME IInv, NEW o \in Orders, StepOf(o)
  PROVE  \/ payments' = payments /\ paymentEvents' = paymentEvents
         \/ /\ payments[o].status = "absent"
            /\ payments' = [payments EXCEPT ![o] = [status |-> "pending", gw |-> FALSE]]
            /\ paymentEvents' = paymentEvents
         \/ /\ payments[o].status = "pending"
            /\ payments' = [payments EXCEPT ![o] = [status |-> "pending", gw |-> TRUE]]
            /\ paymentEvents' = paymentEvents
         \/ \E result \in {"succeeded", "failed"} :
              /\ payments[o].status \in {"pending", result}
              /\ payments[o].status = result => paymentEvents[o] = {EventOf(result)}
              /\ payments[o].status = "pending" => paymentEvents[o] = {}
              /\ payments' = [payments EXCEPT ![o] = [status |-> result, gw |-> TRUE]]
              /\ paymentEvents' = [paymentEvents EXCEPT ![o] = @ \cup {EventOf(result)}]
<1> USE DEF orderDb, paymentDb, gateway, starting, requests, webhooks, consumer
<1>1. CASE CreatePaymentStep(o)
  BY <1>1 DEF CreatePaymentStep, CreatePaymentRow, CallGateway, AttachGatewayReference,
     CreatePaymentFail, IInv, OrderInv, StartInv, AbsentPayment
<1>2. ASSUME NEW h \in Hooks, WebhookCommit(o, h)
      PROVE  \E result \in {"succeeded", "failed"} :
               /\ payments[o].status \in {"pending", result}
               /\ payments[o].status = result => paymentEvents[o] = {EventOf(result)}
               /\ payments[o].status = "pending" => paymentEvents[o] = {}
               /\ payments' = [payments EXCEPT ![o] = [status |-> result, gw |-> TRUE]]
               /\ paymentEvents' = [paymentEvents EXCEPT ![o] = @ \cup {EventOf(result)}]
  <2>1. hookPc[o][h] \in {"succeeded", "failed"} /\ hookPc[o][h] = MapMollieStatus(mollie[o])
        /\ payments[o].gw
    BY <1>2 DEF WebhookCommit, IInv, OrderInv, GatewayInv
  <2>2. payments[o].status \in {"pending", hookPc[o][h]}
    BY <2>1 DEF IInv, OrderInv, GatewayInv, StartInv, Settled, TypeOK, PaymentRow,
       PaymentStatus, RpcPc, AbsentPayment
  <2>3. /\ payments[o].status = hookPc[o][h] => paymentEvents[o] = {EventOf(hookPc[o][h])}
        /\ payments[o].status = "pending" => paymentEvents[o] = {}
    BY <2>1 DEF IInv, OrderInv, GatewayInv, Settled
  <2> QED
    BY <1>2, <2>1, <2>2, <2>3 DEF WebhookCommit
<1>3. CASE CheckoutStep(o) \/ ConsumerStep(o) \/ MollieSettles(o) \/ \E s \in Slots : RequestStep(o, s)
  BY <1>3 DEF CheckoutStep, CheckoutLoad, CheckoutReject, CheckoutCommit, CheckoutSave,
     CheckoutReply, CheckoutFail, ConsumerStep, ConsumeSucceeded, ConfirmCommit, ConsumeFailed,
     CancelCommit, ConsumeFail, MollieSettles, RequestStep, CancelLoad, CancelCheck, CancelSave,
     CancelVoid, MarkReadyLoad, MarkReadySave, CompleteLoad, CompleteSave, RequestFail
<1>4. ASSUME NEW h \in Hooks, WebhookStep(o, h), ~WebhookCommit(o, h)
      PROVE  payments' = payments /\ paymentEvents' = paymentEvents
  BY <1>4 DEF WebhookStep, WebhookLoad, WebhookStatus, WebhookFail
<1> QED
  BY <1>1, <1>2, <1>3, <1>4 DEF StepOf

(* payment-service, with its overlapping webhook deliveries and its whole- *)
(* row saves, implements the one-outcome promise of PaymentOutcome.        *)
THEOREM Implements_Outcome == Spec => KeepsPaymentOutcome
<1>1. Init => Outcome!Init
  BY DEF Init, Outcome!Init, AbsentPayment
<1>2. ASSUME IInv, [Next]_vars
      PROVE  [Outcome!Next]_<<[o \in Orders |-> payments[o].status], paymentEvents>>
  <2> DEFINE view == [o \in Orders |-> payments[o].status]
  <2>1. CASE FillCart \/ UNCHANGED vars
    BY <2>1 DEF FillCart, vars, paymentDb
  <2>2. ASSUME NEW o \in Orders, StepOf(o)
        PROVE  [Outcome!Next]_<<view, paymentEvents>>
    <3>0. TypeOK
      BY <1>2 DEF IInv
    <3>1. CASE payments' = payments /\ paymentEvents' = paymentEvents
      BY <3>1
    <3>2. ASSUME payments[o].status = "absent",
                 payments' = [payments EXCEPT ![o] = [status |-> "pending", gw |-> FALSE]],
                 paymentEvents' = paymentEvents
          PROVE  Outcome!Next
      <4>1. view' = [view EXCEPT ![o] = "pending"]
        BY <3>0, <3>2 DEF TypeOK
      <4> QED
        BY <3>2, <4>1 DEF Outcome!Next, Outcome!Open
    <3>3. ASSUME payments[o].status = "pending",
                 payments' = [payments EXCEPT ![o] = [status |-> "pending", gw |-> TRUE]],
                 paymentEvents' = paymentEvents
          PROVE  UNCHANGED <<view, paymentEvents>>
      BY <3>0, <3>3 DEF TypeOK
    <3>4. ASSUME NEW result \in {"succeeded", "failed"},
                 payments[o].status \in {"pending", result},
                 payments[o].status = result => paymentEvents[o] = {EventOf(result)},
                 payments[o].status = "pending" => paymentEvents[o] = {},
                 payments' = [payments EXCEPT ![o] = [status |-> result, gw |-> TRUE]],
                 paymentEvents' = [paymentEvents EXCEPT ![o] = @ \cup {EventOf(result)}]
          PROVE  [Outcome!Next]_<<view, paymentEvents>>
      <4>1. view' = [view EXCEPT ![o] = result]
        BY <3>0, <3>4 DEF TypeOK
      <4>2. paymentEvents' = [paymentEvents EXCEPT ![o] = {EventOf(result)}]
        BY <3>0, <3>4 DEF TypeOK
      <4>3. CASE payments[o].status = "pending"
        <5>1. Outcome!Settle(o, result)
          BY <4>1, <4>2, <4>3 DEF Outcome!Settle, Outcome!EventOf, EventOf
        <5> QED
          BY <3>4, <5>1 DEF Outcome!Next
      <4>4. CASE payments[o].status = result
        <5>1. view' = view /\ paymentEvents' = paymentEvents
          BY <3>0, <3>4, <4>1, <4>2, <4>4 DEF TypeOK
        <5> QED
          BY <5>1
      <4> QED
        BY <3>4, <4>3, <4>4
    <3> QED
      BY <1>2, <2>2, <3>1, <3>2, <3>3, <3>4, OutcomeStep
  <2> QED
    BY <1>2, <2>1, <2>2 DEF Next, StepOf
<1> QED
  BY Inductive, <1>1, <1>2, PTL DEF Spec, KeepsPaymentOutcome, Outcome!Spec
=============================================================================
