--------------------------- MODULE Payment_proofs ---------------------------
(***************************************************************************)
(* Proofs about Payment, for any number of webhook deliveries, gateway     *)
(* payments and faults.  What an overlapping CreatePayment cannot break is *)
(* proved for any set of Calls, the rest for calls one at a time (OneCall, *)
(* a hypothesis of those theorems: any number of calls follow each other). *)
(***************************************************************************)
EXTENDS Payment, TLAPS

-----------------------------------------------------------------------------
(* The inductive invariants                                                *)

(* A delivery that made up its mind was told so by Mollie, and Mollie's    *)
(* final statuses are final.                                               *)
HookInv(h) ==
  /\ hooks[h].pc # "idle" => hooks[h].copy.gw \in Gateways
  /\ hooks[h].pc = "succeeded" => mollie[hooks[h].copy.gw] = "paid"
  /\ hooks[h].pc = "failed" => mollie[hooks[h].copy.gw] \in {"canceled", "expired"}

GatewayInv == EventsAreReal /\ \A h \in Hooks : HookInv(h)

(* A call attaches, or asks about, a payment that Mollie has made.         *)
CallRef(c) ==
  /\ calls[c].pc = "attach" => calls[c].gw \in Gateways
  /\ calls[c].pc = "replay" => calls[c].copy.gw \in Gateways

TypeInv == TypeOK /\ \A c \in Calls : CallRef(c)

AnyCallsInv == TypeInv /\ GatewayInv

(* One call at a time: what it loaded is still the row, it only goes to    *)
(* the gateway for a row without a reference, and no delivery can have     *)
(* found that row.                                                         *)
CallInv(c) ==
  /\ calls[c].pc = "insert" => row.status = "absent"
  /\ calls[c].pc \in {"gateway", "attach"} =>
       row.status # "absent" /\ row.gw = NoGateway /\ calls[c].copy = row
  /\ calls[c].pc = "replay" => calls[c].copy.gw = row.gw

RowInv ==
  /\ row.status = "absent" => row.gw = NoGateway
  /\ row.status \in {"succeeded", "failed"} =>
       row.gw \in Gateways /\ row.status = MapMollieStatus(mollie[row.gw])
  /\ events = IF row.status \in {"succeeded", "failed"} THEN {EventOf(row.status)} ELSE {}

OneCallInv ==
  /\ AnyCallsInv
  /\ RowInv
  /\ PayableIsReferenced
  /\ \A c \in Calls : CallInv(c)
  /\ \A h \in Hooks : hooks[h].pc # "idle" => hooks[h].copy.gw = row.gw

OneCall == \A c, d \in Calls : c = d

-----------------------------------------------------------------------------
(* Type correctness                                                        *)

(* The rows and program counters that the actions build are well typed.    *)
LEMMA Types ==
  /\ Absent \in Row /\ IdleCall \in Call /\ IdleHook \in Hook
  /\ \A st \in PaymentStatus, g \in NullableId : [status |-> st, gw |-> g] \in Row
  /\ \A outcome \in PaymentStatus : EventOf(outcome) \in PaymentEvents
  /\ \A st \in MollieStatus : MapMollieStatus(st) \in PaymentStatus
  BY DEF Absent, IdleCall, IdleHook, Row, Call, Hook, NullableId, PaymentStatus, EventOf,
         PaymentEvents, MollieStatus, MapMollieStatus

(* A call moves on well typed, and only attaches what it may attach.       *)
LEMMA SetCallType ==
  ASSUME TypeInv, NEW c \in Calls, NEW pc \in {"idle", "insert", "gateway", "attach", "replay"},
         NEW copy \in Row, NEW gw \in NullableId, SetCall(c, pc, copy, gw),
         pc = "attach" => gw \in Gateways,
         pc = "replay" => copy.gw \in Gateways
  PROVE  calls' \in [Calls -> Call] /\ \A d \in Calls : CallRef(d)'
  BY DEF TypeInv, TypeOK, SetCall, Call, CallRef

LEMMA SetHookType ==
  ASSUME TypeOK, NEW h \in Hooks, NEW pc \in {"idle", "status", "succeeded", "failed"},
         NEW copy \in Row, NEW owed \in BOOLEAN, SetHook(h, pc, copy, owed)
  PROVE  hooks' \in [Hooks -> Hook]
  BY DEF TypeOK, SetHook, Hook

LEMMA CallType ==
  ASSUME TypeInv, NEW c \in Calls, CallStep(c)
  PROVE  TypeInv'
<1> USE DEF TypeInv, TypeOK
<1>0. /\ calls[c] \in Call /\ NoGateway \in NullableId /\ Gateways \subseteq NullableId
      /\ row.gw # NoGateway => row.gw \in Gateways
  BY DEF NullableId, Row
<1>1. CASE LookUp(c)
  BY <1>0, <1>1, Types, SetCallType DEF LookUp
<1>2. CASE InsertRow(c)
  <2>1. [status |-> "pending", gw |-> NoGateway] \in Row
    BY <1>0, Types DEF PaymentStatus
  <2> QED
    BY <1>0, <1>2, <2>1, Types, SetCallType DEF InsertRow
<1>3. ASSUME NEW g \in Gateways, CallGateway(c, g)
      PROVE  TypeInv'
  <2>1. calls[c].copy \in Row /\ g \in NullableId
    BY <1>0 DEF Call
  <2>2. calls' \in [Calls -> Call] /\ \A d \in Calls : CallRef(d)'
    BY <1>3, <2>1, SetCallType DEF CallGateway
  <2> QED
    BY <1>3, <2>2 DEF CallGateway, MollieStatus
<1>4. CASE Attach(c)
  <2>1. row' \in Row
    BY <1>0, <1>4 DEF Attach, Call, Row
  <2>2. payable' \subseteq Gateways /\ faults' \in Nat
    BY <1>0, <1>4 DEF Attach, CallRef, Fault
  <2> QED
    BY <1>0, <1>4, <2>1, <2>2, Types, SetCallType DEF Attach
<1>5. CASE Replay(c)
  <2>1. payable' \subseteq Gateways
    BY <1>5 DEF Replay, CallRef
  <2> QED
    BY <1>0, <1>5, <2>1, Types, SetCallType DEF Replay
<1>6. CASE CallFail(c)
  BY <1>0, <1>6, Types, SetCallType DEF CallFail, Fault
<1> QED
  BY <1>1, <1>2, <1>3, <1>4, <1>5, <1>6 DEF CallStep

LEMMA WebhookType ==
  ASSUME TypeInv, GatewayInv, NEW h \in Hooks, WebhookStep(h)
  PROVE  TypeInv'
<1> USE DEF TypeInv, TypeOK, CallRef
<1>0. hooks[h] \in Hook /\ hooks[h].copy \in Row /\ hooks[h].owed \in BOOLEAN
  BY DEF Hook
<1>1. ASSUME NEW g \in Gateways, WebhookLookUp(h, g)
      PROVE  TypeInv'
  <2>1. (g \in hookDue) \in BOOLEAN
    OBVIOUS
  <2>2. CASE SetHook(h, "status", row, g \in hookDue)
    <3>1. hooks' \in [Hooks -> Hook]
      BY <2>1, <2>2 DEF SetHook, Hook
    <3> QED
      BY <1>1, <3>1 DEF WebhookLookUp
  <2>3. CASE UNCHANGED hooks
    BY <1>1, <2>3 DEF WebhookLookUp
  <2> QED
    BY <1>1, <2>2, <2>3 DEF WebhookLookUp
<1>2. CASE WebhookStatus(h)
  <2>1. MapMollieStatus(mollie[hooks[h].copy.gw]) \in PaymentStatus
    BY <1>2, Types DEF WebhookStatus, GatewayInv, HookInv
  <2>2. hooks' \in [Hooks -> Hook]
    BY <1>0, <1>2, <2>1, Types, SetHookType DEF WebhookStatus, PaymentStatus
  <2> QED
    BY <1>2, <2>2 DEF WebhookStatus
<1>3. CASE WebhookCommit(h)
  <2>1. row' \in Row /\ events' \subseteq PaymentEvents
    BY <1>0, <1>3, Types DEF WebhookCommit, Row, PaymentStatus
  <2> QED
    BY <1>3, <2>1, Types DEF WebhookCommit, Answer200
<1>4. CASE WebhookFail(h)
  BY <1>4, Types DEF WebhookFail, Fault
<1> QED
  BY <1>1, <1>2, <1>3, <1>4 DEF WebhookStep

LEMMA GatewayType ==
  ASSUME TypeInv
  PROVE  /\ CancelLookUp => TypeInv'
         /\ CancelAtGateway => TypeInv'
         /\ \A g \in Gateways : MollieSettles(g) => TypeInv'
  BY DEF TypeInv, TypeOK, CallRef, CancelLookUp, CancelAtGateway, MollieSettles, NullableId,
         Row, MollieStatus

-----------------------------------------------------------------------------
(* Whatever overlaps                                                       *)

LEMMA MapMollie ==
  /\ MapMollieStatus("paid") = "succeeded"
  /\ \A st \in {"canceled", "expired"} : MapMollieStatus(st) = "failed"
  /\ \A st \in MollieStatus :
       /\ MapMollieStatus(st) = "succeeded" => st = "paid"
       /\ MapMollieStatus(st) = "failed" => st \in {"canceled", "expired"}
  BY DEF MapMollieStatus, MollieStatus

(* A payment that has ended at Mollie stays as it ended.                   *)
LEMMA FinalStays ==
  ASSUME TypeOK, [Next]_vars, NEW g \in Gateways, mollie[g] \in {"paid", "canceled", "expired"}
  PROVE  mollie'[g] = mollie[g]
  BY DEF TypeOK, Next, vars, CallStep, WebhookStep, LookUp, InsertRow, CallGateway, Attach,
         Replay, CallFail, CancelLookUp, CancelAtGateway, MollieSettles, WebhookLookUp,
         WebhookStatus, WebhookCommit, WebhookFail, NullableId

(* Steps that make no event and no decision keep the deliveries' facts.    *)
LEMMA QuietGateway ==
  ASSUME AnyCallsInv, [Next]_vars, UNCHANGED <<events, hooks>>
  PROVE  GatewayInv'
<1>1. EventsAreReal'
  BY FinalStays DEF AnyCallsInv, TypeInv, GatewayInv, EventsAreReal
<1>2. ASSUME NEW h \in Hooks
      PROVE  HookInv(h)'
  BY <1>2, FinalStays DEF AnyCallsInv, TypeInv, GatewayInv, HookInv
<1> QED
  BY <1>1, <1>2 DEF GatewayInv

LEMMA WebhookGateway ==
  ASSUME AnyCallsInv, NEW h \in Hooks, WebhookStep(h)
  PROVE  GatewayInv'
<1> USE DEF AnyCallsInv, TypeInv, GatewayInv
<1>0. [Next]_vars
  BY DEF Next
<1>1. ASSUME NEW g \in Gateways, WebhookLookUp(h, g)
      PROVE  GatewayInv'
  <2>1. EventsAreReal'
    BY <1>1 DEF WebhookLookUp, EventsAreReal
  <2>2. ASSUME NEW k \in Hooks
        PROVE  HookInv(k)'
    BY <1>1, <2>2 DEF WebhookLookUp, SetHook, HookInv, TypeOK, Hook
  <2> QED
    BY <2>1, <2>2
<1>2. CASE WebhookStatus(h)
  <2>1. EventsAreReal'
    BY <1>2 DEF WebhookStatus, EventsAreReal
  <2>2. hooks[h].copy.gw \in Gateways /\ mollie[hooks[h].copy.gw] \in MollieStatus
    BY <1>2 DEF WebhookStatus, HookInv, TypeOK
  <2>3. ASSUME NEW k \in Hooks
        PROVE  HookInv(k)'
    <3>1. CASE hooks' = [hooks EXCEPT ![h] = IdleHook]
      BY <1>2, <2>3, <3>1 DEF WebhookStatus, HookInv, TypeOK, IdleHook
    <3>2. CASE SetHook(h, MapMollieStatus(mollie[hooks[h].copy.gw]), hooks[h].copy,
                       hooks[h].owed)
      BY <1>2, <2>2, <2>3, <3>2, MapMollie DEF WebhookStatus, SetHook, HookInv, TypeOK
    <3> QED
      BY <1>2, <3>1, <3>2 DEF WebhookStatus
  <2> QED
    BY <2>1, <2>3
<1>3. CASE WebhookCommit(h)
  <2>1. EventsAreReal'
    BY <1>3 DEF WebhookCommit, EventsAreReal, HookInv, EventOf
  <2>2. ASSUME NEW k \in Hooks
        PROVE  HookInv(k)'
    BY <1>3, <2>2 DEF WebhookCommit, Answer200, HookInv, TypeOK, IdleHook
  <2> QED
    BY <2>1, <2>2
<1>4. CASE WebhookFail(h)
  <2>1. EventsAreReal'
    BY <1>4 DEF WebhookFail, EventsAreReal
  <2>2. ASSUME NEW k \in Hooks
        PROVE  HookInv(k)'
    BY <1>4, <2>2 DEF WebhookFail, HookInv, TypeOK, IdleHook
  <2> QED
    BY <2>1, <2>2
<1> QED
  BY <1>1, <1>2, <1>3, <1>4 DEF WebhookStep

LEMMA AnyCallsInit == Init => AnyCallsInv
<1> SUFFICES ASSUME Init
             PROVE  AnyCallsInv
  OBVIOUS
<1>1. TypeOK
  BY Types DEF Init, TypeOK, MollieStatus, NullableId
<1>2. (\A c \in Calls : CallRef(c)) /\ GatewayInv
  BY DEF Init, CallRef, GatewayInv, HookInv, EventsAreReal, IdleCall, IdleHook
<1> QED
  BY <1>1, <1>2 DEF AnyCallsInv, TypeInv

LEMMA AnyCallsStep == AnyCallsInv /\ [Next]_vars => AnyCallsInv'
<1> SUFFICES ASSUME AnyCallsInv, [Next]_vars
             PROVE  AnyCallsInv'
  OBVIOUS
<1>1. ASSUME NEW c \in Calls, CallStep(c)
      PROVE  AnyCallsInv'
  <2>1. UNCHANGED <<events, hooks>>
    BY <1>1 DEF CallStep, LookUp, InsertRow, CallGateway, Attach, Replay, CallFail
  <2> QED
    BY <1>1, <2>1, CallType, QuietGateway DEF AnyCallsInv
<1>2. CASE CancelLookUp \/ CancelAtGateway \/ \E g \in Gateways : MollieSettles(g)
  <2>1. UNCHANGED <<events, hooks>>
    BY <1>2 DEF CancelLookUp, CancelAtGateway, MollieSettles
  <2> QED
    BY <1>2, <2>1, GatewayType, QuietGateway DEF AnyCallsInv
<1>3. ASSUME NEW h \in Hooks, WebhookStep(h)
      PROVE  AnyCallsInv'
  BY <1>3, WebhookType, WebhookGateway DEF AnyCallsInv
<1>4. CASE UNCHANGED vars
  <2>1. TypeInv'
    BY <1>4 DEF AnyCallsInv, TypeInv, TypeOK, CallRef, vars
  <2> QED
    BY <1>4, <2>1, QuietGateway DEF AnyCallsInv, vars
<1> QED
  BY <1>1, <1>2, <1>3, <1>4 DEF Next

LEMMA AnyCallsInductive == Spec => []AnyCallsInv
  BY AnyCallsInit, AnyCallsStep, PTL DEF Spec

(* The type invariant, for any calls.                                      *)
THEOREM TypeCorrect == Spec => []TypeOK
<1>1. AnyCallsInv => TypeOK
  BY DEF AnyCallsInv, TypeInv
<1> QED
  BY AnyCallsInductive, <1>1, PTL

(* HandleMollieWebhook announces only outcomes that a payment at Mollie    *)
(* had, whatever overlapping CreatePayment calls write over the row.       *)
THEOREM Events_Real == Spec => []EventsAreReal
<1>1. AnyCallsInv => EventsAreReal
  BY DEF AnyCallsInv, GatewayInv
<1> QED
  BY AnyCallsInductive, <1>1, PTL

-----------------------------------------------------------------------------
(* Calls one at a time                                                     *)

(* Mollie's final statuses keep a settled row true.                        *)
LEMMA QuietRow ==
  ASSUME AnyCallsInv, RowInv, [Next]_vars, UNCHANGED <<row, events>>
  PROVE  RowInv'
<1>1. CASE row.status \in {"succeeded", "failed"}
  <2>1. row.gw \in Gateways /\ row.status = MapMollieStatus(mollie[row.gw])
    BY <1>1 DEF RowInv
  <2>2. mollie[row.gw] \in {"paid", "canceled", "expired"}
    BY <1>1, <2>1, MapMollie DEF AnyCallsInv, TypeInv, TypeOK
  <2>3. mollie'[row.gw] = mollie[row.gw]
    BY <2>1, <2>2, FinalStays DEF AnyCallsInv, TypeInv
  <2> QED
    BY <2>1, <2>3 DEF RowInv
<1>2. CASE row.status \notin {"succeeded", "failed"}
  BY <1>2 DEF RowInv
<1> QED
  BY <1>1, <1>2

(* CreatePayment makes, references and hands out one payment.              *)
LEMMA OneCallCreate ==
  ASSUME OneCall, OneCallInv, NEW c \in Calls, CallStep(c)
  PROVE  /\ RowInv' /\ PayableIsReferenced'
         /\ \A d \in Calls : CallInv(d)'
         /\ \A h \in Hooks : hooks'[h].pc # "idle" => hooks'[h].copy.gw = row'.gw
<1> DEFINE Goal == /\ RowInv' /\ PayableIsReferenced'
                   /\ \A d \in Calls : CallInv(d)'
                   /\ \A h \in Hooks : hooks'[h].pc # "idle" => hooks'[h].copy.gw = row'.gw
<1> USE DEF OneCallInv, PayableIsReferenced
<1>0. /\ TypeOK /\ [Next]_vars /\ AnyCallsInv /\ NoGateway \notin Gateways
      /\ payable \subseteq Gateways
      /\ \A h \in Hooks : hooks[h].pc # "idle" => row.gw # NoGateway
  BY PaymentAssumption DEF AnyCallsInv, TypeInv, GatewayInv, HookInv, TypeOK, Next
<1>1. CASE LookUp(c)
  <2>1. \A d \in Calls : CallInv(d)'
    BY <1>0, <1>1 DEF LookUp, CallInv, SetCall, OneCall, TypeOK
  <2> QED
    BY <1>0, <1>1, <2>1, QuietRow DEF LookUp
<1>2. CASE InsertRow(c)
  <2>1. CASE row.status = "absent"
    <3>1. row.gw = NoGateway /\ events = {}
      BY <2>1 DEF RowInv
    <3>2. row' = [status |-> "pending", gw |-> NoGateway]
      BY <1>2, <2>1 DEF InsertRow
    <3>3. \A d \in Calls : calls'[d].pc = "gateway" /\ calls'[d].copy = row'
      BY <1>0, <1>2, <2>1 DEF InsertRow, SetCall, OneCall, TypeOK
    <3> QED
      BY <1>0, <1>2, <3>1, <3>2, <3>3 DEF InsertRow, CallInv, RowInv
  <2>2. CASE row.status # "absent"
    <3>1. \A d \in Calls : calls'[d].pc = "idle"
      BY <1>0, <1>2, <2>2 DEF InsertRow, SetCall, OneCall, TypeOK
    <3> QED
      BY <1>0, <1>2, <2>2, <3>1, QuietRow DEF InsertRow, CallInv
  <2> QED
    BY <2>1, <2>2
<1>3. ASSUME NEW g \in Gateways, CallGateway(c, g)
      PROVE  Goal
  <2>1. \A d \in Calls : calls'[d].pc = "attach" /\ calls'[d].copy = calls[c].copy
    BY <1>0, <1>3 DEF CallGateway, SetCall, OneCall, TypeOK
  <2> QED
    BY <1>0, <1>3, <2>1, QuietRow DEF CallGateway, CallInv
<1>4. CASE Attach(c)
  <2>1. row.status # "absent" /\ row.gw = NoGateway /\ calls[c].copy = row
    BY <1>4 DEF Attach, CallInv
  <2>2. row.status \notin {"succeeded", "failed"} /\ events = {} /\ payable = {}
    BY <1>0, <2>1 DEF RowInv
  <2>3. row' = [status |-> row.status, gw |-> calls[c].gw]
    BY <1>4, <2>1 DEF Attach
  <2>4. \A d \in Calls : calls'[d].pc = "idle"
    BY <1>0, <1>4 DEF Attach, SetCall, OneCall, TypeOK
  <2>5. payable' \subseteq {calls[c].gw} /\ UNCHANGED <<events, hooks>>
    BY <1>4, <2>2 DEF Attach
  <2> QED
    BY <1>0, <2>1, <2>2, <2>3, <2>4, <2>5 DEF CallInv, RowInv
<1>5. CASE Replay(c)
  <2>1. \A d \in Calls : calls'[d].pc = "idle"
    BY <1>0, <1>5 DEF Replay, SetCall, OneCall, TypeOK
  <2>2. calls[c].copy.gw = row.gw
    BY <1>5 DEF Replay, CallInv
  <2> QED
    BY <1>0, <1>5, <2>1, <2>2, QuietRow DEF Replay, CallInv
<1>6. CASE CallFail(c)
  <2>1. \A d \in Calls : calls'[d].pc = "idle"
    BY <1>0, <1>6 DEF CallFail, SetCall, OneCall, TypeOK
  <2> QED
    BY <1>0, <1>6, <2>1, QuietRow DEF CallFail, CallInv
<1> QED
  BY <1>1, <1>2, <1>3, <1>4, <1>5, <1>6 DEF CallStep

(* What a delivery commits: the outcome of the payment the row refers to,  *)
(* over a pending row or over that very outcome.                           *)
LEMMA CommitOnce ==
  ASSUME OneCallInv, NEW h \in Hooks, WebhookCommit(h)
  PROVE  /\ row.gw \in Gateways
         /\ hooks[h].pc = MapMollieStatus(mollie[row.gw])
         /\ row' = [status |-> hooks[h].pc, gw |-> row.gw]
         /\ events' = {EventOf(hooks[h].pc)}
         /\ \/ row.status = "pending"
            \/ row.status = hooks[h].pc /\ events = events'
<1> USE DEF OneCallInv
<1>1. hooks[h].copy.gw = row.gw /\ row.gw \in Gateways
  BY DEF WebhookCommit, AnyCallsInv, GatewayInv, HookInv
<1>2. hooks[h].pc = MapMollieStatus(mollie[row.gw])
  BY <1>1, MapMollie DEF WebhookCommit, AnyCallsInv, GatewayInv, HookInv
<1>3. row.status \in {"pending", "succeeded", "failed"}
  BY <1>1, PaymentAssumption DEF RowInv, AnyCallsInv, TypeInv, TypeOK, Row, PaymentStatus
<1>4. \/ row.status = "pending" /\ events = {}
      \/ row.status = hooks[h].pc /\ events = {EventOf(hooks[h].pc)}
  BY <1>2, <1>3 DEF RowInv
<1> QED
  BY <1>1, <1>2, <1>3, <1>4 DEF WebhookCommit

LEMMA OneCallWebhook ==
  ASSUME OneCall, OneCallInv, NEW h \in Hooks, WebhookStep(h)
  PROVE  /\ RowInv' /\ PayableIsReferenced'
         /\ \A d \in Calls : CallInv(d)'
         /\ \A k \in Hooks : hooks'[k].pc # "idle" => hooks'[k].copy.gw = row'.gw
<1> DEFINE Goal == /\ RowInv' /\ PayableIsReferenced'
                   /\ \A d \in Calls : CallInv(d)'
                   /\ \A k \in Hooks : hooks'[k].pc # "idle" => hooks'[k].copy.gw = row'.gw
<1> USE DEF OneCallInv, PayableIsReferenced
<1>0. TypeOK /\ [Next]_vars /\ AnyCallsInv /\ NoGateway \notin Gateways
  BY PaymentAssumption DEF AnyCallsInv, TypeInv, Next
<1>1. ASSUME NEW g \in Gateways, WebhookLookUp(h, g)
      PROVE  Goal
  <2>1. \A k \in Hooks : hooks'[k].pc # "idle" => hooks'[k].copy.gw = row.gw
    BY <1>0, <1>1 DEF WebhookLookUp, SetHook, TypeOK
  <2> QED
    BY <1>0, <1>1, <2>1, QuietRow DEF WebhookLookUp, CallInv
<1>2. CASE WebhookStatus(h)
  <2>1. \A k \in Hooks : hooks'[k].pc # "idle" => hooks'[k].copy.gw = row.gw
    BY <1>0, <1>2 DEF WebhookStatus, SetHook, TypeOK, IdleHook
  <2> QED
    BY <1>0, <1>2, <2>1, QuietRow DEF WebhookStatus, CallInv
<1>3. CASE WebhookCommit(h)
  <2>1. /\ row.gw \in Gateways /\ row'.gw = row.gw /\ row'.status = hooks[h].pc
        /\ hooks[h].pc \in {"succeeded", "failed"}
        /\ hooks[h].pc = MapMollieStatus(mollie[row.gw])
        /\ events' = {EventOf(hooks[h].pc)}
        /\ UNCHANGED <<mollie, payable, calls>>
    BY <1>3, CommitOnce DEF WebhookCommit
  <2>2. RowInv'
    BY <2>1 DEF RowInv
  <2>3. \A d \in Calls : CallInv(d)'
    BY <1>0, <2>1 DEF CallInv, RowInv
  <2>4. \A k \in Hooks : hooks'[k].pc # "idle" => hooks'[k].copy.gw = row.gw
    BY <1>0, <1>3 DEF WebhookCommit, Answer200, TypeOK, IdleHook
  <2> QED
    BY <2>1, <2>2, <2>3, <2>4
<1>4. CASE WebhookFail(h)
  <2>1. \A k \in Hooks : hooks'[k].pc # "idle" => hooks'[k].copy.gw = row.gw
    BY <1>0, <1>4 DEF WebhookFail, TypeOK, IdleHook
  <2> QED
    BY <1>0, <1>4, <2>1, QuietRow DEF WebhookFail, CallInv
<1> QED
  BY <1>1, <1>2, <1>3, <1>4 DEF WebhookStep

(* CancelPayment and Mollie write no row.                                  *)
LEMMA OneCallGateway ==
  ASSUME OneCallInv, [Next]_vars, UNCHANGED <<row, events, payable, calls, hooks>>
  PROVE  /\ RowInv' /\ PayableIsReferenced'
         /\ \A d \in Calls : CallInv(d)'
         /\ \A h \in Hooks : hooks'[h].pc # "idle" => hooks'[h].copy.gw = row'.gw
  BY QuietRow DEF OneCallInv, PayableIsReferenced, CallInv

LEMMA OneCallInit == Init => OneCallInv
  BY AnyCallsInit
  DEF Init, OneCallInv, RowInv, PayableIsReferenced, CallInv, Absent, IdleCall, IdleHook

LEMMA OneCallStep == OneCall /\ OneCallInv /\ [Next]_vars => OneCallInv'
<1> SUFFICES ASSUME OneCall, OneCallInv, [Next]_vars
             PROVE  OneCallInv'
  OBVIOUS
<1>0. AnyCallsInv'
  BY AnyCallsStep DEF OneCallInv
<1>1. ASSUME NEW c \in Calls, CallStep(c)
      PROVE  OneCallInv'
  BY <1>0, <1>1, OneCallCreate DEF OneCallInv
<1>2. ASSUME NEW h \in Hooks, WebhookStep(h)
      PROVE  OneCallInv'
  BY <1>0, <1>2, OneCallWebhook DEF OneCallInv
<1>3. CASE CancelLookUp \/ CancelAtGateway \/ \E g \in Gateways : MollieSettles(g)
  <2>1. UNCHANGED <<row, events, payable, calls, hooks>>
    BY <1>3 DEF CancelLookUp, CancelAtGateway, MollieSettles
  <2> QED
    BY <1>0, <2>1, OneCallGateway DEF OneCallInv
<1>4. CASE UNCHANGED vars
  BY <1>0, <1>4, OneCallGateway DEF OneCallInv, vars
<1> QED
  BY <1>1, <1>2, <1>3, <1>4 DEF Next

LEMMA OneCallInductive ==
  ASSUME OneCall
  PROVE  Spec => []OneCallInv
<1>1. OneCallInv /\ [Next]_vars => OneCallInv'
  BY OneCallStep
<1> QED
  BY <1>1, OneCallInit, PTL DEF Spec

(* CreatePayment's three branches: however its calls fail and are repeated *)
(* one after the other, the customer can pay only what the row refers to.  *)
THEOREM Payable_Referenced ==
  ASSUME OneCall
  PROVE  Spec => []PayableIsReferenced
<1>1. OneCallInv => PayableIsReferenced
  BY DEF OneCallInv
<1> QED
  BY OneCallInductive, <1>1, PTL

(* A step of payment-service opens the payment, settles it together with   *)
(* its event, or leaves both alone.                                        *)
LEMMA OutcomeStep ==
  ASSUME OneCall, OneCallInv, [Next]_vars
  PROVE  \/ UNCHANGED <<row.status, events>>
         \/ row.status = "absent" /\ row'.status = "pending" /\ UNCHANGED events
         \/ /\ row.status = "pending"
            /\ \E result \in {"succeeded", "failed"} :
                 row'.status = result /\ events' = {EventOf(result)}
<1>1. ASSUME NEW c \in Calls, Attach(c)
      PROVE  UNCHANGED <<row.status, events>>
  BY <1>1 DEF Attach, OneCallInv, CallInv
<1>2. ASSUME NEW h \in Hooks, WebhookCommit(h)
      PROVE  \/ UNCHANGED <<row.status, events>>
             \/ /\ row.status = "pending"
                /\ \E result \in {"succeeded", "failed"} :
                     row'.status = result /\ events' = {EventOf(result)}
  <2>1. hooks[h].pc \in {"succeeded", "failed"}
    BY <1>2 DEF WebhookCommit
  <2> QED
    BY <1>2, <2>1, CommitOnce
<1>3. ASSUME NEW c \in Calls, InsertRow(c)
      PROVE  \/ UNCHANGED <<row.status, events>>
             \/ row.status = "absent" /\ row'.status = "pending" /\ UNCHANGED events
  BY <1>3 DEF InsertRow
<1>4. CASE UNCHANGED <<row, events>>
  BY <1>4
<1>5. \/ UNCHANGED <<row, events>>
      \/ \E c \in Calls : Attach(c) \/ InsertRow(c)
      \/ \E h \in Hooks : WebhookCommit(h)
  BY DEF Next, vars, CallStep, WebhookStep, LookUp, CallGateway, Replay, CallFail, CancelLookUp,
         CancelAtGateway, MollieSettles, WebhookLookUp, WebhookStatus, WebhookFail
<1> QED
  BY <1>1, <1>2, <1>3, <1>4, <1>5

(* With calls one at a time payment-service implements the one-outcome     *)
(* promise of PaymentOutcome in spite of CreatePayment's whole-row saves.  *)
THEOREM Implements_Outcome ==
  ASSUME OneCall
  PROVE  Spec => KeepsPaymentOutcome
<1>1. Init => Outcome!Init
  BY DEF Init, Outcome!Init, Absent
<1>2. ASSUME OneCallInv, [Next]_vars
      PROVE  [Outcome!Next]_<<[s \in {"subject"} |-> row.status], [s \in {"subject"} |-> events]>>
  <2>1. CASE UNCHANGED <<row.status, events>>
    BY <2>1
  <2>2. CASE row.status = "absent" /\ row'.status = "pending" /\ UNCHANGED events
    <3>1. Outcome!Open("subject")
      BY <2>2 DEF Outcome!Open
    <3> QED
      BY <3>1 DEF Outcome!Next
  <2>3. ASSUME row.status = "pending", NEW result \in {"succeeded", "failed"},
               row'.status = result, events' = {EventOf(result)}
        PROVE  Outcome!Next
    <3>1. Outcome!Settle("subject", result)
      BY <2>3 DEF Outcome!Settle, Outcome!EventOf, EventOf
    <3> QED
      BY <3>1 DEF Outcome!Next
  <2> QED
    BY <1>2, <2>1, <2>2, <2>3, OutcomeStep
<1> QED
  BY OneCallInductive, <1>1, <1>2, PTL DEF Spec, KeepsPaymentOutcome, Outcome!Spec
=============================================================================
