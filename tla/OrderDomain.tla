---------------------------- MODULE OrderDomain ----------------------------
(***************************************************************************)
(* The Order aggregate of order-service                                    *)
(* (internal/domain/order/order.go): a row of the orders table and the     *)
(* four methods that move it through its life.  A row is abstracted to     *)
(*   status   the status column, "absent" when there is no such row,       *)
(*   linked   whether payment_id is set,                                   *)
(*   stamps   which of confirmed_at, ready_at, completed_at, cancelled_at  *)
(*            are set.                                                     *)
(***************************************************************************)

OrderStatus == {"pending", "confirmed", "ready", "completed", "cancelled"}

OrderRow == [status : OrderStatus \cup {"absent"},
             linked : BOOLEAN,
             stamps : SUBSET {"confirmed", "ready", "completed", "cancelled"}]

AbsentOrder == [status |-> "absent", linked |-> FALSE, stamps |-> {}]

NewOrder == [status |-> "pending", linked |-> FALSE, stamps |-> {}]

(* Each definition below whose name ends in a slip's name is what a        *)
(* plausible mistake would make of the one after it; no action uses it.    *)

(* Every transition stamps its own timestamp.                              *)
MoveTo(row, status) == [row EXCEPT !.status = status, !.stamps = @ \cup {status}]

CanConfirm_again(row)     == row.status \in {"pending", "confirmed"}
CanMarkReady_unpaid(row)  == row.status \in {"pending", "confirmed"}

CanConfirm(row)   == row.status = "pending"
CanMarkReady(row) == row.status = "confirmed"
CanComplete(row)  == row.status \in {"confirmed", "ready"}
CanCancel(row)    == row.status = "pending"

(* A row whose timestamps tell a story its status can have.                *)
Coherent(row) ==
    \/ row.status \in {"absent", "pending"} /\ row.stamps = {}
    \/ row.status = "confirmed" /\ row.stamps = {"confirmed"}
    \/ row.status = "ready"     /\ row.stamps = {"confirmed", "ready"}
    \/ row.status = "completed" /\ row.stamps \in {{"confirmed", "completed"},
                                                   {"confirmed", "ready", "completed"}}
    \/ row.status = "cancelled" /\ row.stamps = {"cancelled"}
=============================================================================
