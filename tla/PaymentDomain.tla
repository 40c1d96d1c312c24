--------------------------- MODULE PaymentDomain ---------------------------
(***************************************************************************)
(* The Payment aggregate of payment-service                                *)
(* (internal/domain/payment/payment.go) and the part of the payment        *)
(* gateway that payment-service relies on.                                 *)
(***************************************************************************)

PaymentStatus == {"pending", "succeeded", "failed"}

(* A payment at Mollie: "none" before it is created.  Mollie's "failed" is *)
(* not told apart from "expired".                                          *)
MollieStatus == {"none", "open", "paid", "canceled", "expired"}

(* The slip of treating every unpaid status as final; no action uses it.   *)
MapMollieStatus_eager(m) == IF m = "paid" THEN "succeeded" ELSE "failed"

(* mapMollieStatus: what GetStatus reports for a payment at Mollie.        *)
MapMollieStatus(m) ==
    CASE m = "paid"                    -> "succeeded"
      [] m \in {"canceled", "expired"} -> "failed"
      [] OTHER                         -> "pending"

(* MarkSucceeded and MarkFailed both insist on a pending payment.          *)
CanSettle(row) == row.status = "pending"

(* The event the webhook handler records for an outcome.                   *)
EventOf(outcome) == IF outcome = "succeeded" THEN "payment.succeeded"
                                             ELSE "payment.failed"
PaymentEvents == {"payment.succeeded", "payment.failed"}
=============================================================================
