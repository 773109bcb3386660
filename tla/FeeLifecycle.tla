---------------------------- MODULE FeeLifecycle ----------------------------
(***************************************************************************)
(* What a service fee promises, whatever requests and webhooks do to its   *)
(* row: one atomic step per business event, following the VALID_TRANSITIONS *)
(* table of service-fees.service.ts.  ServiceFees is shown to implement it  *)
(* when the requests on a fee do not overlap.                               *)
(***************************************************************************)
EXTENDS Integers

CONSTANT Amounts   \* the amounts, in cents, a fee may carry

VARIABLES status, amount, refunded

feeVars == <<status, amount, refunded>>

Statuses == {"draft", "sent", "paid", "partially_refunded", "refunded",
             "cancelled"}

\* A deleted fee has no row left; the model keeps it as a seventh status.
Deleted == "deleted"

ValidTransitions ==
    [draft              |-> {"sent", "cancelled"},
     sent               |-> {"paid", "cancelled"},
     paid               |-> {"partially_refunded", "refunded"},
     partially_refunded |-> {"refunded"},
     refunded           |-> {},
     cancelled          |-> {},
     deleted            |-> {}]

\* The status a refund total gives a fee of the given amount.
RefundStatus(total, of) == IF total >= of THEN "refunded" ELSE "partially_refunded"

Init == status = "draft" /\ amount \in Amounts /\ refunded = 0

\* While it is a draft a fee may change its amount or disappear.
Edit ==
    /\ status = "draft"
    /\ amount' \in Amounts
    /\ UNCHANGED <<status, refunded>>

Remove ==
    /\ status = "draft"
    /\ status' = Deleted /\ amount' = 0 /\ refunded' = 0

\* Sending, paying and cancelling follow the table and touch no money.
Advance ==
    /\ status' \in ValidTransitions[status] \cap {"sent", "paid", "cancelled"}
    /\ UNCHANGED <<amount, refunded>>

\* A refund raises the total, never past the amount, and the status says
\* whether anything is left to refund.
Refund ==
    /\ status \in {"paid", "partially_refunded"}
    /\ refunded' \in (refunded + 1) .. amount
    /\ status' = RefundStatus(refunded', amount)
    /\ UNCHANGED amount

Next == Edit \/ Remove \/ Advance \/ Refund

Spec == Init /\ [][Next]_feeVars
=============================================================================
