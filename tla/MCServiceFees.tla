---------------------------- MODULE MCServiceFees ----------------------------
(* Values of the constants of ServiceFees for TLC.                           *)
EXTENDS ServiceFees, TLC

InterleavedStripe == {"update", "cancel", "refund", "delete", "invoice", "stripeRefund", "webhook"}

Symmetry == Permutations(Requests) \cup Permutations(Invoices)
=============================================================================
