------------------------ MODULE MCAuditedTransactions ------------------------
(* The instances of AuditedTransactions: TLC gives the requests and the      *)
(* connections as model values.  The runs check liveness, so that no         *)
(* symmetry is declared.                                                     *)
EXTENDS AuditedTransactions
=============================================================================
