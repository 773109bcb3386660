----------------------------- MODULE MCDeltaSync -----------------------------
(* The instance of DeltaSync for TLC: files, runs and workers are model       *)
(* values of the configuration; it checks liveness, so that no symmetry is    *)
(* declared.                                                                  *)
EXTENDS DeltaSync
=============================================================================
