------------------------------ MODULE MCFtpPool ------------------------------
(* The instance of FtpPool for TLC: the downloads are model values of the    *)
(* configuration; it checks liveness, so that no symmetry is declared.        *)
EXTENDS FtpPool
=============================================================================
