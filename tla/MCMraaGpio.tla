----------------------------- MODULE MCMraaGpio -----------------------------
(* The instance of MraaGpio that TLC checks.                              *)
EXTENDS MraaGpio

CONSTANTS d1, d2, p1
=============================================================================
