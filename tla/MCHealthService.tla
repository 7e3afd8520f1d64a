--------------------------- MODULE MCHealthService ---------------------------
(* A small instance of HealthService for TLC. *)
EXTENDS HealthService

CONSTANTS t1, t2

TwoThreads == {t1, t2}
=============================================================================
