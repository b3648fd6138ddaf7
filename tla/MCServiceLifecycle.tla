-------------------------- MODULE MCServiceLifecycle --------------------------
(* A small instance of ServiceLifecycle for TLC. *)
EXTENDS ServiceLifecycle

CONSTANTS p1, p2, c1, c2
=============================================================================
