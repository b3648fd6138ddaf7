---------------------------- MODULE MCTargetViews ----------------------------
(* TLC instances of TargetViews. *)
EXTENDS TargetViews, TLC
=============================================================================
