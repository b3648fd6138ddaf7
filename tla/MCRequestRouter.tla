--------------------------- MODULE MCRequestRouter ---------------------------
(* The TLC instance of RequestRouter: one plan of two providers. *)
EXTENDS RequestRouter, TLC

CONSTANTS p1, p2

MCOnePlan == {<<p1, p2>>}
=============================================================================
