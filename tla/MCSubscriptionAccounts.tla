------------------------ MODULE MCSubscriptionAccounts ------------------------
(* A small instance of SubscriptionAccounts for TLC. *)
EXTENDS SubscriptionAccounts, TLC

CONSTANTS a1, a2, r1, r2, c1

MCAccounts == {a1, a2}
MCRequests == {r1, r2}
MCActions == {c1}

Symmetry == Permutations(MCAccounts) \cup Permutations(MCRequests)
=============================================================================
