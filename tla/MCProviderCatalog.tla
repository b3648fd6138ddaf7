------------------------- MODULE MCProviderCatalog -------------------------
(* Two requests over both targets, one Universal Provider and room for a     *)
(* second, one secret: a credential is there or is not.                      *)
EXTENDS ProviderCatalog, TLC

CONSTANTS r1, r2, s1

MCRequests == {r1, r2}
MCValues == {1, 2}
MCSecrets == {s1}
Symmetric == Permutations(MCRequests)
=============================================================================
