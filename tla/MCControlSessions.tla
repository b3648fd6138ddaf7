------------------------- MODULE MCControlSessions -------------------------
(* Two connections, an edit and a disable of one Target.  The inspection    *)
(* belongs to one of the connections.                                       *)
EXTENDS ControlSessions, TLC

CONSTANTS edit, disable, s1, s2, i1

MCKind == (edit :> "target") @@ (disable :> "target")

MCClient == i1 :> s1
=============================================================================
