------------------------------ MODULE ViewStore ------------------------------
(***************************************************************************)
(* What a Target's row in the store promises its readers: a view sequence  *)
(* names exactly one content of the view, and no change goes unnumbered.   *)
(***************************************************************************)
EXTENDS Naturals

CONSTANT Contents    \* what a Target View can show

VARIABLES content, view_sequence

vars == <<content, view_sequence>>

Init ==
  /\ content \in Contents
  /\ view_sequence = 0

Change ==
  /\ content' \in Contents \ {content}
  /\ view_sequence' = view_sequence + 1

Spec == Init /\ [][Change]_vars
=============================================================================
