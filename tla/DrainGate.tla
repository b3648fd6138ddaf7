------------------------------ MODULE DrainGate ------------------------------
(***************************************************************************)
(* What a model server promises whoever stops it: nobody enters a gate that *)
(* is closing behind a reservation, one that is only told to end is never   *)
(* opened again but still takes what its connections bring, and no gate     *)
(* closes over a request.                                                   *)
(***************************************************************************)
CONSTANT Requests

VARIABLES gate, active

vars == <<gate, active>>

Init == gate = "open" /\ active = {}

Enter(r) ==
  /\ gate \in {"open", "ending"} /\ r \notin active
  /\ active' = active \union {r}
  /\ UNCHANGED gate

Exit(r) ==
  /\ r \in active
  /\ active' = active \ {r}
  /\ UNCHANGED gate

Closing == gate = "open" /\ gate' = "closing" /\ UNCHANGED active
Reopen  == gate = "closing" /\ gate' = "open" /\ UNCHANGED active
Ending  == gate = "open" /\ gate' = "ending" /\ UNCHANGED active
Closed  ==
  /\ gate \in {"closing", "ending"} /\ active = {}
  /\ gate' = "closed" /\ UNCHANGED active
Replace == gate = "closed" /\ gate' = "open" /\ UNCHANGED active

Next ==
  \/ \E r \in Requests : Enter(r) \/ Exit(r)
  \/ Closing \/ Reopen \/ Ending \/ Closed \/ Replace

Spec == Init /\ [][Next]_vars
=============================================================================
