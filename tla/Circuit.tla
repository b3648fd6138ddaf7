------------------------------- MODULE Circuit -------------------------------
(***************************************************************************)
(* The circuit breaker that guards one Target Provider inside the Routing  *)
(* Service (crates/routing-service/src/model/router.rs).  This module is   *)
(* pure: each operator maps the circuit a locked section finds to the      *)
(* circuit it leaves.  Time is abstracted to the one question the code     *)
(* asks of it, whether the 60 seconds since the circuit opened are over.   *)
(* Operators marked "Slip" are deliberate mistakes: each breaks a property  *)
(* that the operator defined after it keeps.                                *)
(***************************************************************************)
EXTENDS Naturals

CONSTANTS
  FailureLimit,   \* consecutive failures that open a circuit (4 in the code)
  RateWindow,     \* attempts before the error rate counts (10 in the code)
  ProbeLimit      \* half-open successes that close it again (2 in the code)

ASSUME CircuitAssumption ==
  /\ FailureLimit \in Nat \ {0}
  /\ RateWindow \in Nat \ {0}
  /\ ProbeLimit \in Nat \ {0}

Phases == {"closed", "open", "half-open"}

(* elapsed is meaningful while open; probes and in_flight while half-open. *)
Circuits ==
  [phase : Phases,
   elapsed : BOOLEAN,
   probes : Nat,
   in_flight : BOOLEAN,
   consecutive_successes : Nat,
   consecutive_failures : Nat,
   total_attempts : Nat,
   failed_attempts : Nat]

(* The entry a provider gets on its first admission in a service epoch. *)
FreshCircuit ==
  [phase |-> "closed", elapsed |-> FALSE, probes |-> 0, in_flight |-> FALSE,
   consecutive_successes |-> 0, consecutive_failures |-> 0,
   total_attempts |-> 0, failed_attempts |-> 0]

Admissible(c) ==
  \/ c.phase = "closed"
  \/ c.phase = "open" /\ c.elapsed
  \/ c.phase = "half-open" /\ ~c.in_flight

(* The half_open flag of the permit that admission hands out. *)
ProbePermit(c) == c.phase # "closed"

Admitted(c) ==
  CASE c.phase = "closed" -> c
    [] c.phase = "open" ->
         [c EXCEPT !.phase = "half-open", !.elapsed = FALSE,
                   !.probes = 0, !.in_flight = TRUE]
    [] c.phase = "half-open" -> [c EXCEPT !.in_flight = TRUE]

(* Any phase but half-open is closed by a success, the open one included. *)
ClosesOnSuccess(c) == c.phase # "half-open" \/ c.probes + 1 >= ProbeLimit

Succeeded(c) ==
  LET counted == [c EXCEPT !.total_attempts = @ + 1,
                           !.consecutive_successes = @ + 1,
                           !.consecutive_failures = 0,
                           !.elapsed = FALSE,
                           !.in_flight = FALSE]
  IN  IF ClosesOnSuccess(c)
      THEN [counted EXCEPT !.phase = "closed", !.probes = 0]
      ELSE [counted EXCEPT !.probes = @ + 1]

ErrorRateOpens(total, failed) ==
  total >= RateWindow /\ failed * 10 >= total * 6

OpensOnFailure(c) ==
  \/ c.phase = "half-open"
  \/ c.consecutive_failures + 1 >= FailureLimit
  \/ ErrorRateOpens(c.total_attempts + 1, c.failed_attempts + 1)

Failed(c) ==
  LET counted == [c EXCEPT !.total_attempts = @ + 1,
                           !.failed_attempts = @ + 1,
                           !.consecutive_successes = 0,
                           !.consecutive_failures = @ + 1]
  IN  IF OpensOnFailure(c)
      THEN [counted EXCEPT !.phase = "open", !.elapsed = FALSE,
                           !.probes = 0, !.in_flight = FALSE]
      ELSE counted

(* Slip: the dropped permit keeps the probe slot. *)
ReleasedNothing(c, half_open) == c

(* Dropping an uncompleted permit: only a half-open permit gives anything  *)
(* back, and only while the circuit still is half-open.                    *)
Released(c, half_open) ==
  IF half_open /\ c.phase = "half-open"
  THEN [c EXCEPT !.in_flight = FALSE]
  ELSE c

(* The state string of the observation a completion returns.  It follows   *)
(* the branch taken, not the phase left: a late failure that does not open *)
(* a circuit reports "degraded" even when the circuit is open already.     *)
SuccessState(c) == IF ClosesOnSuccess(c) THEN "healthy" ELSE "degraded"

FailureState(c) == IF OpensOnFailure(c) THEN "unavailable" ELSE "degraded"
=============================================================================
