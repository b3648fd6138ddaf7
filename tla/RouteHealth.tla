----------------------------- MODULE RouteHealth -----------------------------
(***************************************************************************)
(* RouteHealthRuntime of one Target: the circuits of its providers and the *)
(* permits (RouteAttemptPermit) that concurrent routed requests hold.      *)
(* Every operation takes the Target's mutex once, so it is one action;     *)
(* between the admission of an attempt and its completion the request      *)
(* awaits its upstream and any other request may run.                      *)
(***************************************************************************)
EXTENDS Circuit

CONSTANTS
  Providers,     \* Target Providers that can be members of a plan
  Attempts,      \* slots for attempts in flight at the same time
  NoPermit,      \* a slot that holds no permit
  AttemptBound   \* model bound on the attempts counted per circuit

ASSUME RouteHealthAssumption == AttemptBound \in Nat

VARIABLES
  circuits,      \* provider -> Circuit
  permits        \* attempt slot -> permit or NoPermit

vars == <<circuits, permits>>

Permits == [provider : Providers, half_open : BOOLEAN]

ASSUME PermitAssumption == NoPermit \notin Permits

TypeOK ==
  /\ circuits \in [Providers -> Circuits]
  /\ permits \in [Attempts -> Permits \union {NoPermit}]

Init ==
  /\ circuits = [p \in Providers |-> FreshCircuit]
  /\ permits = [a \in Attempts |-> NoPermit]

Holds(a, p) == permits[a] # NoPermit /\ permits[a].provider = p

(* Attempts counted so far and attempts that will be counted: the bound.   *)
WithinBound(p) == circuits[p].total_attempts < AttemptBound

-----------------------------------------------------------------------------
Admit(a, p) ==
  /\ permits[a] = NoPermit
  /\ Admissible(circuits[p])
  /\ WithinBound(p)
  /\ permits' = [permits EXCEPT
       ![a] = [provider |-> p, half_open |-> ProbePermit(circuits[p])]]
  /\ circuits' = [circuits EXCEPT ![p] = Admitted(@)]

Succeed(a) ==
  /\ permits[a] # NoPermit
  /\ circuits' = [circuits EXCEPT ![permits[a].provider] = Succeeded(@)]
  /\ permits' = [permits EXCEPT ![a] = NoPermit]

Fail(a) ==
  /\ permits[a] # NoPermit
  /\ circuits' = [circuits EXCEPT ![permits[a].provider] = Failed(@)]
  /\ permits' = [permits EXCEPT ![a] = NoPermit]

(* The permit is dropped uncompleted: the client went away, or the upstream *)
(* answered with a status that is neither a success nor retryable.          *)
Abandon(a) ==
  /\ permits[a] # NoPermit
  /\ circuits' = [circuits EXCEPT
       ![permits[a].provider] = Released(@, permits[a].half_open)]
  /\ permits' = [permits EXCEPT ![a] = NoPermit]

(* Sixty seconds have passed since the circuit opened. *)
Elapse(p) ==
  /\ circuits[p].phase = "open"
  /\ ~circuits[p].elapsed
  /\ circuits' = [circuits EXCEPT ![p].elapsed = TRUE]
  /\ UNCHANGED permits

(* A new service epoch starts from RouteHealthRuntime::default(). *)
Restart ==
  /\ circuits' = [p \in Providers |-> FreshCircuit]
  /\ permits' = [a \in Attempts |-> NoPermit]

Next ==
  \/ \E a \in Attempts, p \in Providers : Admit(a, p)
  \/ \E a \in Attempts : Succeed(a)
  \/ \E a \in Attempts : Fail(a)
  \/ \E a \in Attempts : Abandon(a)
  \/ \E p \in Providers : Elapse(p)
  \/ Restart

Spec == Init /\ [][Next]_vars

-----------------------------------------------------------------------------
(* A half-open circuit that refuses admission because a probe is in flight  *)
(* really has one: some attempt holds a half-open permit for the provider.  *)
(* Otherwise no Drop would ever clear in_flight and the provider would be   *)
(* excluded until the service restarts.                                     *)
ProbeOwned ==
  \A p \in Providers :
    (circuits[p].phase = "half-open" /\ circuits[p].in_flight)
      => \E a \in Attempts : Holds(a, p) /\ permits[a].half_open

(* A provider is only ever excluded on evidence: a circuit that is not      *)
(* closed counted FailureLimit failures, or 60% of a full rate window.      *)
ExcludedOnEvidence ==
  \A p \in Providers :
    circuits[p].phase # "closed" =>
      \/ circuits[p].failed_attempts >= FailureLimit
      \/ /\ circuits[p].total_attempts >= RateWindow
         /\ circuits[p].failed_attempts * 10 >= RateWindow * 6

(* A closed circuit has fewer than FailureLimit consecutive failures, in    *)
(* whatever order late outcomes of earlier phases were counted.             *)
ClosedBelowLimit ==
  \A p \in Providers :
    circuits[p].phase = "closed" =>
      circuits[p].consecutive_failures < FailureLimit

(* The counters an observation carries fit together: failures are attempts, *)
(* and at most one of the two consecutive counters is running.              *)
CountersCoherent ==
  \A p \in Providers :
    LET c == circuits[p] IN
      /\ c.failed_attempts + c.consecutive_successes <= c.total_attempts
      /\ c.consecutive_failures <= c.failed_attempts
      /\ c.consecutive_successes = 0 \/ c.consecutive_failures = 0

(* The health of every provider is sound: what excludes it is counted and   *)
(* what would keep it excluded is held by somebody who gives it back, in    *)
(* whatever order attempts of several phases are counted and dropped        *)
(* (RouteHealthRuntime and RouteAttemptPermit's Drop).                      *)
HealthIsSound ==
  TypeOK /\ ProbeOwned /\ ExcludedOnEvidence /\ ClosedBelowLimit /\ CountersCoherent

(* No provider is excluded for good: its circuit admits attempts again and  *)
(* again, as long as the clock runs and attempts in flight end.             *)
EventuallyAdmissible ==
  \A p \in Providers : []<>Admissible(circuits[p])

=============================================================================
