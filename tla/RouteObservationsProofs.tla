----------------------- MODULE RouteObservationsProofs -----------------------
(***************************************************************************)
(* Proofs about the circuits of RouteHealth, for every number of providers *)
(* and concurrent attempts and every value of the three limits.            *)
(* What holds of each circuit on its own is CircuitInv, which every        *)
(* operator of Circuit preserves; ProbeOwned relates circuits and permits. *)
(*                                                                         *)
(* Then about routed requests and what they leave in the store: their      *)
(* circuits are RouteHealth's, durable health never regresses within an    *)
(* epoch, and every change of the view is numbered.                        *)
(*                                                                         *)
(* Then about the views on their way to the clients, for any sessions and  *)
(* queues: what a client shows does not go back.                           *)
(***************************************************************************)
EXTENDS RouteObservations, TargetViews, TLAPS

(* The strengthening, one circuit at a time: the bodies of ClosedBelowLimit, *)
(* CountersCoherent and ExcludedOnEvidence.                                  *)
CircuitInv(c) ==
  /\ c.phase = "closed" => c.consecutive_failures < FailureLimit
  /\ c.failed_attempts + c.consecutive_successes <= c.total_attempts
  /\ c.consecutive_failures <= c.failed_attempts
  /\ c.consecutive_successes = 0 \/ c.consecutive_failures = 0
  /\ c.phase # "closed" =>
       \/ c.failed_attempts >= FailureLimit
       \/ /\ c.total_attempts >= RateWindow
          /\ c.failed_attempts * 10 >= RateWindow * 6

IInv ==
  /\ TypeOK
  /\ \A p \in Providers : CircuitInv(circuits[p])
  /\ ProbeOwned

-----------------------------------------------------------------------------
(* A fresh circuit satisfies the invariant of one circuit. *)
LEMMA FreshCircuitInv == FreshCircuit \in Circuits /\ CircuitInv(FreshCircuit)
  BY CircuitAssumption DEF FreshCircuit, Circuits, Phases, CircuitInv

(* Admission keeps the invariant of one circuit, and a permit that is not  *)
(* a probe leaves the closed circuit as it was.                             *)
LEMMA AdmittedInv ==
  ASSUME NEW c \in Circuits, CircuitInv(c), Admissible(c)
  PROVE  /\ Admitted(c) \in Circuits
         /\ CircuitInv(Admitted(c))
         /\ ~ProbePermit(c) => Admitted(c) = c
         /\ ProbePermit(c) => Admitted(c).phase = "half-open"
  <1>1. CASE c.phase = "closed"
    BY <1>1 DEF Admitted, ProbePermit
  <1>2. CASE c.phase = "open"
    <2> DEFINE d == Admitted(c)
    <2>1. d = [c EXCEPT !.phase = "half-open", !.elapsed = FALSE,
                        !.probes = 0, !.in_flight = TRUE]
      BY <1>2 DEF Admitted
    <2>2. d \in Circuits
      <3> HIDE DEF d
      <3>1. "half-open" \in Phases
        BY DEF Phases
      <3>2. QED BY <2>1, <3>1 DEF Circuits
    <2>3. /\ d.phase = "half-open" /\ d.probes = 0
          /\ d.consecutive_successes = c.consecutive_successes
          /\ d.consecutive_failures = c.consecutive_failures
          /\ d.total_attempts = c.total_attempts
          /\ d.failed_attempts = c.failed_attempts
      BY <2>1 DEF Circuits
    <2>4. CircuitInv(d)
      BY <1>2, <2>3, CircuitAssumption DEF CircuitInv, Circuits
    <2>5. QED BY <1>2, <2>2, <2>3, <2>4 DEF ProbePermit
  <1>3. CASE c.phase = "half-open"
    <2> DEFINE d == Admitted(c)
    <2>1. d = [c EXCEPT !.in_flight = TRUE]
      BY <1>3 DEF Admitted
    <2>2. d \in Circuits
      BY <2>1 DEF Circuits
    <2>3. /\ d.phase = c.phase /\ d.probes = c.probes
          /\ d.consecutive_successes = c.consecutive_successes
          /\ d.consecutive_failures = c.consecutive_failures
          /\ d.total_attempts = c.total_attempts
          /\ d.failed_attempts = c.failed_attempts
      BY <2>1 DEF Circuits
    <2>4. CircuitInv(d)
      BY <1>3, <2>3 DEF CircuitInv
    <2>5. QED BY <1>3, <2>2, <2>3, <2>4 DEF ProbePermit
  <1>4. QED BY <1>1, <1>2, <1>3 DEF Circuits, Phases

(* A success keeps the invariant of one circuit and ends the probe. *)
LEMMA SucceededInv ==
  ASSUME NEW c \in Circuits, CircuitInv(c)
  PROVE  /\ Succeeded(c) \in Circuits
         /\ CircuitInv(Succeeded(c))
         /\ ~Succeeded(c).in_flight
  <1> DEFINE d == Succeeded(c)
  <1>1. /\ d.consecutive_successes = c.consecutive_successes + 1
        /\ d.consecutive_failures = 0
        /\ d.total_attempts = c.total_attempts + 1
        /\ d.failed_attempts = c.failed_attempts
        /\ d.in_flight = FALSE
        /\ d.phase = IF ClosesOnSuccess(c) THEN "closed" ELSE c.phase
        /\ d.probes = IF ClosesOnSuccess(c) THEN 0 ELSE c.probes + 1
    BY DEF Succeeded, Circuits
  <1>2. d \in Circuits
    <2>1. /\ "closed" \in Phases /\ "open" \in Phases
          /\ \A n \in Nat : n + 1 \in Nat
      BY DEF Phases
    <2>2. CASE ClosesOnSuccess(c)
      BY <2>1, <2>2 DEF Succeeded, Circuits
    <2>3. CASE ~ClosesOnSuccess(c)
      BY <2>1, <2>3 DEF Succeeded, Circuits
    <2>4. QED BY <2>2, <2>3
  <1>3. /\ c.consecutive_successes \in Nat /\ c.consecutive_failures \in Nat
        /\ c.total_attempts \in Nat /\ c.failed_attempts \in Nat
        /\ c.probes \in Nat
    BY DEF Circuits
  <1>4. ~ClosesOnSuccess(c) => c.phase = "half-open" /\ c.probes + 1 < ProbeLimit
    BY <1>3, CircuitAssumption DEF ClosesOnSuccess
  <1> HIDE DEF d
  <1>5. CircuitInv(d)
    BY <1>1, <1>3, <1>4, CircuitAssumption DEF CircuitInv
  <1>6. QED BY <1>1, <1>2, <1>5 DEF d

(* A failure keeps the invariant of one circuit and leaves no half-open    *)
(* circuit behind.                                                         *)
LEMMA FailedInv ==
  ASSUME NEW c \in Circuits, CircuitInv(c)
  PROVE  /\ Failed(c) \in Circuits
         /\ CircuitInv(Failed(c))
         /\ Failed(c).phase # "half-open"
  <1> DEFINE d == Failed(c)
  <1>1. /\ d.consecutive_successes = 0
        /\ d.consecutive_failures = c.consecutive_failures + 1
        /\ d.total_attempts = c.total_attempts + 1
        /\ d.failed_attempts = c.failed_attempts + 1
        /\ d.phase = IF OpensOnFailure(c) THEN "open" ELSE c.phase
    BY DEF Failed, Circuits
  <1>2. d \in Circuits
    <2>1. /\ "closed" \in Phases /\ "open" \in Phases
          /\ \A n \in Nat : n + 1 \in Nat
      BY DEF Phases
    <2>2. CASE OpensOnFailure(c)
      BY <2>1, <2>2 DEF Failed, Circuits
    <2>3. CASE ~OpensOnFailure(c)
      BY <2>1, <2>3 DEF Failed, Circuits
    <2>4. QED BY <2>2, <2>3
  <1>3. /\ c.consecutive_successes \in Nat /\ c.consecutive_failures \in Nat
        /\ c.total_attempts \in Nat /\ c.failed_attempts \in Nat
        /\ c.phase \in Phases
    BY DEF Circuits
  <1>4. d.phase # "half-open"
    BY <1>1 DEF OpensOnFailure
  <1>5. d.phase = "closed" => d.consecutive_failures < FailureLimit
    BY <1>1, <1>3, CircuitAssumption DEF OpensOnFailure
  <1>6. d.phase # "closed" =>
          \/ d.failed_attempts >= FailureLimit
          \/ /\ d.total_attempts >= RateWindow
             /\ d.failed_attempts * 10 >= RateWindow * 6
    <2>1. CASE c.phase # "closed"
      BY <2>1, <1>1, <1>3, CircuitAssumption DEF CircuitInv
    <2>2. CASE c.phase = "closed"
      BY <2>2, <1>1, <1>3, CircuitAssumption
      DEF CircuitInv, OpensOnFailure, ErrorRateOpens
    <2>3. QED BY <2>1, <2>2
  <1> HIDE DEF d
  <1>7. CircuitInv(d)
    BY <1>1, <1>3, <1>4, <1>5, <1>6 DEF CircuitInv
  <1>8. QED BY <1>2, <1>4, <1>7 DEF d

(* Dropping a permit keeps the invariant of one circuit; dropping a         *)
(* half-open permit frees the probe, dropping another changes nothing.      *)
LEMMA ReleasedInv ==
  ASSUME NEW c \in Circuits, CircuitInv(c), NEW half_open \in BOOLEAN
  PROVE  /\ Released(c, half_open) \in Circuits
         /\ CircuitInv(Released(c, half_open))
         /\ half_open => ~(/\ Released(c, half_open).phase = "half-open"
                           /\ Released(c, half_open).in_flight)
         /\ ~half_open => Released(c, half_open) = c
  <1>1. CASE half_open /\ c.phase = "half-open"
    BY <1>1 DEF Released, Circuits, Phases, CircuitInv
  <1>2. CASE ~(half_open /\ c.phase = "half-open")
    BY <1>2 DEF Released
  <1>3. QED BY <1>1, <1>2

-----------------------------------------------------------------------------
(* A step that rewrites one circuit with another valid one, and changes one *)
(* permit slot, keeps types and circuit invariants.                         *)
LEMMA OneCircuit ==
  ASSUME TypeOK, \A p \in Providers : CircuitInv(circuits[p]),
         NEW q \in Providers, NEW d \in Circuits, CircuitInv(d),
         circuits' = [circuits EXCEPT ![q] = d]
  PROVE  /\ circuits' \in [Providers -> Circuits]
         /\ \A p \in Providers : CircuitInv(circuits'[p])
         /\ \A p \in Providers \ {q} : circuits'[p] = circuits[p]
         /\ circuits'[q] = d
  BY DEF TypeOK

(* The slot of a completed attempt is emptied, and no other slot changes.   *)
LEMMA EmptiedSlot ==
  ASSUME TypeOK, NEW a \in Attempts, permits' = [permits EXCEPT ![a] = NoPermit]
  PROVE  /\ permits' \in [Attempts -> Permits \union {NoPermit}]
         /\ \A b \in Attempts \ {a} : permits'[b] = permits[b]
  BY DEF TypeOK

(* An attempt that ends takes its own circuit out of the probe, or held no  *)
(* probe and leaves the circuit alone: either way ProbeOwned survives.      *)
LEMMA FinishKeepsProbeOwned ==
  ASSUME TypeOK, ProbeOwned,
         NEW a \in Attempts, permits[a] # NoPermit,
         NEW d,
         circuits' = [circuits EXCEPT ![permits[a].provider] = d],
         permits' = [permits EXCEPT ![a] = NoPermit],
         \/ ~(d.phase = "half-open" /\ d.in_flight)
         \/ ~permits[a].half_open /\ d = circuits[permits[a].provider]
  PROVE  ProbeOwned'
  <1> DEFINE q == permits[a].provider
  <1>1. q \in Providers /\ permits[a] \in Permits
    BY DEF TypeOK, Permits
  <1>2. SUFFICES ASSUME NEW p \in Providers,
                        circuits'[p].phase = "half-open" /\ circuits'[p].in_flight
                 PROVE  \E b \in Attempts : Holds(b, p)' /\ permits'[b].half_open
    BY DEF ProbeOwned
  <1>3. circuits'[p] = circuits[p]
    BY <1>1, <1>2 DEF TypeOK
  <1>4. PICK b \in Attempts : Holds(b, p) /\ permits[b].half_open
    BY <1>2, <1>3 DEF ProbeOwned
  <1>5. b # a
    BY <1>1, <1>2, <1>4 DEF Holds, TypeOK
  <1>6. permits'[b] = permits[b]
    BY <1>5 DEF TypeOK
  <1>7. QED BY <1>4, <1>6 DEF Holds

(* Types and circuit invariants hold initially, and no probe is in flight.  *)
LEMMA InitIInv == Init => IInv
  <1> SUFFICES ASSUME Init PROVE IInv
    OBVIOUS
  <1>1. \A p \in Providers : circuits[p] = FreshCircuit
    BY DEF Init
  <1>2. TypeOK
    BY FreshCircuitInv DEF Init, TypeOK
  <1>3. \A p \in Providers : CircuitInv(circuits[p])
    BY <1>1, FreshCircuitInv
  <1>4. ProbeOwned
    BY <1>1 DEF ProbeOwned, FreshCircuit
  <1>5. QED BY <1>2, <1>3, <1>4 DEF IInv

(* Every step of Next keeps the inductive invariant. *)
LEMMA NextIInv == IInv /\ [Next]_vars => IInv'
  <1> SUFFICES ASSUME IInv, [Next]_vars PROVE IInv'
    OBVIOUS
  <1> USE DEF IInv
  <1>1. ASSUME NEW a \in Attempts, NEW p \in Providers, Admit(a, p)
        PROVE  IInv'
    <2> DEFINE d == Admitted(circuits[p])
               new == [provider |-> p, half_open |-> ProbePermit(circuits[p])]
    <2>1. circuits[p] \in Circuits /\ Admissible(circuits[p])
      BY <1>1 DEF Admit, TypeOK
    <2>2. /\ d \in Circuits /\ CircuitInv(d)
          /\ ~ProbePermit(circuits[p]) => d = circuits[p]
          /\ ProbePermit(circuits[p]) => d.phase = "half-open"
      BY <2>1, AdmittedInv
    <2>3. new \in Permits
      BY DEF Permits, ProbePermit
    <2>4. /\ circuits' = [circuits EXCEPT ![p] = d]
          /\ permits' = [permits EXCEPT ![a] = new]
          /\ permits[a] = NoPermit
      BY <1>1 DEF Admit
    <2> HIDE DEF d
    <2>5. /\ circuits' \in [Providers -> Circuits]
          /\ \A q \in Providers : CircuitInv(circuits'[q])
          /\ \A q \in Providers \ {p} : circuits'[q] = circuits[q]
          /\ circuits'[p] = d
      BY <2>2, <2>4, OneCircuit
    <2>6. TypeOK'
      BY <2>3, <2>4, <2>5 DEF TypeOK
    <2>7. ProbeOwned'
      <3>1. SUFFICES ASSUME NEW q \in Providers,
                            circuits'[q].phase = "half-open",
                            circuits'[q].in_flight
                     PROVE  \E b \in Attempts : Holds(b, q)' /\ permits'[b].half_open
        BY DEF ProbeOwned
      <3>2. CASE q = p /\ ProbePermit(circuits[p])
        <4>1. permits'[a] = new
          BY <2>4 DEF TypeOK
        <4>2. new # NoPermit
          BY <2>3, PermitAssumption
        <4>3. QED BY <3>2, <4>1, <4>2 DEF Holds
      <3>3. CASE ~(q = p /\ ProbePermit(circuits[p]))
        <4>1. circuits'[q] = circuits[q]
          BY <2>2, <2>5, <3>3
        <4>2. PICK b \in Attempts : Holds(b, q) /\ permits[b].half_open
          BY <3>1, <4>1 DEF ProbeOwned
        <4>3. permits'[b] = permits[b]
          BY <2>4, <4>2 DEF Holds, TypeOK
        <4>4. QED BY <4>2, <4>3 DEF Holds
      <3>4. QED BY <3>2, <3>3
    <2>8. QED BY <2>5, <2>6, <2>7
  <1>2. ASSUME NEW a \in Attempts, NEW d \in Circuits, permits[a] # NoPermit,
               CircuitInv(d),
               circuits' = [circuits EXCEPT ![permits[a].provider] = d],
               permits' = [permits EXCEPT ![a] = NoPermit],
               \/ ~(d.phase = "half-open" /\ d.in_flight)
               \/ ~permits[a].half_open /\ d = circuits[permits[a].provider]
        PROVE  IInv'
    <2>1. permits[a].provider \in Providers
      BY <1>2 DEF TypeOK, Permits
    <2>2. /\ circuits' \in [Providers -> Circuits]
          /\ \A q \in Providers : CircuitInv(circuits'[q])
      BY <1>2, <2>1, OneCircuit
    <2>3. permits' \in [Attempts -> Permits \union {NoPermit}]
      BY <1>2, EmptiedSlot
    <2>4. ProbeOwned'
      BY <1>2, FinishKeepsProbeOwned
    <2>5. QED BY <2>2, <2>3, <2>4 DEF TypeOK
  <1>3. ASSUME NEW a \in Attempts, permits[a] # NoPermit
        PROVE  /\ circuits[permits[a].provider] \in Circuits
               /\ CircuitInv(circuits[permits[a].provider])
               /\ permits[a].half_open \in BOOLEAN
    BY <1>3 DEF TypeOK, Permits
  <1>4. ASSUME NEW a \in Attempts, Succeed(a) PROVE IInv'
    <2>1. /\ permits[a] # NoPermit
          /\ circuits' = [circuits EXCEPT ![permits[a].provider] =
                            Succeeded(circuits[permits[a].provider])]
          /\ permits' = [permits EXCEPT ![a] = NoPermit]
      BY <1>4 DEF Succeed
    <2>2. QED BY <1>2, <1>3, <2>1, SucceededInv
  <1>5. ASSUME NEW a \in Attempts, Fail(a) PROVE IInv'
    <2>1. /\ permits[a] # NoPermit
          /\ circuits' = [circuits EXCEPT ![permits[a].provider] =
                            Failed(circuits[permits[a].provider])]
          /\ permits' = [permits EXCEPT ![a] = NoPermit]
      BY <1>5 DEF Fail
    <2>2. QED BY <1>2, <1>3, <2>1, FailedInv
  <1>6. ASSUME NEW a \in Attempts, Abandon(a) PROVE IInv'
    <2>1. /\ permits[a] # NoPermit
          /\ circuits' = [circuits EXCEPT ![permits[a].provider] =
                            Released(circuits[permits[a].provider],
                                     permits[a].half_open)]
          /\ permits' = [permits EXCEPT ![a] = NoPermit]
      BY <1>6 DEF Abandon
    <2>2. QED BY <1>2, <1>3, <2>1, ReleasedInv
  <1>7. ASSUME NEW p \in Providers, Elapse(p) PROVE IInv'
    <2> DEFINE d == [circuits[p] EXCEPT !.elapsed = TRUE]
    <2>1. circuits[p] \in Circuits /\ CircuitInv(circuits[p])
      BY DEF TypeOK
    <2>2. /\ circuits' = [circuits EXCEPT ![p] = d]
          /\ permits' = permits /\ circuits[p].phase = "open"
      BY <1>7 DEF Elapse
    <2>3. d \in Circuits
      BY <2>1 DEF Circuits
    <2>4. /\ d.phase = circuits[p].phase /\ d.probes = circuits[p].probes
          /\ d.consecutive_successes = circuits[p].consecutive_successes
          /\ d.consecutive_failures = circuits[p].consecutive_failures
          /\ d.total_attempts = circuits[p].total_attempts
          /\ d.failed_attempts = circuits[p].failed_attempts
      BY <2>1 DEF Circuits
    <2> HIDE DEF d
    <2>5. CircuitInv(d)
      BY <2>1, <2>4 DEF CircuitInv
    <2>6. /\ circuits' \in [Providers -> Circuits]
          /\ \A q \in Providers : CircuitInv(circuits'[q])
          /\ \A q \in Providers \ {p} : circuits'[q] = circuits[q]
          /\ circuits'[p] = d
      BY <2>2, <2>3, <2>5, OneCircuit
    <2>7. ProbeOwned'
      BY <2>2, <2>4, <2>6 DEF ProbeOwned, Holds
    <2>8. QED BY <2>2, <2>6, <2>7 DEF TypeOK
  <1>8. ASSUME Restart PROVE IInv'
    <2>1. \A p \in Providers : circuits'[p] = FreshCircuit
      BY <1>8 DEF Restart
    <2>2. TypeOK'
      BY <1>8, FreshCircuitInv DEF Restart, TypeOK
    <2>3. \A p \in Providers : CircuitInv(circuits'[p])
      BY <2>1, FreshCircuitInv
    <2>4. ProbeOwned'
      BY <2>1 DEF ProbeOwned, FreshCircuit
    <2>5. QED BY <2>2, <2>3, <2>4
  <1>9. CASE UNCHANGED vars
    BY <1>9 DEF vars, TypeOK, ProbeOwned, Holds
  <1>10. QED
    BY <1>1, <1>4, <1>5, <1>6, <1>7, <1>8, <1>9 DEF Next

(* The inductive invariant holds in every reachable state. *)
THEOREM Invariance == Spec => []IInv
  BY InitIInv, NextIInv, PTL DEF Spec

(* Every circuit and permit keeps its type. *)
THEOREM TypeCorrect == Spec => []TypeOK
  <1>1. IInv => TypeOK
    BY DEF IInv
  <1>2. QED BY <1>1, Invariance, PTL

(* A provider is never excluded by a probe nobody holds: the half-open      *)
(* circuit that refuses admission always has a live half-open permit whose  *)
(* completion or drop frees it.                                             *)
THEOREM ProbesAreOwned == Spec => []ProbeOwned
  <1>1. IInv => ProbeOwned
    BY DEF IInv
  <1>2. QED BY <1>1, Invariance, PTL

(* However late outcomes interleave, a closed circuit is below its failure  *)
(* limit and a circuit that excludes a provider counted the evidence.       *)
THEOREM CircuitsFollowEvidence ==
  Spec => [](ExcludedOnEvidence /\ ClosedBelowLimit)
  <1>1. IInv => ExcludedOnEvidence /\ ClosedBelowLimit
    BY DEF IInv, CircuitInv, ExcludedOnEvidence, ClosedBelowLimit
  <1>2. QED BY <1>1, Invariance, PTL

(* The counters of an observation are coherent, however late they come.     *)
THEOREM CountersAreCoherent == Spec => []CountersCoherent
  <1>1. IInv => CountersCoherent
    BY DEF IInv, CircuitInv, CountersCoherent
  <1>2. QED BY <1>1, Invariance, PTL

(* The health of every provider is sound, however attempts interleave.      *)
THEOREM HealthStaysSound == Spec => []HealthIsSound
  BY TypeCorrect, ProbesAreOwned, CircuitsFollowEvidence, CountersAreCoherent, PTL
     DEF HealthIsSound

-----------------------------------------------------------------------------
OTypeOK ==
  /\ TypeOK
  /\ service_epoch \in Nat
  /\ provider_route_health \in [Providers -> Rows \union {None}]
  /\ active_route_plan \in Plans \union {None}
  /\ serving_provider \in Providers \union {None}
  /\ view_sequence \in Nat
  /\ requests \in [Attempts ->
       [stage : {"idle", "routing", "over", "queued"}, plan : Plans \union {None},
        observed : [Providers -> Observations \union {None}],
        serving : Providers \union {None}]]

-----------------------------------------------------------------------------
(* A step of the requests or of the store is a step of the circuits, or     *)
(* leaves them alone.                                                       *)
LEMMA StepIsRuntimeStep == [ONext]_ovars => [Next]_vars
  <1> SUFFICES ASSUME [ONext]_ovars PROVE [Next]_vars
    OBVIOUS
  <1>1. ASSUME NEW a \in Attempts,
               Begin(a) \/ Record(a) \/ Persist(a) PROVE UNCHANGED vars
    BY <1>1 DEF Begin, Record, Persist, runtime, vars
  <1>2. ASSUME NEW a \in Attempts,
               \/ CountSuccess(a) \/ CountFailure(a)
               \/ CountCommittedFailure(a) \/ Relay(a) PROVE Next
    BY <1>2 DEF CountSuccess, CountFailure, CountCommittedFailure, Relay, Next
  <1>3. ASSUME NEW a \in Attempts, Leave(a) PROVE [Next]_vars
    BY <1>3 DEF Leave, Next, runtime, vars
  <1>4. ASSUME NEW a \in Attempts, NEW p \in Providers, Attempt(a, p) PROVE Next
    BY <1>4 DEF Attempt, Next
  <1>5. ASSUME NEW plan \in Plans, Apply(plan) \/ Activate(plan) PROVE UNCHANGED vars
    BY <1>5 DEF Apply, Activate, runtime, vars
  <1>6. CASE Disable
    BY <1>6 DEF Disable, runtime, vars
  <1>7. ASSUME NEW p \in Providers, Cool(p) PROVE Next
    BY <1>7 DEF Cool, Next
  <1>8. CASE Reopen
    BY <1>8 DEF Reopen, Next
  <1>9. CASE UNCHANGED ovars
    BY <1>9 DEF ovars, runtime, vars
  <1>10. QED
    BY <1>1, <1>2, <1>3, <1>4, <1>5, <1>6, <1>7, <1>8, <1>9 DEF ONext

(* Whatever the requests, the plans and the store do, the circuits behave   *)
(* as RouteHealth says: what is proved of RouteHealth holds here.           *)
THEOREM RefinesRouteHealth == OSpec => Spec
  <1>1. OInit => Init
    BY DEF OInit
  <1>2. QED BY <1>1, StepIsRuntimeStep, PTL DEF OSpec, Spec

-----------------------------------------------------------------------------
(* A merge that changes a row of this epoch puts more attempts there.       *)
LEMMA MergeAdvances ==
  ASSUME NEW q, NEW p \in Providers, Merge(q),
         provider_route_health[p] # None,
         provider_route_health'[p].epoch = provider_route_health[p].epoch
  PROVE  \/ provider_route_health'[p] = provider_route_health[p]
         \/ provider_route_health'[p].observed.total
              > provider_route_health[p].observed.total
  <1>1. provider_route_health'[p] = IF Supersedes(q, p) THEN Row(q, p)
                                    ELSE provider_route_health[p]
    BY DEF Merge, Merged
  <1>2. CASE ~Supersedes(q, p)
    BY <1>1, <1>2
  <1>3. CASE Supersedes(q, p)
    BY <1>1, <1>3 DEF Supersedes, Row
  <1>4. QED BY <1>2, <1>3

(* Within a service epoch durable health only moves to observations of more *)
(* attempts, in whatever order concurrent requests are recorded.            *)
THEOREM NeverRegresses == OSpec => HealthNeverRegresses
  <1> DEFINE Advances ==
        \A p \in Providers :
          LET row == provider_route_health[p]
              next == provider_route_health'[p]
          IN  (row # None /\ next.epoch = row.epoch) =>
                \/ next = row
                \/ next.observed.total > row.observed.total
  <1>1. ASSUME [ONext]_ovars PROVE UNCHANGED provider_route_health \/ Advances
    <2>1. ASSUME NEW a \in Attempts, Persist(a)
          PROVE  UNCHANGED provider_route_health \/ Advances
      <3>1. CASE active_route_plan # None
        <4>1. Merge(requests[a])
          BY <2>1, <3>1 DEF Persist
        <4>2. QED BY <4>1, MergeAdvances
      <3>2. CASE active_route_plan = None
        BY <2>1, <3>2 DEF Persist
      <3>3. QED BY <3>1, <3>2
    <2>2. ASSUME NEW a \in Attempts,
                 \/ Begin(a) \/ CountSuccess(a) \/ CountFailure(a)
                 \/ CountCommittedFailure(a) \/ Relay(a) \/ Leave(a) \/ Record(a)
          PROVE  UNCHANGED provider_route_health
      BY <2>2 DEF Begin, CountSuccess, CountFailure, CountCommittedFailure, Relay,
                   Leave, Record, durable
    <2>3. ASSUME NEW a \in Attempts, NEW p \in Providers, Attempt(a, p)
          PROVE  UNCHANGED provider_route_health
      BY <2>3 DEF Attempt, durable
    <2>4. ASSUME NEW plan \in Plans, Apply(plan) \/ Activate(plan)
          PROVE  UNCHANGED provider_route_health
      BY <2>4 DEF Apply, Activate
    <2>5. ASSUME NEW p \in Providers, Cool(p) PROVE UNCHANGED provider_route_health
      BY <2>5 DEF Cool, durable
    <2>6. CASE Disable \/ Reopen \/ UNCHANGED ovars
      BY <2>6 DEF Disable, Reopen, ovars, durable
    <2>7. QED
      BY <1>1, <2>1, <2>2, <2>3, <2>4, <2>5, <2>6 DEF ONext
  <1>2. [ONext]_ovars => [Advances]_ovars
    <2>1. UNCHANGED provider_route_health => Advances
      OBVIOUS
    <2>2. QED BY <1>1, <2>1
  <1>3. QED BY <1>2, PTL DEF OSpec, HealthNeverRegresses
-----------------------------------------------------------------------------
(* The types the view's contents need.                                      *)
LEMMA Emptied ==
  Idle \in [stage : {"idle", "routing", "over", "queued"}, plan : Plans \union {None},
            observed : [Providers -> Observations \union {None}],
            serving : Providers \union {None}]
  BY DEF Idle

(* A completed attempt is copied with its circuit's new total.              *)
LEMMA Observing ==
  ASSUME TypeOK', NEW p \in Providers, NEW state \in States
  PROVE  Observation(p, state) \in Observations
  <1>1. circuits'[p] \in Circuits
    BY DEF TypeOK
  <1>2. circuits'[p].total_attempts \in Nat
    BY <1>1 DEF Circuits
  <1>3. QED BY <1>2 DEF Observation, Observations

(* Merging a request's observations keeps the rows' and the view's types.   *)
LEMMA MergeTyped ==
  ASSUME OTypeOK, NEW a \in Attempts, Merge(requests[a])
  PROVE  /\ provider_route_health' \in [Providers -> Rows \union {None}]
         /\ serving_provider' \in Providers \union {None}
         /\ view_sequence' \in Nat
  <1> DEFINE q == requests[a]
  <1>1. /\ q.observed \in [Providers -> Observations \union {None}]
        /\ q.serving \in Providers \union {None}
    BY DEF OTypeOK
  <1> HIDE DEF q
  <1>2. ASSUME NEW p \in Providers, Supersedes(q, p) PROVE Row(q, p) \in Rows
    <2>1. q.observed[p] \in Observations
      BY <1>1, <1>2 DEF Supersedes
    <2>2. service_epoch \in Nat
      BY DEF OTypeOK
    <2>3. QED BY <2>1, <2>2 DEF Row, Rows
  <1>3. Merged(q) \in [Providers -> Rows \union {None}]
    BY <1>2 DEF Merged, OTypeOK
  <1>4. /\ provider_route_health' = Merged(q)
        /\ serving_provider' = IF q.serving = None THEN serving_provider ELSE q.serving
        /\ view_sequence' = view_sequence \/ view_sequence' = view_sequence + 1
    BY DEF Merge, NextView, q
  <1>5. QED BY <1>1, <1>3, <1>4 DEF OTypeOK

(* Every step keeps the types.                                              *)
LEMMA NextOTypeOK == OTypeOK /\ TypeOK' /\ [ONext]_ovars => OTypeOK'
  <1> SUFFICES ASSUME OTypeOK, TypeOK', [ONext]_ovars PROVE OTypeOK'
    OBVIOUS
  <1> DEFINE Slots == [stage : {"idle", "routing", "over", "queued"},
                       plan : Plans \union {None},
                       observed : [Providers -> Observations \union {None}],
                       serving : Providers \union {None}]
  <1>0. /\ requests \in [Attempts -> Slots] /\ Idle \in Slots
        /\ service_epoch \in Nat /\ view_sequence \in Nat
        /\ \A a \in Attempts : requests[a] \in Slots
    BY Emptied DEF OTypeOK
  <1>1. ASSUME NEW a \in Attempts, NEW slot \in Slots,
               requests' = [requests EXCEPT ![a] = slot],
               UNCHANGED <<service_epoch, durable>>
        PROVE  OTypeOK'
    <2>1. requests' \in [Attempts -> Slots]
      BY <1>0, <1>1
    <2>2. QED BY <1>1, <2>1 DEF OTypeOK, durable
  <1>2. ASSUME NEW a \in Attempts, Begin(a) PROVE OTypeOK'
    <2> DEFINE slot == [Idle EXCEPT !.stage = "routing", !.plan = active_route_plan]
    <2>1. slot \in Slots
      BY <1>0 DEF OTypeOK
    <2>2. requests' = [requests EXCEPT ![a] = slot] /\ UNCHANGED <<service_epoch, durable>>
      BY <1>2 DEF Begin
    <2> HIDE DEF slot
    <2>3. QED BY <1>1, <2>1, <2>2
  <1>3. ASSUME NEW a \in Attempts, permits[a] # NoPermit
        PROVE  /\ permits[a].provider \in Providers
               /\ SuccessState(circuits[permits[a].provider]) \in States
               /\ FailureState(circuits[permits[a].provider]) \in States
    BY <1>3 DEF OTypeOK, TypeOK, Permits, SuccessState, FailureState, States
  <1>4. ASSUME NEW a \in Attempts, CountSuccess(a) PROVE OTypeOK'
    <2> DEFINE p == permits[a].provider
               seen == Observation(p, SuccessState(circuits[p]))
               slot == [requests[a] EXCEPT !.observed[p] = seen, !.serving = p,
                                           !.stage = "over"]
    <2>1. permits[a] # NoPermit
      BY <1>4 DEF CountSuccess, Succeed
    <2>2. p \in Providers /\ seen \in Observations
      BY <1>3, <2>1, Observing
    <2>3. /\ requests' = [requests EXCEPT ![a].observed[p] = seen, ![a].serving = p,
                                          ![a].stage = "over"]
          /\ UNCHANGED <<service_epoch, durable>>
      BY <1>4 DEF CountSuccess
    <2> HIDE DEF seen, p
    <2>4. slot \in Slots
      BY <1>0, <2>2
    <2>5. requests' = [requests EXCEPT ![a] = slot]
      BY <1>0, <2>3
    <2> HIDE DEF slot
    <2>6. QED BY <1>1, <2>3, <2>4, <2>5
  <1>5. ASSUME NEW a \in Attempts, CountFailure(a) PROVE OTypeOK'
    <2> DEFINE p == permits[a].provider
               seen == Observation(p, FailureState(circuits[p]))
               slot == [requests[a] EXCEPT !.observed[p] = seen]
    <2>1. permits[a] # NoPermit
      BY <1>5 DEF CountFailure, Fail
    <2>2. p \in Providers /\ seen \in Observations
      BY <1>3, <2>1, Observing
    <2>3. /\ requests' = [requests EXCEPT ![a].observed[p] = seen]
          /\ UNCHANGED <<service_epoch, durable>>
      BY <1>5 DEF CountFailure
    <2> HIDE DEF seen, p
    <2>4. slot \in Slots
      BY <1>0, <2>2
    <2>5. requests' = [requests EXCEPT ![a] = slot]
      BY <1>0, <2>3
    <2> HIDE DEF slot
    <2>6. QED BY <1>1, <2>3, <2>4, <2>5
  <1>25. ASSUME NEW a \in Attempts, CountCommittedFailure(a) PROVE OTypeOK'
    <2> DEFINE p == permits[a].provider
               seen == Observation(p, FailureState(circuits[p]))
               slot == [requests[a] EXCEPT !.observed[p] = seen, !.serving = p,
                                           !.stage = "over"]
    <2>1. permits[a] # NoPermit
      BY <1>25 DEF CountCommittedFailure, Fail
    <2>2. p \in Providers /\ seen \in Observations
      BY <1>3, <2>1, Observing
    <2>3. /\ requests' = [requests EXCEPT ![a].observed[p] = seen, ![a].serving = p,
                                          ![a].stage = "over"]
          /\ UNCHANGED <<service_epoch, durable>>
      BY <1>25 DEF CountCommittedFailure
    <2> HIDE DEF seen, p
    <2>4. slot \in Slots
      BY <1>0, <2>2
    <2>5. requests' = [requests EXCEPT ![a] = slot]
      BY <1>0, <2>3
    <2> HIDE DEF slot
    <2>6. QED BY <1>1, <2>3, <2>4, <2>5
  <1>6. ASSUME NEW a \in Attempts, Relay(a) PROVE OTypeOK'
    <2> DEFINE slot == [requests[a] EXCEPT !.stage = "over"]
    <2>1. slot \in Slots
      BY <1>0
    <2>2. requests' = [requests EXCEPT ![a] = slot] /\ UNCHANGED <<service_epoch, durable>>
      BY <1>0, <1>6 DEF Relay
    <2> HIDE DEF slot
    <2>3. QED BY <1>1, <2>1, <2>2
  <1>7. ASSUME NEW a \in Attempts, Leave(a) PROVE OTypeOK'
    BY <1>0, <1>1, <1>7 DEF Leave
  <1>8. ASSUME NEW a \in Attempts, Record(a) PROVE OTypeOK'
    <2> DEFINE slot == IF Observed(requests[a]) = {} THEN Idle
                       ELSE [requests[a] EXCEPT !.stage = "queued"]
    <2>1. slot \in Slots
      BY <1>0
    <2>2. requests' = [requests EXCEPT ![a] = slot] /\ UNCHANGED <<service_epoch, durable>>
      BY <1>8 DEF Record
    <2> HIDE DEF slot
    <2>3. QED BY <1>1, <2>1, <2>2
  <1>9. ASSUME NEW a \in Attempts, Persist(a) PROVE OTypeOK'
    <2>1. /\ requests' = [requests EXCEPT ![a] = Idle]
          /\ UNCHANGED <<service_epoch, active_route_plan>>
      BY <1>9 DEF Persist
    <2>2. requests' \in [Attempts -> Slots]
      BY <1>0, <2>1
    <2>3. /\ provider_route_health' \in [Providers -> Rows \union {None}]
          /\ serving_provider' \in Providers \union {None}
          /\ view_sequence' \in Nat
      <3>1. CASE active_route_plan # None
        BY <1>9, <3>1, MergeTyped DEF Persist
      <3>2. CASE active_route_plan = None
        BY <1>9, <3>2 DEF Persist, OTypeOK
      <3>3. QED BY <3>1, <3>2
    <2>4. QED BY <2>1, <2>2, <2>3 DEF OTypeOK
  <1>10. ASSUME NEW a \in Attempts, NEW p \in Providers, Attempt(a, p) PROVE OTypeOK'
    BY <1>10 DEF Attempt, OTypeOK, durable
  <1>11. ASSUME NEW plan \in Plans, Apply(plan) \/ Activate(plan) PROVE OTypeOK'
    BY <1>11 DEF Apply, Activate, NextView, OTypeOK
  <1>12. CASE Disable
    BY <1>12 DEF Disable, NextView, OTypeOK
  <1>13. ASSUME NEW p \in Providers, Cool(p) PROVE OTypeOK'
    BY <1>13 DEF Cool, OTypeOK, durable
  <1>14. CASE Reopen
    <2>1. requests' \in [Attempts -> Slots]
      BY <1>0, <1>14 DEF Reopen
    <2>2. service_epoch' \in Nat /\ UNCHANGED durable
      BY <1>0, <1>14 DEF Reopen
    <2>3. QED BY <2>1, <2>2 DEF OTypeOK, durable
  <1>15. CASE UNCHANGED ovars
    BY <1>15 DEF ovars, runtime, durable, OTypeOK
  <1>16. QED
    BY <1>2, <1>4, <1>5, <1>6, <1>7, <1>8, <1>9, <1>10, <1>11, <1>12, <1>13,
       <1>14, <1>15, <1>25 DEF ONext

(* Requests, rows and the view keep their types.                            *)
THEOREM OTypeCorrect == OSpec => []OTypeOK
  <1>1. OInit => OTypeOK
    <2> SUFFICES ASSUME OInit PROVE OTypeOK
      OBVIOUS
    <2>1. TypeOK
      BY InitIInv DEF OInit, IInv
    <2>2. QED BY <2>1, Emptied DEF OInit, OTypeOK
  <1>2. Spec => []TypeOK
    BY TypeCorrect
  <1>3. QED BY <1>1, <1>2, NextOTypeOK, RefinesRouteHealth, PTL DEF OSpec

(* Every step of the requests, the plans and the store either changes what  *)
(* the view shows and numbers the change, or does neither.                  *)
LEMMA StepIsNumbered ==
  ASSUME OTypeOK, OTypeOK', [ONext]_ovars
  PROVE  [Store!Change]_(Store!vars)
  <1> DEFINE shown == <<provider_route_health, active_route_plan, serving_provider>>
             Numbered == shown' # shown /\ view_sequence' = view_sequence + 1
             Silent == shown' = shown /\ view_sequence' = view_sequence
  <1>1. shown' \in [Providers -> Rows \union {None}]
                  \X (Plans \union {None}) \X (Providers \union {None})
    BY DEF OTypeOK
  <1>2. ASSUME NEW a \in Attempts, Persist(a) PROVE Numbered \/ Silent
    <2>1. CASE active_route_plan # None
      BY <1>2, <2>1 DEF Persist, Merge, NextView
    <2>2. CASE active_route_plan = None
      BY <1>2, <2>2 DEF Persist
    <2>3. QED BY <2>1, <2>2
  <1>3. ASSUME NEW a \in Attempts,
               \/ Begin(a) \/ CountSuccess(a) \/ CountFailure(a)
               \/ CountCommittedFailure(a) \/ Relay(a) \/ Leave(a) \/ Record(a)
        PROVE  Silent
    BY <1>3 DEF Begin, CountSuccess, CountFailure, CountCommittedFailure, Relay,
                Leave, Record, durable
  <1>4. ASSUME NEW a \in Attempts, NEW p \in Providers, Attempt(a, p) PROVE Silent
    BY <1>4 DEF Attempt, durable
  <1>5. ASSUME NEW plan \in Plans, Apply(plan) \/ Activate(plan) PROVE Numbered
    BY <1>5 DEF Apply, Activate, NextView
  <1>6. ASSUME Disable PROVE Numbered
    BY <1>6 DEF Disable, NextView
  <1>7. ASSUME NEW p \in Providers, Cool(p) PROVE Silent
    BY <1>7 DEF Cool, durable
  <1>8. ASSUME Reopen \/ UNCHANGED ovars PROVE Silent
    BY <1>8 DEF Reopen, ovars, durable
  <1>9. Numbered \/ Silent
    <2> HIDE DEF Numbered, Silent
    <2>1. QED BY <1>2, <1>3, <1>4, <1>5, <1>6, <1>7, <1>8 DEF ONext
  <1>10. Numbered => Store!Change
    BY <1>1 DEF Store!Change
  <1>11. Silent => UNCHANGED Store!vars
    BY DEF Store!vars
  <1>12. QED BY <1>9, <1>10, <1>11

(* The Target's row in the store is a ViewStore: no change of its content   *)
(* goes unnumbered, and no number is taken without one.                     *)
THEOREM Implementation == OSpec => ImplementsViewStore
  <1>1. OInit /\ OTypeOK => Store!Init
    BY DEF OInit, OTypeOK, Store!Init
  <1>2. OTypeOK /\ OTypeOK' /\ [ONext]_ovars => [Store!Change]_(Store!vars)
    BY StepIsNumbered
  <1>3. QED
    BY <1>1, <1>2, OTypeCorrect, PTL DEF OSpec, ImplementsViewStore, Store!Spec

-----------------------------------------------------------------------------
(* What a request holds of a circuit that circuit has counted.              *)
Counted ==
  \A a \in Attempts, p \in Providers :
    requests[a].observed[p] # None =>
      requests[a].observed[p].total <= circuits[p].total_attempts

SInv == HealthOfThisEpoch /\ ServingNeedsPlan /\ Counted

TotalsGrow ==
  \A p \in Providers : circuits'[p].total_attempts >= circuits[p].total_attempts

(* A step of the circuits within an epoch.                                  *)
CircuitStep ==
  \/ \E a \in Attempts : Succeed(a) \/ Fail(a) \/ Abandon(a)
  \/ \E a \in Attempts, p \in Providers : Admit(a, p)
  \/ \E p \in Providers : Elapse(p)
  \/ UNCHANGED vars

(* Within an epoch no circuit counts backwards.                             *)
LEMMA CountsGrow == TypeOK /\ CircuitStep => TotalsGrow
  <1> SUFFICES ASSUME TypeOK, CircuitStep, NEW q \in Providers
               PROVE  circuits'[q].total_attempts >= circuits[q].total_attempts
    BY DEF TotalsGrow
  <1>0. /\ circuits[q] \in Circuits
        /\ circuits[q].total_attempts \in Nat
        /\ circuits \in [Providers -> Circuits]
    BY DEF TypeOK, Circuits
  <1>1. ASSUME NEW a \in Attempts, Succeed(a) \/ Fail(a) \/ Abandon(a)
        PROVE  circuits'[q].total_attempts >= circuits[q].total_attempts
    <2> DEFINE p == permits[a].provider
    <2>1. \/ circuits' = [circuits EXCEPT ![p] = Succeeded(@)]
          \/ circuits' = [circuits EXCEPT ![p] = Failed(@)]
          \/ circuits' = [circuits EXCEPT ![p] = Released(@, permits[a].half_open)]
      BY <1>1 DEF Succeed, Fail, Abandon
    <2> HIDE DEF p
    <2>2. CASE p # q
      BY <1>0, <2>1, <2>2
    <2>3. CASE p = q
      <3>1. \/ circuits'[q] = Succeeded(circuits[q])
            \/ circuits'[q] = Failed(circuits[q])
            \/ circuits'[q] = Released(circuits[q], permits[a].half_open)
        BY <1>0, <2>1, <2>3
      <3>2. Succeeded(circuits[q]).total_attempts = circuits[q].total_attempts + 1
        BY <1>0 DEF Succeeded, Circuits
      <3>3. Failed(circuits[q]).total_attempts = circuits[q].total_attempts + 1
        BY <1>0 DEF Failed, Circuits
      <3>4. Released(circuits[q], permits[a].half_open).total_attempts
              = circuits[q].total_attempts
        BY <1>0 DEF Released, Circuits
      <3>5. QED BY <1>0, <3>1, <3>2, <3>3, <3>4
    <2>4. QED BY <2>2, <2>3
  <1>2. ASSUME NEW a \in Attempts, NEW p \in Providers, Admit(a, p)
        PROVE  circuits'[q].total_attempts >= circuits[q].total_attempts
    <2>1. circuits' = [circuits EXCEPT ![p] = Admitted(@)]
      BY <1>2 DEF Admit
    <2>2. Admitted(circuits[q]).total_attempts = circuits[q].total_attempts
      BY <1>0 DEF Admitted, Circuits, Phases
    <2>3. QED BY <1>0, <2>1, <2>2
  <1>3. ASSUME NEW p \in Providers, Elapse(p)
        PROVE  circuits'[q].total_attempts >= circuits[q].total_attempts
    <2>1. circuits' = [circuits EXCEPT ![p].elapsed = TRUE]
      BY <1>3 DEF Elapse
    <2>2. QED BY <1>0, <2>1 DEF Circuits
  <1>4. CASE UNCHANGED vars
    BY <1>0, <1>4 DEF vars
  <1>5. QED BY <1>1, <1>2, <1>3, <1>4 DEF CircuitStep

(* Every step keeps what is recorded within what the circuits have counted. *)
LEMMA NextSInv ==
  ASSUME SInv, OTypeOK, OTypeOK', [ONext]_ovars PROVE SInv'
  <1>0. /\ requests \in [Attempts ->
             [stage : {"idle", "routing", "over", "queued"}, plan : Plans \union {None},
              observed : [Providers -> Observations \union {None}],
              serving : Providers \union {None}]]
        /\ provider_route_health \in [Providers -> Rows \union {None}]
        /\ service_epoch \in Nat
        /\ \A p \in Providers : /\ circuits[p].total_attempts \in Nat
                                /\ circuits'[p].total_attempts \in Nat
        /\ \A a \in Attempts, p \in Providers :
             requests[a].observed[p] # None => requests[a].observed[p].total \in Nat
        /\ \A p \in Providers : provider_route_health[p] # None =>
             /\ provider_route_health[p].epoch \in Nat
             /\ provider_route_health[p].observed.total \in Nat
        /\ \A p \in Providers : Idle.observed[p] = None
    <2>1. /\ circuits \in [Providers -> Circuits] /\ circuits' \in [Providers -> Circuits]
          /\ requests \in [Attempts ->
             [stage : {"idle", "routing", "over", "queued"}, plan : Plans \union {None},
              observed : [Providers -> Observations \union {None}],
              serving : Providers \union {None}]]
          /\ provider_route_health \in [Providers -> Rows \union {None}]
          /\ service_epoch \in Nat
      BY DEF OTypeOK, TypeOK
    <2>2. /\ \A p \in Providers : circuits[p] \in Circuits /\ circuits'[p] \in Circuits
          /\ \A c \in Circuits : c.total_attempts \in Nat
      BY <2>1 DEF Circuits
    <2>3. \A a \in Attempts, p \in Providers :
             requests[a].observed[p] \in Observations \union {None}
      BY <2>1
    <2>4. \A p \in Providers : provider_route_health[p] \in Rows \union {None}
      BY <2>1
    <2>5. /\ \A x \in Observations : x.total \in Nat
          /\ \A x \in Rows : x.epoch \in Nat /\ x.observed.total \in Nat
      BY DEF Rows, Observations
    <2>6. \A p \in Providers : Idle.observed[p] = None
      BY DEF Idle
    <2>7. QED BY <2>1, <2>2, <2>3, <2>4, <2>5, <2>6
  <1>1. TypeOK /\ (CircuitStep => TotalsGrow)
    BY CountsGrow DEF OTypeOK
  <1> DEFINE Kept ==
        \A a \in Attempts, p \in Providers :
          requests'[a].observed[p] # None =>
            \/ requests'[a].observed[p] = requests[a].observed[p]
            \/ requests'[a].observed[p].total = circuits'[p].total_attempts
  <1>2. ASSUME CircuitStep, Kept PROVE Counted'
    <2> SUFFICES ASSUME NEW a \in Attempts, NEW p \in Providers,
                        requests'[a].observed[p] # None
                 PROVE  requests'[a].observed[p].total <= circuits'[p].total_attempts
      BY DEF Counted
    <2>1. CASE requests'[a].observed[p] = requests[a].observed[p]
      <3>1. /\ circuits'[p].total_attempts >= circuits[p].total_attempts
            /\ requests[a].observed[p].total <= circuits[p].total_attempts
            /\ requests[a].observed[p].total \in Nat
        BY <1>0, <1>1, <1>2, <2>1 DEF TotalsGrow, SInv, Counted
      <3>2. QED BY <1>0, <2>1, <3>1
    <2>2. CASE requests'[a].observed[p].total = circuits'[p].total_attempts
      BY <1>0, <2>2
    <2>3. QED BY <1>2, <2>1, <2>2
  <1>3. ASSUME CircuitStep, provider_route_health' = provider_route_health,
               service_epoch' = service_epoch
        PROVE  HealthOfThisEpoch'
    <2> SUFFICES ASSUME NEW p \in Providers, provider_route_health[p] # None
                 PROVE  /\ provider_route_health[p].epoch <= service_epoch
                        /\ provider_route_health[p].epoch = service_epoch =>
                             provider_route_health[p].observed.total
                               <= circuits'[p].total_attempts
      BY <1>3 DEF HealthOfThisEpoch
    <2>1. /\ circuits'[p].total_attempts >= circuits[p].total_attempts
          /\ provider_route_health[p].epoch <= service_epoch
          /\ provider_route_health[p].epoch = service_epoch =>
               provider_route_health[p].observed.total <= circuits[p].total_attempts
          /\ provider_route_health[p].observed.total \in Nat
      BY <1>0, <1>1, <1>3 DEF TotalsGrow, SInv, HealthOfThisEpoch
    <2>2. QED BY <1>0, <2>1
  <1>4. ASSUME CircuitStep, Kept, UNCHANGED <<service_epoch, durable>> PROVE SInv'
    <2>1. ServingNeedsPlan'
      BY <1>4 DEF durable, SInv, ServingNeedsPlan
    <2>2. HealthOfThisEpoch'
      BY <1>3, <1>4 DEF durable
    <2>3. Counted'
      BY <1>2, <1>4
    <2>4. QED BY <2>1, <2>2, <2>3 DEF SInv
  <1>5. ASSUME NEW a \in Attempts, Begin(a) PROVE SInv'
    <2>1. CircuitStep /\ UNCHANGED <<service_epoch, durable>>
      BY <1>5 DEF Begin, runtime, vars, CircuitStep
    <2>2. Kept
      BY <1>0, <1>5 DEF Begin, Idle
    <2> HIDE DEF Kept
    <2>3. QED BY <1>4, <2>1, <2>2
  <1>6. ASSUME NEW a \in Attempts, CountSuccess(a) PROVE SInv'
    <2>1. CircuitStep /\ UNCHANGED <<service_epoch, durable>>
      BY <1>6 DEF CountSuccess, CircuitStep
    <2>2. Kept
      <3> DEFINE k == permits[a].provider
                 o == Observation(k, SuccessState(circuits[k]))
      <3>1. ASSUME NEW b \in Attempts, NEW p \in Providers
            PROVE  \/ requests'[b].observed[p] = requests[b].observed[p]
                   \/ p = k /\ requests'[b].observed[p] = o
        <4> HIDE DEF o
        <4>1. CASE b # a BY <1>0, <1>6, <4>1 DEF CountSuccess, o
        <4>2. CASE b = a BY <1>0, <1>6, <4>2 DEF CountSuccess, o
        <4>3. QED BY <4>1, <4>2
      <3>2. o.total = circuits'[k].total_attempts
        BY DEF Observation
      <3> HIDE DEF o
      <3>3. QED BY <3>1, <3>2
    <2> HIDE DEF Kept
    <2>3. QED BY <1>4, <2>1, <2>2
  <1>7. ASSUME NEW a \in Attempts, CountFailure(a) PROVE SInv'
    <2>1. CircuitStep /\ UNCHANGED <<service_epoch, durable>>
      BY <1>7 DEF CountFailure, CircuitStep
    <2>2. Kept
      <3> DEFINE k == permits[a].provider
                 o == Observation(k, FailureState(circuits[k]))
      <3>1. ASSUME NEW b \in Attempts, NEW p \in Providers
            PROVE  \/ requests'[b].observed[p] = requests[b].observed[p]
                   \/ p = k /\ requests'[b].observed[p] = o
        <4> HIDE DEF o
        <4>1. CASE b # a BY <1>0, <1>7, <4>1 DEF CountFailure, o
        <4>2. CASE b = a BY <1>0, <1>7, <4>2 DEF CountFailure, o
        <4>3. QED BY <4>1, <4>2
      <3>2. o.total = circuits'[k].total_attempts
        BY DEF Observation
      <3> HIDE DEF o
      <3>3. QED BY <3>1, <3>2
    <2> HIDE DEF Kept
    <2>3. QED BY <1>4, <2>1, <2>2
  <1>27. ASSUME NEW a \in Attempts, CountCommittedFailure(a) PROVE SInv'
    <2>1. CircuitStep /\ UNCHANGED <<service_epoch, durable>>
      BY <1>27 DEF CountCommittedFailure, CircuitStep
    <2>2. Kept
      <3> DEFINE k == permits[a].provider
                 o == Observation(k, FailureState(circuits[k]))
      <3>1. ASSUME NEW b \in Attempts, NEW p \in Providers
            PROVE  \/ requests'[b].observed[p] = requests[b].observed[p]
                   \/ p = k /\ requests'[b].observed[p] = o
        <4> HIDE DEF o
        <4>1. CASE b # a BY <1>0, <1>27, <4>1 DEF CountCommittedFailure, o
        <4>2. CASE b = a BY <1>0, <1>27, <4>2 DEF CountCommittedFailure, o
        <4>3. QED BY <4>1, <4>2
      <3>2. o.total = circuits'[k].total_attempts
        BY DEF Observation
      <3> HIDE DEF o
      <3>3. QED BY <3>1, <3>2
    <2> HIDE DEF Kept
    <2>3. QED BY <1>4, <2>1, <2>2
  <1>8. ASSUME NEW a \in Attempts, Relay(a) \/ Leave(a) \/ Record(a) PROVE SInv'
    <2>1. CircuitStep /\ UNCHANGED <<service_epoch, durable>>
      BY <1>8 DEF Relay, Leave, Record, runtime, vars, CircuitStep
    <2>2. Kept
      <3>1. CASE Relay(a)
        <4>1. \A b \in Attempts : requests'[b].observed = requests[b].observed
          BY <1>0, <3>1 DEF Relay
        <4>2. QED BY <4>1
      <3>2. CASE Leave(a)
        <4>1. \A b \in Attempts : requests'[b] = IF b = a THEN Idle ELSE requests[b]
          BY <1>0, <3>2 DEF Leave
        <4>2. QED BY <1>0, <4>1
      <3>3. CASE Record(a)
        <4>1. \A b \in Attempts :
                \/ requests'[b] = Idle
                \/ requests'[b].observed = requests[b].observed
          BY <1>0, <3>3 DEF Record
        <4>2. QED BY <1>0, <4>1
      <3>4. QED BY <1>8, <3>1, <3>2, <3>3
    <2> HIDE DEF Kept
    <2>3. QED BY <1>4, <2>1, <2>2
  <1>9. ASSUME CircuitStep, UNCHANGED <<service_epoch, durable, requests>> PROVE SInv'
    <2>1. Kept
      BY <1>9
    <2> HIDE DEF Kept
    <2>2. QED BY <1>4, <1>9, <2>1
  <1>10. ASSUME NEW a \in Attempts, NEW p \in Providers, Attempt(a, p) PROVE SInv'
    BY <1>9, <1>10 DEF Attempt, CircuitStep
  <1>11. ASSUME NEW p \in Providers, Cool(p) PROVE SInv'
    BY <1>9, <1>11 DEF Cool, CircuitStep
  <1>12. ASSUME NEW a \in Attempts, Persist(a) PROVE SInv'
    <2>1. /\ CircuitStep /\ circuits' = circuits
          /\ service_epoch' = service_epoch /\ active_route_plan' = active_route_plan
      BY <1>12 DEF Persist, runtime, vars, CircuitStep
    <2>2. Kept
      BY <1>0, <1>12 DEF Persist
    <2>3. Counted'
      BY <1>2, <2>1, <2>2
    <2>4. CASE active_route_plan = None
      <3>1. UNCHANGED <<provider_route_health, serving_provider>>
        BY <1>12, <2>4 DEF Persist
      <3>2. QED BY <1>3, <2>1, <2>3, <3>1 DEF SInv, ServingNeedsPlan
    <2>5. CASE active_route_plan # None
      <3>1. provider_route_health' = Merged(requests[a])
        BY <1>12, <2>5 DEF Persist, Merge
      <3>2. ServingNeedsPlan'
        BY <2>1, <2>5 DEF ServingNeedsPlan
      <3>3. HealthOfThisEpoch'
        <4> SUFFICES ASSUME NEW p \in Providers,
                            provider_route_health'[p] # provider_route_health[p]
                     PROVE  /\ provider_route_health'[p].epoch = service_epoch
                            /\ provider_route_health'[p].observed.total
                                 <= circuits[p].total_attempts
          BY <1>0, <2>1 DEF SInv, HealthOfThisEpoch
        <4>1. Supersedes(requests[a], p) /\ provider_route_health'[p] = Row(requests[a], p)
          BY <3>1 DEF Merged
        <4>2. requests[a].observed[p] # None
          BY <4>1 DEF Supersedes
        <4>3. QED BY <4>1, <4>2 DEF Row, SInv, Counted
      <3>4. QED BY <2>3, <3>2, <3>3 DEF SInv
    <2>6. QED BY <2>4, <2>5
  <1>13. ASSUME NEW plan \in Plans, Apply(plan) \/ Activate(plan) PROVE SInv'
    <2>1. /\ CircuitStep /\ service_epoch' = service_epoch
          /\ provider_route_health' = provider_route_health /\ requests' = requests
      BY <1>13 DEF Apply, Activate, runtime, vars, CircuitStep
    <2>2. Kept
      BY <2>1
    <2>3. ServingNeedsPlan'
      BY <1>13, ObservationsAssumption DEF Apply, Activate, SInv, ServingNeedsPlan
    <2>4. HealthOfThisEpoch' /\ Counted'
      BY <1>2, <1>3, <2>1, <2>2
    <2>5. QED BY <2>3, <2>4 DEF SInv
  <1>14. CASE Disable
    <2>1. /\ CircuitStep /\ service_epoch' = service_epoch
          /\ provider_route_health' = provider_route_health /\ requests' = requests
          /\ serving_provider' = None
      BY <1>14 DEF Disable, runtime, vars, CircuitStep
    <2>2. Kept
      BY <2>1
    <2>3. HealthOfThisEpoch' /\ Counted'
      BY <1>2, <1>3, <2>1, <2>2
    <2>4. QED BY <2>1, <2>3 DEF SInv, ServingNeedsPlan
  <1>15. CASE Reopen
    <2>1. /\ \A a \in Attempts : requests'[a] = Idle
          /\ service_epoch' = service_epoch + 1
          /\ provider_route_health' = provider_route_health
          /\ serving_provider' = serving_provider /\ active_route_plan' = active_route_plan
      BY <1>15 DEF Reopen, durable
    <2>2. Counted'
      BY <1>0, <2>1 DEF Counted
    <2>3. HealthOfThisEpoch'
      <3> SUFFICES ASSUME NEW p \in Providers, provider_route_health[p] # None
                   PROVE  provider_route_health[p].epoch < service_epoch'
        BY <1>0, <2>1 DEF HealthOfThisEpoch
      <3>1. provider_route_health[p].epoch <= service_epoch
        BY DEF SInv, HealthOfThisEpoch
      <3>2. QED BY <1>0, <2>1, <3>1
    <2>4. ServingNeedsPlan'
      BY <2>1 DEF SInv, ServingNeedsPlan
    <2>5. QED BY <2>2, <2>3, <2>4 DEF SInv
  <1>16. CASE UNCHANGED ovars
    BY <1>9, <1>16 DEF ovars, runtime, vars, CircuitStep
  <1>17. QED
    <2> HIDE DEF Kept
    <2>1. QED
      BY <1>5, <1>6, <1>7, <1>8, <1>10, <1>11, <1>12, <1>13, <1>14, <1>15, <1>16,
         <1>27 DEF ONext

(* Health is sound in the circuits and in what is recorded of them, for any *)
(* number of concurrent requests, restarts and changes of the plan.         *)
THEOREM ObservationsStaySound == OSpec => []ObservationsAreSound
  <1>1. OInit => SInv
    <2> SUFFICES ASSUME OInit PROVE SInv
      OBVIOUS
    <2>1. \A a \in Attempts, p \in Providers : requests[a].observed[p] = None
      BY DEF OInit, Idle
    <2>2. \A p \in Providers : provider_route_health[p] = None
      BY DEF OInit
    <2>3. QED
      BY <2>1, <2>2 DEF OInit, SInv, HealthOfThisEpoch, ServingNeedsPlan, Counted
  <1>2. SInv /\ OTypeOK /\ OTypeOK' /\ [ONext]_ovars => SInv'
    BY NextSInv
  <1>3. SInv /\ HealthIsSound => ObservationsAreSound
    BY DEF SInv, ObservationsAreSound
  <1>4. Spec => []HealthIsSound
    BY HealthStaysSound
  <1>5. QED
    BY <1>1, <1>2, <1>3, <1>4, OTypeCorrect, RefinesRouteHealth, PTL DEF OSpec

-----------------------------------------------------------------------------
(* Views on their way.  A session and its client are Sound when what is on  *)
(* the way between them is: VInv says so of all sessions.                   *)
Kinds == {"push", "open", "outcome", "refused"}
Frames == [kind : Kinds, sequence : Views]
ServerSides ==
  [stage : AtWork \union {"idle", "writing"}, sequence : 0 .. ViewBound,
   deferred : BOOLEAN, opened : BOOLEAN, feed : Seq(Views), lagged : BOOLEAN,
   inbox : Seq({"open", "act"}), outbox : Seq(Frames)]
ClientSides ==
  [view : 0 .. ViewBound, notified : 0 .. ViewBound, refresh : BOOLEAN, acting : BOOLEAN,
   timers : Seq(Views)]

(* No view the client c holds, or that is on its way from x, is above n.    *)
AtMost(x, c, n) ==
  /\ c.view <= n
  /\ \A i \in DOMAIN c.timers : c.timers[i] <= n
  /\ \A i \in DOMAIN x.outbox : x.outbox[i].sequence <= n

Increasing(feed, p) ==
  /\ \A i, j \in DOMAIN feed : i < j => feed[i] < feed[j]
  /\ \A i \in DOMAIN feed : feed[i] <= p

(* A view that answers an action is above all others of its session until   *)
(* it is installed, and nothing follows it in the outbox.                   *)
DecisionIsLast(x, c, n) ==
  /\ AtMost(x, c, n)
  /\ c.notified <= c.view
  /\ x.stage \in AtWork =>
       x.sequence \in 1 .. n /\ AtMost(x, c, x.sequence)
  /\ \A i \in DOMAIN x.outbox :
       x.outbox[i].kind \in {"outcome", "refused"} =>
         /\ x.stage = "writing" /\ i = Len(x.outbox)
         /\ AtMost(x, c, x.outbox[i].sequence)

Sound(x, c, n, p) ==
  /\ x \in ServerSides /\ c \in ClientSides
  /\ Len(x.feed) <= FeedCapacity /\ Len(x.outbox) <= OutboxCapacity
  /\ Increasing(x.feed, p)
  /\ DecisionIsLast(x, c, n)

VInv ==
  /\ committed \in Views /\ published \in 0 .. committed
  /\ writers \in [Writers -> 0 .. committed]
  /\ connected \subseteq Sessions
  /\ sessions = [s \in Sessions |-> sessions[s]]
  /\ clients = [s \in Sessions |-> clients[s]]
  /\ \A s \in Sessions : Sound(sessions[s], clients[s], committed, published)

(* What a client shows and what its listeners were told does not go back.   *)
NotBack(s) ==
  Staying(s) => /\ clients'[s].view >= clients[s].view
                /\ clients'[s].notified >= clients[s].notified
NoneBack == \A s \in Sessions : NotBack(s)

LEMMA FreshIsSound ==
  ASSUME NEW n \in Views, NEW p \in Nat, NEW inbox \in {<<>>, <<"open">>}
  PROVE  /\ Sound(IdleSession, NewClient, n, p)
         /\ Sound([IdleSession EXCEPT !.inbox = inbox], NewClient, n, p)
  <1>1. IdleSession \in ServerSides /\ NewClient \in ClientSides
    BY ViewsAssumption DEF IdleSession, NewClient, ServerSides, ClientSides, Views
  <1> DEFINE x == [IdleSession EXCEPT !.inbox = inbox]
  <1>2. x \in ServerSides
    <2>1. <<>> \in Seq({"open", "act"}) /\ <<"open">> \in Seq({"open", "act"})
      OBVIOUS
    <2>. QED BY <1>1, <2>1 DEF ServerSides
  <1>3. \A y \in {IdleSession, x} : y.feed = <<>> /\ y.outbox = <<>> /\ y.stage = "idle"
    BY DEF IdleSession
  <1>4. n \in Nat /\ NewClient.view = 0 /\ NewClient.notified = 0 /\ NewClient.timers = <<>>
    BY ViewsAssumption DEF NewClient, Views
  <1> HIDE DEF x
  <1>5. \A y \in {IdleSession, x} : AtMost(y, NewClient, n)
    BY <1>3, <1>4 DEF AtMost
  <1>6. \A y \in {IdleSession, x} : DecisionIsLast(y, NewClient, n)
    BY <1>3, <1>4, <1>5 DEF DecisionIsLast, AtWork
  <1>7. \A y \in {IdleSession, x} : Increasing(y.feed, p)
    BY <1>3 DEF Increasing
  <1>. QED BY <1>1, <1>2, <1>3, <1>6, <1>7, ViewsAssumption DEF Sound, x

LEMMA LaterIsSound ==
  ASSUME NEW x, NEW c, NEW n \in Views, NEW p \in Nat, Sound(x, c, n, p),
         NEW m \in Views, NEW q \in Nat, n <= m, p <= q
  PROVE  Sound(x, c, m, q)
  <1>1. n \in Nat /\ m \in Nat
    BY ViewsAssumption DEF Views
  <1>2. AtMost(x, c, m)
    <2>1. c.view \in Nat /\ \A i \in DOMAIN c.timers : c.timers[i] \in Nat
      BY ViewsAssumption DEF Sound, ClientSides, Views
    <2>2. \A i \in DOMAIN x.outbox : x.outbox[i].sequence \in Nat
      <3>1. \A i \in DOMAIN x.outbox : x.outbox[i] \in Frames
        BY DEF Sound, ServerSides
      <3>. QED BY <3>1, ViewsAssumption DEF Frames, Views
    <2>3. AtMost(x, c, n)
      BY DEF Sound, DecisionIsLast
    <2>. QED BY <1>1, <2>1, <2>2, <2>3 DEF AtMost
  <1>3. DecisionIsLast(x, c, m)
    BY <1>1, <1>2, ViewsAssumption DEF Sound, DecisionIsLast, ServerSides
  <1>4. Increasing(x.feed, q)
    BY ViewsAssumption DEF Sound, Increasing, ServerSides, Views
  <1>. QED BY <1>3, <1>4 DEF Sound

(* The session's fields the views are in decide.                            *)
LEMMA SameIsSound ==
  ASSUME NEW x, NEW c, NEW n, NEW p, Sound(x, c, n, p), NEW y \in ServerSides,
         y.feed = x.feed, y.outbox = x.outbox, y.stage = x.stage, y.sequence = x.sequence
  PROVE  Sound(y, c, n, p)
  BY DEF Sound, DecisionIsLast, AtMost, Increasing

LEMMA NumbersOf ==
  ASSUME NEW x, NEW c, NEW n \in Views, NEW p, Sound(x, c, n, p)
  PROVE  /\ x \in ServerSides /\ c \in ClientSides /\ n \in Nat \ {0}
         /\ c.view \in Nat /\ c.notified \in Nat /\ c.notified <= c.view /\ c.view <= n
         /\ Len(c.timers) \in Nat /\ Len(x.outbox) \in Nat /\ Len(x.feed) \in Nat
         /\ DOMAIN c.timers = 1 .. Len(c.timers)
         /\ DOMAIN x.outbox = 1 .. Len(x.outbox)
         /\ DOMAIN x.feed = 1 .. Len(x.feed)
         /\ \A i \in DOMAIN c.timers : c.timers[i] \in Views
         /\ \A i \in DOMAIN x.outbox : x.outbox[i] \in Frames
         /\ \A i \in DOMAIN x.feed : x.feed[i] \in Views
  <1>1. x \in ServerSides /\ c \in ClientSides /\ AtMost(x, c, n) /\ c.notified <= c.view
    BY DEF Sound, DecisionIsLast
  <1>2. n \in Nat \ {0} BY ViewsAssumption DEF Views
  <1>3. c.view \in Nat /\ c.notified \in Nat /\ c.timers \in Seq(Views)
    BY <1>1, ViewsAssumption DEF ClientSides, Views
  <1>4. x.outbox \in Seq(Frames) /\ x.feed \in Seq(Views)
    BY <1>1 DEF ServerSides
  <1>5. c.view <= n BY <1>1 DEF AtMost
  <1>6. /\ Len(c.timers) \in Nat /\ DOMAIN c.timers = 1 .. Len(c.timers)
        /\ \A i \in DOMAIN c.timers : c.timers[i] \in Views
    BY <1>3
  <1>7. /\ Len(x.outbox) \in Nat /\ DOMAIN x.outbox = 1 .. Len(x.outbox)
        /\ \A i \in DOMAIN x.outbox : x.outbox[i] \in Frames
    BY <1>4
  <1>8. /\ Len(x.feed) \in Nat /\ DOMAIN x.feed = 1 .. Len(x.feed)
        /\ \A i \in DOMAIN x.feed : x.feed[i] \in Views
    BY <1>4
  <1>. QED BY <1>1, <1>2, <1>3, <1>5, <1>6, <1>7, <1>8

LEMMA VInvTypes == VInv => ViewsTypeOK /\ PushesIncrease
  <1> SUFFICES ASSUME VInv PROVE ViewsTypeOK /\ PushesIncrease
    OBVIOUS
  <1>1. ViewsTypeOK
    BY ViewsAssumption DEF VInv, Sound, ServerSides, ClientSides, ViewsTypeOK, Views
  <1>2. PushesIncrease
    BY DEF VInv, Sound, Increasing, PushesIncrease
  <1>. QED BY <1>1, <1>2

-----------------------------------------------------------------------------
(* What leaves a session's side as it was, or empties it.                   *)
LEMMA AppendedIs ==
  ASSUME NEW S, NEW q \in Seq(S), NEW e \in S
  PROVE  /\ Append(q, e) \in Seq(S) /\ Len(Append(q, e)) = Len(q) + 1
         /\ DOMAIN Append(q, e) = 1 .. Len(q) + 1
         /\ \A i \in 1 .. Len(q) : Append(q, e)[i] = q[i]
         /\ Append(q, e)[Len(q) + 1] = e
  OBVIOUS

LEMMA TailIs ==
  ASSUME NEW S, NEW q \in Seq(S), q # <<>>
  PROVE  /\ Tail(q) \in Seq(S) /\ Len(Tail(q)) = Len(q) - 1 /\ Len(q) \in Nat \ {0}
         /\ DOMAIN Tail(q) = 1 .. Len(q) - 1
         /\ \A i \in 1 .. Len(q) - 1 : Tail(q)[i] = q[i + 1] /\ i + 1 \in DOMAIN q
         /\ Head(q) = q[1] /\ 1 \in DOMAIN q /\ Head(q) \in S
  OBVIOUS

(* A published view reaches the receiver above everything it holds.         *)
LEMMA ReceivedIsSound ==
  ASSUME NEW x, NEW c, NEW n \in Views, NEW p \in Nat, Sound(x, c, n, p),
         NEW m \in Views, p < m, m <= n
  PROVE  Sound(Received(x, m), c, n, m)
  <1>1. /\ x \in ServerSides /\ x.feed \in Seq(Views) /\ m \in Nat
        /\ \A i \in DOMAIN x.feed : x.feed[i] \in Nat /\ x.feed[i] <= p
    BY ViewsAssumption DEF Sound, ServerSides, Increasing, Views
  <1>2. ASSUME NEW f \in Seq(Views), NEW l \in BOOLEAN, Len(f) <= FeedCapacity,
               Increasing(f, m)
        PROVE  Sound([x EXCEPT !.feed = f, !.lagged = l], c, n, m)
    <2> DEFINE y == [x EXCEPT !.feed = f, !.lagged = l]
    <2>1. y \in ServerSides
      BY <1>1, <1>2 DEF ServerSides
    <2>2. y.outbox = x.outbox /\ y.stage = x.stage /\ y.sequence = x.sequence /\ y.feed = f
      BY <1>1 DEF ServerSides
    <2> HIDE DEF y
    <2>. QED BY <1>2, <2>1, <2>2 DEF Sound, DecisionIsLast, AtMost, y
  <1>3. CASE Len(x.feed) = FeedCapacity
    <2> DEFINE f == Append(Tail(x.feed), m)
    <2>1. x.feed # <<>>
      BY <1>1, <1>3, ViewsAssumption
    <2>2. /\ f \in Seq(Views) /\ Len(f) = Len(x.feed) /\ DOMAIN f = 1 .. Len(x.feed)
          /\ \A i \in 1 .. Len(x.feed) - 1 : f[i] = x.feed[i + 1] /\ i + 1 \in DOMAIN x.feed
          /\ f[Len(x.feed)] = m
      BY <1>1, <2>1, TailIs, AppendedIs
    <2> HIDE DEF f
    <2>3. Increasing(f, m)
      <3>1. Increasing(x.feed, p)
        BY DEF Sound
      <3>2. \A i \in DOMAIN f : i < Len(x.feed) => f[i] = x.feed[i + 1] /\ i + 1 \in DOMAIN x.feed
        BY <2>1, <2>2
      <3>3. \A i \in DOMAIN f : f[i] <= m
        BY <1>1, <2>1, <2>2, <3>2
      <3>4. ASSUME NEW i \in DOMAIN f, NEW j \in DOMAIN f, i < j PROVE f[i] < f[j]
        <4>1. i \in Nat /\ j \in Nat /\ i < Len(x.feed)
          BY <1>1, <2>2, <3>4
        <4>2. CASE j < Len(x.feed)
          BY <3>1, <3>2, <3>4, <4>1, <4>2 DEF Increasing
        <4>3. CASE j = Len(x.feed)
          BY <1>1, <2>2, <3>2, <4>1, <4>3
        <4>. QED BY <1>1, <2>2, <4>1, <4>2, <4>3
      <3>. QED BY <3>3, <3>4 DEF Increasing
    <2>4. Received(x, m) = [x EXCEPT !.feed = f, !.lagged = TRUE]
      BY <1>3 DEF Received, f
    <2>5. Len(f) <= FeedCapacity
      BY <1>3, <2>2, ViewsAssumption
    <2>. QED BY <1>2, <2>2, <2>3, <2>4, <2>5
  <1>4. CASE Len(x.feed) # FeedCapacity
    <2> DEFINE f == Append(x.feed, m)
    <2>1. /\ f \in Seq(Views) /\ Len(f) = Len(x.feed) + 1 /\ DOMAIN f = 1 .. Len(x.feed) + 1
          /\ \A i \in 1 .. Len(x.feed) : f[i] = x.feed[i] /\ i \in DOMAIN x.feed
          /\ f[Len(x.feed) + 1] = m
      BY <1>1, AppendedIs
    <2> HIDE DEF f
    <2>2. Increasing(f, m)
      <3>1. Increasing(x.feed, p) /\ DOMAIN x.feed = 1 .. Len(x.feed) /\ Len(x.feed) \in Nat
        BY <1>1 DEF Sound
      <3>2. \A i \in DOMAIN f : f[i] <= m
        BY <1>1, <2>1, <3>1
      <3>3. ASSUME NEW i \in DOMAIN f, NEW j \in DOMAIN f, i < j PROVE f[i] < f[j]
        <4>1. i \in Nat /\ j \in Nat /\ i <= Len(x.feed)
          BY <2>1, <3>1, <3>3
        <4>2. CASE j <= Len(x.feed)
          BY <2>1, <3>1, <3>3, <4>1, <4>2 DEF Increasing
        <4>3. CASE j = Len(x.feed) + 1
          BY <1>1, <2>1, <3>1, <4>1, <4>3
        <4>. QED BY <2>1, <3>1, <4>1, <4>2, <4>3
      <3>. QED BY <3>2, <3>3 DEF Increasing
    <2>3. Len(f) <= FeedCapacity
      BY <1>1, <1>4, <2>1, ViewsAssumption DEF Sound
    <2>4. Received(x, m) = [x EXCEPT !.feed = f, !.lagged = x.lagged]
      BY <1>1, <1>4 DEF Received, f, ServerSides
    <2>5. x.lagged \in BOOLEAN
      BY <1>1 DEF ServerSides
    <2>. QED BY <1>2, <2>1, <2>2, <2>3, <2>4, <2>5
  <1>. QED BY <1>3, <1>4

(* A frame that is queued is none the client should have had before: a view *)
(* that is pushed or read is committed, the answer of an action is above    *)
(* all others.                                                              *)
LEMMA QueuedIsSound ==
  ASSUME NEW x, NEW c, NEW n \in Views, NEW p \in Nat, Sound(x, c, n, p),
         NEW kind \in Kinds, NEW m \in Views, m <= n, Len(x.outbox) < OutboxCapacity,
         \/ kind \in {"push", "open"} /\ x.stage = "idle"
         \/ kind \in {"outcome", "refused"} /\ x.stage = "writing" /\ AtMost(x, c, m)
            /\ \A i \in DOMAIN x.outbox : x.outbox[i].kind \notin {"outcome", "refused"}
  PROVE  Sound([x EXCEPT !.outbox = Append(@, Frame(kind, m))], c, n, p)
  <1> DEFINE o == Append(x.outbox, Frame(kind, m))
             y == [x EXCEPT !.outbox = o]
  <1>1. /\ x \in ServerSides /\ x.outbox \in Seq(Frames) /\ m \in Nat /\ n \in Nat
        /\ \A i \in DOMAIN x.outbox : x.outbox[i] \in Frames
    BY ViewsAssumption DEF Sound, ServerSides, Views
  <1>2. Frame(kind, m) \in Frames /\ Frame(kind, m).kind = kind /\ Frame(kind, m).sequence = m
    BY DEF Frame, Frames
  <1>3. /\ o \in Seq(Frames) /\ Len(o) = Len(x.outbox) + 1 /\ DOMAIN o = 1 .. Len(x.outbox) + 1
        /\ \A i \in 1 .. Len(x.outbox) : o[i] = x.outbox[i] /\ i \in DOMAIN x.outbox
        /\ o[Len(x.outbox) + 1] = Frame(kind, m)
    BY <1>1, <1>2, AppendedIs
  <1> HIDE DEF o
  <1>4. /\ y \in ServerSides /\ y.outbox = o /\ y.stage = x.stage /\ y.sequence = x.sequence
        /\ y.feed = x.feed
    BY <1>1, <1>3 DEF ServerSides
  <1> HIDE DEF y
  <1>5. \A k \in Nat : AtMost(x, c, k) /\ m <= k => AtMost(y, c, k)
    BY <1>2, <1>3, <1>4 DEF AtMost
  <1>6. Len(o) <= OutboxCapacity /\ Len(x.outbox) \in Nat /\ DOMAIN x.outbox = 1 .. Len(x.outbox)
    BY <1>1, <1>3, ViewsAssumption
  <1>7. DecisionIsLast(y, c, n)
    <2>1. DecisionIsLast(x, c, n)
      BY DEF Sound
    <2>2. AtMost(y, c, n)
      BY <1>1, <1>5, <2>1 DEF DecisionIsLast
    <2>3. x.stage \notin AtWork
      BY DEF AtWork
    <2>4. \A i \in DOMAIN o : o[i].kind \in {"outcome", "refused"} =>
            /\ x.stage = "writing" /\ i = Len(o) /\ o[i].sequence = m /\ AtMost(x, c, m)
      <3> SUFFICES ASSUME NEW i \in DOMAIN o, o[i].kind \in {"outcome", "refused"}
                   PROVE  /\ x.stage = "writing" /\ i = Len(o)
                          /\ o[i].sequence = m /\ AtMost(x, c, m)
        OBVIOUS
      <3>1. i \in 1 .. Len(x.outbox) \/ i = Len(x.outbox) + 1
        BY <1>3, <1>6
      <3>2. CASE i \in 1 .. Len(x.outbox)
        <4>1. o[i] = x.outbox[i] /\ i \in DOMAIN x.outbox
          BY <1>3, <3>2
        <4>2. x.stage = "writing" /\ x.outbox[i].kind \in {"outcome", "refused"}
          BY <2>1, <4>1 DEF DecisionIsLast
        <4>. QED BY <4>1, <4>2
      <3>3. CASE i = Len(x.outbox) + 1
        <4>1. o[i].kind = kind /\ o[i].sequence = m /\ i = Len(o)
          BY <1>2, <1>3, <3>3
        <4>. QED BY <4>1
      <3>. QED BY <3>1, <3>2, <3>3
    <2>5. AtMost(x, c, m) => AtMost(y, c, m)
      BY <1>1, <1>5
    <2>6. \A i \in DOMAIN y.outbox : y.outbox[i].kind \in {"outcome", "refused"} =>
            y.stage = "writing" /\ i = Len(y.outbox) /\ AtMost(y, c, y.outbox[i].sequence)
      BY <1>4, <2>4, <2>5
    <2>7. y.stage \notin AtWork /\ c.notified <= c.view
      BY <1>4, <2>1, <2>3 DEF DecisionIsLast
    <2>. QED BY <2>2, <2>6, <2>7 DEF DecisionIsLast
  <1>8. y = [x EXCEPT !.outbox = Append(@, Frame(kind, m))]
    BY DEF y, o
  <1>. QED BY <1>4, <1>6, <1>7, <1>8 DEF Sound

-----------------------------------------------------------------------------
LEMMA ClientNumbers ==
  ASSUME VInv, NEW r \in Sessions
  PROVE  /\ clients[r].view \in Nat /\ clients[r].notified \in Nat
         /\ Sound(sessions[r], clients[r], committed, published)
  <1>1. Sound(sessions[r], clients[r], committed, published)
    BY DEF VInv
  <1>. QED BY <1>1 DEF Sound, ClientSides

LEMMA OneSessionMoves ==
  ASSUME VInv, NEW s \in Sessions, NEW x, NEW c,
         committed' \in Views, committed <= committed', published' = published,
         writers' \in [Writers -> 0 .. committed'], connected' \subseteq Sessions,
         Sound(x, c, committed', published),
         sessions' = [sessions EXCEPT ![s] = x], clients' = [clients EXCEPT ![s] = c],
         s \in connected /\ s \in connected' =>
           c.view >= clients[s].view /\ c.notified >= clients[s].notified
  PROVE  VInv' /\ NoneBack
  <1>1. committed \in Nat /\ committed' \in Nat /\ committed \in Views /\ published \in Nat
    BY ViewsAssumption DEF VInv, Views
  <1>2. ASSUME NEW r \in Sessions
        PROVE  Sound(sessions'[r], clients'[r], committed', published')
    <2>1. CASE r = s
      BY <2>1 DEF VInv
    <2>2. CASE r # s
      <3>1. sessions'[r] = sessions[r] /\ clients'[r] = clients[r]
        BY <2>2 DEF VInv
      <3>2. Sound(sessions[r], clients[r], committed, published)
        BY DEF VInv
      <3>. QED BY <1>1, <3>1, <3>2, LaterIsSound
    <2>. QED BY <2>1, <2>2
  <1>3. VInv'
    <2>1. /\ sessions' = [r \in Sessions |-> sessions'[r]]
          /\ clients' = [r \in Sessions |-> clients'[r]]
      BY DEF VInv
    <2>2. committed' \in Views /\ published' \in 0 .. committed'
      BY <1>1 DEF VInv
    <2>. QED BY <1>2, <2>1, <2>2 DEF VInv
  <1>4. NoneBack
    <2> SUFFICES ASSUME NEW r \in Sessions, Staying(r)
                 PROVE  /\ clients'[r].view >= clients[r].view
                        /\ clients'[r].notified >= clients[r].notified
      BY DEF NoneBack, NotBack
    <2>1. CASE r = s
      BY <2>1 DEF VInv, Staying
    <2>2. CASE r # s
      <3>1. clients'[r] = clients[r]
        BY <2>2 DEF VInv
      <3>. QED BY <3>1, ClientNumbers
    <2>. QED BY <2>1, <2>2
  <1>. QED BY <1>3, <1>4

LEMMA NothingMoves ==
  ASSUME VInv, committed' \in Views, committed <= committed', published' = published,
         writers' \in [Writers -> 0 .. committed'],
         UNCHANGED <<connected, sessions, clients>>
  PROVE  VInv' /\ NoneBack
  <1>1. committed \in Nat /\ committed \in Views /\ committed' \in Nat /\ published \in Nat
    BY ViewsAssumption DEF VInv, Views
  <1>2. \A r \in Sessions : Sound(sessions[r], clients[r], committed, published)
    BY DEF VInv
  <1>3. VInv'
    BY <1>1, <1>2, LaterIsSound DEF VInv
  <1>4. NoneBack
    BY ClientNumbers DEF NoneBack, NotBack
  <1>. QED BY <1>3, <1>4

LEMMA SentHolds ==
  ASSUME VInv, NEW s \in Sessions, NEW x,
         committed' \in Views, committed <= committed', published' = published,
         writers' = writers, Sound(x, clients[s], committed', published),
         NEW kind \in Kinds, NEW m \in Views, m <= committed',
         \/ kind \in {"push", "open"} /\ x.stage = "idle"
         \/ kind \in {"outcome", "refused"} /\ x.stage = "writing" /\ AtMost(x, clients[s], m)
            /\ \A i \in DOMAIN x.outbox : x.outbox[i].kind \notin {"outcome", "refused"},
         Send(s, x, kind, m)
  PROVE  VInv' /\ NoneBack
  <1>1. /\ committed \in Nat /\ committed \in Views /\ committed' \in Nat /\ published \in Nat
        /\ writers' \in [Writers -> 0 .. committed']
    BY ViewsAssumption DEF VInv, Views
  <1>2. CASE Len(x.outbox) < OutboxCapacity
    <2> DEFINE y == [x EXCEPT !.outbox = Append(@, Frame(kind, m))]
    <2>1. Sound(y, clients[s], committed', published)
      BY <1>1, <1>2, QueuedIsSound
    <2>2. /\ sessions' = [sessions EXCEPT ![s] = y]
          /\ UNCHANGED <<connected, clients>>
      BY <1>2 DEF Send
    <2>3. clients' = [clients EXCEPT ![s] = clients[s]]
      BY <2>2 DEF VInv
    <2>4. clients[s].view >= clients[s].view /\ clients[s].notified >= clients[s].notified
      BY ClientNumbers
    <2>5. connected' \subseteq Sessions
      BY <2>2 DEF VInv
    <2> HIDE DEF y
    <2>. QED BY <1>1, <2>1, <2>2, <2>3, <2>4, <2>5, OneSessionMoves
  <1>3. CASE ~(Len(x.outbox) < OutboxCapacity)
    <2>1. Close(s)
      BY <1>3 DEF Send
    <2>2. Sound(IdleSession, NewClient, committed', published)
      BY <1>1, FreshIsSound
    <2>3. connected' \subseteq Sessions /\ s \notin connected'
      BY <2>1 DEF VInv, Close
    <2>. QED BY <1>1, <2>1, <2>2, <2>3, OneSessionMoves DEF Close
  <1>. QED BY <1>2, <1>3

LEMMA PublishedHolds ==
  ASSUME VInv, NEW ss, ss = [r \in Sessions |-> ss[r]],
         \A r \in Sessions : Sound(ss[r], clients[r], committed, published),
         NEW m \in Nat, PublishTo(ss, m), UNCHANGED <<committed, connected, clients>>,
         writers' \in [Writers -> 0 .. committed]
  PROVE  VInv' /\ NoneBack
  <1>1. /\ committed \in Nat /\ committed \in Views /\ published \in Nat
        /\ published <= committed
    BY ViewsAssumption DEF VInv, Views
  <1>2. NoneBack
    BY ClientNumbers DEF NoneBack, NotBack
  <1>3. CASE Newest(m)
    <2>1. m = committed /\ published < m /\ published' = m
      BY <1>1, <1>3 DEF Newest, PublishTo
    <2>2. sessions' = [r \in Sessions |->
            IF r \in connected THEN Received(ss[r], m) ELSE ss[r]]
      BY <1>3 DEF PublishTo
    <2>3. ASSUME NEW r \in Sessions
          PROVE  Sound(sessions'[r], clients[r], committed, m)
      <3>1. Sound(ss[r], clients[r], committed, published)
        OBVIOUS
      <3>2. Sound(Received(ss[r], m), clients[r], committed, m)
        BY <1>1, <2>1, <3>1, ReceivedIsSound
      <3>3. Sound(ss[r], clients[r], committed, m)
        BY <1>1, <2>1, <3>1, LaterIsSound
      <3>. QED BY <2>2, <3>2, <3>3
    <2>. QED BY <1>1, <1>2, <2>1, <2>2, <2>3 DEF VInv
  <1>4. CASE ~Newest(m)
    BY <1>1, <1>2, <1>4 DEF PublishTo, VInv
  <1>. QED BY <1>3, <1>4

Unanswered(x) == \A i \in DOMAIN x.outbox : x.outbox[i].kind \notin {"outcome", "refused"}

LEMMA UnansweredWhileAtIt ==
  ASSUME NEW x, NEW c, NEW n, NEW p, Sound(x, c, n, p), x.stage # "writing"
  PROVE  Unanswered(x)
  BY DEF Sound, DecisionIsLast, Unanswered

(* A session moves on to another stage while no answer is in its outbox.    *)
LEMMA StagedIsSound ==
  ASSUME NEW x, NEW c, NEW n, NEW p, Sound(x, c, n, p), Unanswered(x),
         NEW y \in ServerSides, y.feed = x.feed, y.outbox = x.outbox,
         y.stage \in AtWork =>
           y.sequence \in 1 .. n /\ AtMost(x, c, y.sequence)
  PROVE  Sound(y, c, n, p)
  BY DEF Sound, DecisionIsLast, AtMost, Unanswered

LEMMA WriteHolds ==
  ASSUME VInv, NEW w \in Writers, Write(w) \/ Forget(w)
  PROVE  VInv' /\ NoneBack
  <1>1. committed' \in Views /\ committed <= committed' /\ committed \in Nat /\ committed' \in Nat
    BY ViewsAssumption DEF VInv, Write, Forget, Commits, Views
  <1>2. writers' \in [Writers -> 0 .. committed']
    BY <1>1 DEF VInv, Write, Forget
  <1>. QED BY <1>1, <1>2, NothingMoves DEF Write, Forget

LEMMA PublishWrittenHolds ==
  ASSUME VInv, NEW w \in Writers, PublishWritten(w)
  PROVE  VInv' /\ NoneBack
  <1>1. writers[w] \in Nat /\ writers' \in [Writers -> 0 .. committed] /\ committed \in Nat
    BY ViewsAssumption DEF VInv, PublishWritten, Views
  <1>2. \A r \in Sessions : Sound(sessions[r], clients[r], committed, published)
    BY DEF VInv
  <1>. QED BY <1>1, <1>2, PublishedHolds DEF PublishWritten, VInv

LEMMA ConnectHolds ==
  ASSUME VInv, NEW s \in Sessions, Connect(s)
  PROVE  VInv' /\ NoneBack
  <1> DEFINE x == [IdleSession EXCEPT !.inbox = <<"open">>]
  <1>1. Sound(x, NewClient, committed, published)
    BY FreshIsSound DEF VInv
  <1>2. /\ sessions' = [sessions EXCEPT ![s] = x]
        /\ clients' = [clients EXCEPT ![s] = NewClient] /\ s \notin connected
        /\ committed' = committed /\ published' = published /\ writers' = writers
    BY DEF Connect
  <1>3. connected' \subseteq Sessions /\ committed \in Views /\ committed \in Nat
    BY ViewsAssumption DEF VInv, Connect, Views
  <1>4. writers' \in [Writers -> 0 .. committed'] /\ committed <= committed'
    BY <1>2, <1>3 DEF VInv
  <1> HIDE DEF x
  <1>. QED BY <1>1, <1>2, <1>3, <1>4, OneSessionMoves

LEMMA TakenIs ==
  ASSUME VInv, NEW s \in Sessions, NEW request, Asked(s, request)
  PROVE  /\ Taken(s) \in ServerSides /\ Taken(s).feed = sessions[s].feed
         /\ Taken(s).outbox = sessions[s].outbox /\ Taken(s).stage = "idle"
         /\ Taken(s).sequence = sessions[s].sequence
         /\ sessions[s].stage = "idle"
         /\ Unanswered(sessions[s])
  <1>1. sessions[s] \in ServerSides /\ Sound(sessions[s], clients[s], committed, published)
    BY DEF VInv, Sound
  <1>2. sessions[s].stage = "idle" /\ sessions[s].inbox # <<>>
    BY DEF Asked, Idling
  <1>3. Tail(sessions[s].inbox) \in Seq({"open", "act"})
    <2>1. sessions[s].inbox \in Seq({"open", "act"})
      BY <1>1 DEF ServerSides
    <2>. QED BY <1>2, <2>1, TailIs
  <1>. QED BY <1>1, <1>2, <1>3, UnansweredWhileAtIt DEF Taken, ServerSides

LEMMA OpenHolds ==
  ASSUME VInv, NEW s \in Sessions, Open(s)
  PROVE  VInv' /\ NoneBack
  <1> DEFINE x == [Taken(s) EXCEPT !.opened = TRUE]
  <1>1. /\ Taken(s) \in ServerSides /\ Taken(s).feed = sessions[s].feed
        /\ Taken(s).outbox = sessions[s].outbox /\ Taken(s).stage = sessions[s].stage
        /\ Taken(s).sequence = sessions[s].sequence /\ Taken(s).stage = "idle"
    BY TakenIs DEF Open
  <1>2. /\ x \in ServerSides /\ x.feed = sessions[s].feed /\ x.outbox = sessions[s].outbox
        /\ x.stage = sessions[s].stage /\ x.sequence = sessions[s].sequence /\ x.stage = "idle"
    BY <1>1 DEF ServerSides
  <1>3. committed' = committed /\ published' = published /\ writers' = writers
        /\ Send(s, x, "open", committed)
    BY DEF Open
  <1> HIDE DEF x
  <1>4. Sound(x, clients[s], committed, published)
    BY <1>2, SameIsSound DEF VInv
  <1>5. committed \in Views /\ committed <= committed
    BY ViewsAssumption DEF VInv, Views
  <1>. QED BY <1>2, <1>3, <1>4, <1>5, SentHolds DEF Kinds

(* An action is done with, and the view that answers it is read: it is      *)
(* above all the client has, or will have before its answer.                *)
LEMMA AnswerReadHolds ==
  ASSUME VInv, NEW s \in Sessions, NEW stage \in AtWork, NEW deferred \in BOOLEAN,
         Asked(s, "act"), committed' \in Views, committed <= committed',
         committed' \in 0 .. ViewBound,
         sessions' = [sessions EXCEPT ![s] =
           [Taken(s) EXCEPT !.stage = stage, !.sequence = committed', !.deferred = deferred]],
         UNCHANGED <<published, writers, connected, clients>>
  PROVE  VInv' /\ NoneBack
  <1> DEFINE x == [Taken(s) EXCEPT !.stage = stage, !.sequence = committed', !.deferred = deferred]
  <1>3. /\ committed \in Nat /\ committed \in Views /\ committed' \in Nat \ {0}
        /\ published \in Nat
    BY ViewsAssumption DEF VInv, Views
  <1>4. /\ Taken(s) \in ServerSides /\ Taken(s).feed = sessions[s].feed
        /\ Taken(s).outbox = sessions[s].outbox /\ Unanswered(sessions[s])
    BY TakenIs
  <1>5. /\ x \in ServerSides /\ x.feed = sessions[s].feed /\ x.outbox = sessions[s].outbox
        /\ x.sequence = committed'
    <2>1. \A n \in 0 .. ViewBound :
            LET y == [Taken(s) EXCEPT !.stage = stage, !.sequence = n, !.deferred = deferred]
            IN  y \in ServerSides /\ y.feed = sessions[s].feed
                /\ y.outbox = sessions[s].outbox /\ y.sequence = n
      <3> HIDE DEF Taken
      <3>. QED BY <1>4 DEF ServerSides
    <2>. QED BY <2>1
  <1> HIDE DEF x
  <1>6. Sound(sessions[s], clients[s], committed', published)
    BY <1>3, LaterIsSound DEF VInv
  <1>7. Sound(x, clients[s], committed', published)
    <2>1. AtMost(sessions[s], clients[s], committed') /\ x.sequence \in 1 .. committed'
      BY <1>3, <1>5, <1>6 DEF Sound, DecisionIsLast
    <2>. QED BY <1>4, <1>5, <1>6, <2>1, StagedIsSound
  <1>8. /\ sessions' = [sessions EXCEPT ![s] = x]
        /\ clients' = [clients EXCEPT ![s] = clients[s]]
        /\ published' = published /\ connected' = connected /\ writers' = writers
    BY DEF VInv, x
  <1>9. /\ connected' \subseteq Sessions
        /\ writers' \in [Writers -> 0 .. committed']
    BY <1>3, <1>8 DEF VInv
  <1>10. clients[s].view >= clients[s].view /\ clients[s].notified >= clients[s].notified
    BY ClientNumbers
  <1>. QED BY <1>3, <1>7, <1>8, <1>9, <1>10, OneSessionMoves

LEMMA ActHolds ==
  ASSUME VInv, NEW s \in Sessions, Act(s)
  PROVE  VInv' /\ NoneBack
  <1>1. PICK deferred \in BOOLEAN :
          sessions' = [sessions EXCEPT ![s] =
            [Taken(s) EXCEPT !.stage = IF deferred THEN "answering" ELSE "publishing",
                             !.sequence = committed', !.deferred = deferred]]
    BY DEF Act
  <1>2. PICK stage \in AtWork : stage = IF deferred THEN "answering" ELSE "publishing"
    BY DEF AtWork
  <1>3. /\ committed' \in Views /\ committed <= committed' /\ committed' \in 0 .. ViewBound
    BY ViewsAssumption DEF VInv, Act, Commits, Views
  <1>4. Asked(s, "act") /\ UNCHANGED <<published, writers, connected, clients>>
    BY DEF Act
  <1>. QED BY <1>1, <1>2, <1>3, <1>4, AnswerReadHolds

LEMMA RefuseHolds ==
  ASSUME VInv, NEW s \in Sessions, Refuse(s)
  PROVE  VInv' /\ NoneBack
  <1>1. PICK deferred \in BOOLEAN :
          sessions' = [sessions EXCEPT ![s] =
            [Taken(s) EXCEPT !.stage = "refusing", !.sequence = committed',
                             !.deferred = deferred]]
    BY DEF Refuse
  <1>2. /\ committed \in Nat /\ committed \in Views /\ committed' \in Views
        /\ published \in Nat /\ committed <= committed' /\ committed' \in Nat \ {0}
    BY ViewsAssumption DEF VInv, Refuse, Commits, Views
  <1>3. committed' \in 0 .. ViewBound
    BY <1>2 DEF Views
  <1>4. Asked(s, "act") /\ UNCHANGED <<published, writers, connected, clients>>
    BY DEF Refuse
  <1>. QED BY <1>1, <1>2, <1>3, <1>4, AnswerReadHolds DEF AtWork

LEMMA PublishActedHolds ==
  ASSUME VInv, NEW s \in Sessions, PublishActed(s)
  PROVE  VInv' /\ NoneBack
  <1> DEFINE x == [sessions[s] EXCEPT !.stage = "answering"]
             ss == [sessions EXCEPT ![s].stage = "answering"]
  <1>1. /\ Sound(sessions[s], clients[s], committed, published)
        /\ sessions[s] \in ServerSides /\ sessions[s].stage = "publishing"
    BY DEF VInv, Sound, PublishActed
  <1>2. /\ x \in ServerSides /\ x.feed = sessions[s].feed /\ x.outbox = sessions[s].outbox
        /\ x.sequence = sessions[s].sequence
    BY <1>1 DEF ServerSides, AtWork
  <1>3. /\ ss = [sessions EXCEPT ![s] = x]
    OBVIOUS
  <1> HIDE DEF x, ss
  <1>4. Unanswered(sessions[s])
    BY <1>1, UnansweredWhileAtIt
  <1>5. /\ sessions[s].sequence \in 1 .. committed
        /\ AtMost(sessions[s], clients[s], sessions[s].sequence)
    BY <1>1 DEF Sound, DecisionIsLast, AtWork
  <1>6. Sound(x, clients[s], committed, published)
    BY <1>1, <1>2, <1>4, <1>5, StagedIsSound
  <1>7. /\ ss = [r \in Sessions |-> ss[r]]
        /\ \A r \in Sessions : Sound(ss[r], clients[r], committed, published)
    BY <1>3, <1>6 DEF VInv
  <1>8. PublishTo(ss, sessions[s].sequence) /\ UNCHANGED <<committed, writers, connected, clients>>
    BY DEF PublishActed, ss
  <1>9. sessions[s].sequence \in Nat /\ writers' \in [Writers -> 0 .. committed]
    BY <1>1, <1>5, <1>8, ViewsAssumption DEF VInv, ServerSides
  <1>. QED BY <1>7, <1>8, <1>9, PublishedHolds

LEMMA AnswerHolds ==
  ASSUME VInv, NEW s \in Sessions, Answer(s)
  PROVE  VInv' /\ NoneBack
  <1> DEFINE x == [sessions[s] EXCEPT !.stage = "writing"]
  <1>1. /\ Sound(sessions[s], clients[s], committed, published)
        /\ sessions[s] \in ServerSides /\ sessions[s].stage \in {"answering", "refusing"}
        /\ UNCHANGED <<committed, published, writers>>
    BY DEF VInv, Sound, Answer
  <1>2. /\ committed \in Views /\ committed \in Nat /\ published \in Nat
        /\ committed' \in Views /\ committed <= committed' /\ committed' \in Nat
    BY <1>1, ViewsAssumption DEF VInv, Views
  <1>3. CASE s \in connected
    <2>1. /\ x \in ServerSides /\ x.feed = sessions[s].feed /\ x.outbox = sessions[s].outbox
          /\ x.sequence = sessions[s].sequence /\ x.stage = "writing"
      BY <1>1 DEF ServerSides
    <2>2. Send(s, x, AnswerKind(s), sessions[s].sequence) /\ AnswerKind(s) \in {"outcome", "refused"}
      BY <1>3 DEF Answer, AnswerKind
    <2> HIDE DEF x
    <2>3. Unanswered(sessions[s])
      BY <1>1, UnansweredWhileAtIt
    <2>4. /\ sessions[s].sequence \in 1 .. committed
          /\ AtMost(sessions[s], clients[s], sessions[s].sequence)
      BY <1>1 DEF Sound, DecisionIsLast, AtWork
    <2>5. Sound(x, clients[s], committed', published)
      BY <1>1, <2>1, <2>3, StagedIsSound DEF AtWork
    <2>6. /\ AtMost(x, clients[s], sessions[s].sequence)
          /\ \A i \in DOMAIN x.outbox : x.outbox[i].kind \notin {"outcome", "refused"}
      BY <2>1, <2>3, <2>4 DEF AtMost, Unanswered
    <2>7. sessions[s].sequence \in Views /\ sessions[s].sequence <= committed'
      BY <1>1, <1>2, <2>4, ViewsAssumption DEF Views
    <2>. QED BY <1>1, <1>2, <2>1, <2>2, <2>5, <2>6, <2>7, SentHolds DEF Kinds
  <1>4. CASE s \notin connected
    <2>1. /\ sessions' = [sessions EXCEPT ![s] = IdleSession] /\ UNCHANGED <<connected, clients>>
      BY <1>4 DEF Answer
    <2>2. clients' = [clients EXCEPT ![s] = clients[s]] /\ connected' \subseteq Sessions
          /\ writers' \in [Writers -> 0 .. committed']
      BY <1>1, <2>1 DEF VInv
    <2>3. IdleSession \in ServerSides
      BY <1>2, FreshIsSound DEF Sound
    <2>4. Sound(IdleSession, clients[s], committed', published)
      <3>1. Sound(IdleSession, NewClient, committed, published)
        BY <1>2, FreshIsSound
      <3>2. IdleSession.outbox = <<>> /\ IdleSession.stage = "idle"
        BY DEF IdleSession
      <3>. QED BY <1>1, <3>1, <3>2 DEF Sound, DecisionIsLast, AtMost, AtWork
    <2>. QED BY <1>1, <1>2, <1>4, <2>1, <2>2, <2>4, OneSessionMoves
  <1>. QED BY <1>3, <1>4

LEMMA AcknowledgeHolds ==
  ASSUME VInv, NEW s \in Sessions, Acknowledge(s)
  PROVE  VInv' /\ NoneBack
  <1> DEFINE x == [sessions[s] EXCEPT !.stage = "idle", !.deferred = FALSE]
             ss == [sessions EXCEPT ![s].stage = "idle", ![s].deferred = FALSE]
  <1>1. /\ Sound(sessions[s], clients[s], committed, published)
        /\ sessions[s] \in ServerSides /\ Unanswered(sessions[s])
    BY DEF VInv, Sound, Acknowledge, Unanswered
  <1>2. /\ x \in ServerSides /\ x.feed = sessions[s].feed /\ x.outbox = sessions[s].outbox
        /\ x.stage = "idle"
    BY <1>1 DEF ServerSides
  <1>3. ss = [sessions EXCEPT ![s] = x]
    BY DEF VInv
  <1>4. UNCHANGED <<committed, writers, connected, clients>>
    BY DEF Acknowledge
  <1>5. \/ PublishTo(ss, sessions[s].sequence)
        \/ sessions' = ss /\ published' = published
    BY DEF Acknowledge
  <1> HIDE DEF x, ss
  <1>6. Sound(x, clients[s], committed, published)
    BY <1>1, <1>2, StagedIsSound DEF AtWork
  <1>7. /\ ss = [r \in Sessions |-> ss[r]]
        /\ \A r \in Sessions : Sound(ss[r], clients[r], committed, published)
    BY <1>3, <1>6 DEF VInv
  <1>8. sessions[s].sequence \in Nat /\ writers' \in [Writers -> 0 .. committed]
    BY <1>1, <1>4, ViewsAssumption DEF VInv, ServerSides
  <1>9. CASE sessions' = ss /\ published' = published
    BY <1>4, <1>7, <1>9, ClientNumbers DEF VInv, NoneBack, NotBack
  <1>. QED BY <1>4, <1>5, <1>7, <1>8, <1>9, PublishedHolds

LEMMA ForwardHolds ==
  ASSUME VInv, NEW s \in Sessions, Forward(s)
  PROVE  VInv' /\ NoneBack
  <1>1. /\ Sound(sessions[s], clients[s], committed, published)
        /\ sessions[s] \in ServerSides /\ sessions[s].stage = "idle"
        /\ UNCHANGED <<committed, published, writers>>
    BY DEF VInv, Sound, Forward, MayForward, Idling
  <1>2. /\ committed \in Views /\ committed \in Nat /\ published \in Nat /\ published <= committed
        /\ committed <= committed'
    BY <1>1, ViewsAssumption DEF VInv, Views
  <1>3. CASE sessions[s].lagged /\ Send(s, [sessions[s] EXCEPT !.lagged = FALSE], "push", committed)
    <2> DEFINE x == [sessions[s] EXCEPT !.lagged = FALSE]
    <2>1. /\ x \in ServerSides /\ x.feed = sessions[s].feed /\ x.outbox = sessions[s].outbox
          /\ x.stage = "idle" /\ x.sequence = sessions[s].sequence
      BY <1>1 DEF ServerSides
    <2> HIDE DEF x
    <2>2. Sound(x, clients[s], committed', published)
      BY <1>1, <2>1, SameIsSound
    <2>3. Send(s, x, "push", committed)
      BY <1>3 DEF x
    <2>. QED BY <1>1, <1>2, <2>1, <2>2, <2>3, SentHolds DEF Kinds
  <1>4. CASE sessions[s].feed # <<>>
             /\ Send(s, [sessions[s] EXCEPT !.feed = Tail(@)], "push", Head(sessions[s].feed))
    <2> DEFINE f == Tail(sessions[s].feed)
               m == Head(sessions[s].feed)
               x == [sessions[s] EXCEPT !.feed = f]
    <2>1. /\ sessions[s].feed \in Seq(Views)
          /\ Increasing(sessions[s].feed, published)
          /\ Len(sessions[s].feed) <= FeedCapacity
      BY <1>1 DEF ServerSides, Sound
    <2>2. /\ f \in Seq(Views) /\ Len(f) = Len(sessions[s].feed) - 1
          /\ DOMAIN f = 1 .. Len(sessions[s].feed) - 1 /\ Len(sessions[s].feed) \in Nat \ {0}
          /\ \A i \in DOMAIN f : f[i] = sessions[s].feed[i + 1] /\ i + 1 \in DOMAIN sessions[s].feed
          /\ m = sessions[s].feed[1] /\ 1 \in DOMAIN sessions[s].feed /\ m \in Views
      BY <1>4, <2>1, TailIs
    <2> HIDE DEF f, m
    <2>3. Increasing(f, published)
      <3>1. \A i \in DOMAIN f : f[i] <= published
        BY <2>1, <2>2 DEF Increasing
      <3>2. ASSUME NEW i \in DOMAIN f, NEW j \in DOMAIN f, i < j PROVE f[i] < f[j]
        <4>1. /\ i + 1 \in DOMAIN sessions[s].feed /\ f[i] = sessions[s].feed[i + 1]
              /\ j + 1 \in DOMAIN sessions[s].feed /\ f[j] = sessions[s].feed[j + 1]
          BY <2>2
        <4>2. i + 1 < j + 1 BY <2>2, <3>2
        <4>. QED BY <2>1, <4>1, <4>2 DEF Increasing
      <3>. QED BY <3>1, <3>2 DEF Increasing
    <2>4. m <= committed /\ m \in Nat
      BY <1>2, <2>1, <2>2, ViewsAssumption DEF Increasing, Views
    <2>5. /\ x \in ServerSides /\ x.feed = f /\ x.outbox = sessions[s].outbox
          /\ x.stage = "idle" /\ x.sequence = sessions[s].sequence
      BY <1>1, <2>2 DEF ServerSides
    <2>6. Send(s, x, "push", m)
      BY <1>4 DEF f, m
    <2> HIDE DEF x
    <2>7. Len(f) <= FeedCapacity
      BY <2>1, <2>2, ViewsAssumption
    <2>8. Sound(x, clients[s], committed', published)
      BY <1>1, <2>3, <2>5, <2>7 DEF Sound, DecisionIsLast, AtMost
    <2>. QED BY <1>1, <1>2, <2>2, <2>4, <2>5, <2>6, <2>8, SentHolds DEF Kinds
  <1>. QED BY <1>3, <1>4 DEF Forward

(* What is left of a session whose client is gone serves nobody.            *)
LEMMA DisconnectHolds ==
  ASSUME VInv, NEW s \in Sessions, Disconnect(s)
  PROVE  VInv' /\ NoneBack
  <1> DEFINE x == IF sessions[s].stage \in AtWork
                  THEN [IdleSession EXCEPT !.stage = sessions[s].stage,
                                           !.sequence = sessions[s].sequence]
                  ELSE IdleSession
  <1>1. /\ Sound(sessions[s], clients[s], committed, published)
        /\ sessions[s] \in ServerSides
        /\ UNCHANGED <<committed, published, writers>>
        /\ sessions' = [sessions EXCEPT ![s] = x]
        /\ clients' = [clients EXCEPT ![s] = NewClient]
        /\ s \notin connected' /\ connected' \subseteq Sessions
    BY DEF VInv, Sound, Disconnect
  <1>2. /\ committed \in Views /\ committed \in Nat /\ published \in Nat
        /\ committed' \in Views /\ committed <= committed'
        /\ writers' \in [Writers -> 0 .. committed']
    BY <1>1, ViewsAssumption DEF VInv, Views
  <1>3. Sound(IdleSession, NewClient, committed, published) /\ IdleSession \in ServerSides
    BY <1>2, FreshIsSound DEF Sound
  <1>4. Sound(x, NewClient, committed, published)
    <2>1. CASE sessions[s].stage \in AtWork
      <3>1. sessions[s].sequence \in 1 .. committed
        BY <1>1, <2>1 DEF Sound, DecisionIsLast
      <3>2. sessions[s].sequence \in 0 .. ViewBound
        BY <1>1 DEF ServerSides
      <3>3. /\ x \in ServerSides /\ x.feed = IdleSession.feed /\ x.outbox = IdleSession.outbox
            /\ x.sequence = sessions[s].sequence
        BY <1>3, <2>1, <3>2 DEF ServerSides
      <3>4. Unanswered(IdleSession) /\ AtMost(IdleSession, NewClient, sessions[s].sequence)
        BY <3>1 DEF Unanswered, IdleSession, AtMost, NewClient
      <3> HIDE DEF x
      <3>. QED BY <1>3, <3>1, <3>3, <3>4, StagedIsSound
    <2>2. CASE sessions[s].stage \notin AtWork
      BY <1>3, <2>2
    <2>. QED BY <2>1, <2>2
  <1> HIDE DEF x
  <1>. QED BY <1>1, <1>2, <1>4, OneSessionMoves

(* A request is added to what the server reads, and nothing a view is in    *)
(* changes.                                                                 *)
LEMMA RequestIsSound ==
  ASSUME NEW x, NEW c, NEW n, NEW p, Sound(x, c, n, p), NEW request \in {"open", "act"}
  PROVE  Sound([x EXCEPT !.inbox = Append(@, request)], c, n, p)
  <1> DEFINE y == [x EXCEPT !.inbox = Append(@, request)]
  <1>1. x \in ServerSides /\ x.inbox \in Seq({"open", "act"})
    BY DEF Sound, ServerSides
  <1>2. Append(x.inbox, request) \in Seq({"open", "act"})
    BY <1>1
  <1>3. /\ y \in ServerSides /\ y.feed = x.feed /\ y.outbox = x.outbox
        /\ y.stage = x.stage /\ y.sequence = x.sequence
    BY <1>1, <1>2 DEF ServerSides
  <1> HIDE DEF y
  <1>4. Sound(y, c, n, p)
    BY <1>3, SameIsSound
  <1>. QED BY <1>4 DEF y

LEMMA StartActionHolds ==
  ASSUME VInv, NEW s \in Sessions, StartAction(s)
  PROVE  VInv' /\ NoneBack
  <1> DEFINE x == [sessions[s] EXCEPT !.inbox = Append(@, "act")]
             c == [clients[s] EXCEPT !.acting = TRUE]
  <1>1. /\ Sound(sessions[s], clients[s], committed, published)
        /\ clients[s] \in ClientSides
        /\ UNCHANGED <<committed, published, writers, connected>>
        /\ sessions' = [sessions EXCEPT ![s] = x]
        /\ clients' = [clients EXCEPT ![s] = c]
    BY DEF VInv, Sound, StartAction, Request
  <1>2. /\ committed \in Views /\ committed \in Nat /\ published \in Nat
        /\ committed' \in Views /\ committed <= committed' /\ connected' \subseteq Sessions
        /\ writers' \in [Writers -> 0 .. committed']
    BY <1>1, ViewsAssumption DEF VInv, Views
  <1>3. Sound(x, clients[s], committed, published)
    BY <1>1, RequestIsSound
  <1>4. /\ c \in ClientSides /\ c.view = clients[s].view /\ c.notified = clients[s].notified
        /\ c.timers = clients[s].timers
    BY <1>1 DEF ClientSides
  <1> HIDE DEF x, c
  <1>5. Sound(x, c, committed, published)
    BY <1>3, <1>4 DEF Sound, DecisionIsLast, AtMost
  <1>6. c.view >= clients[s].view /\ c.notified >= clients[s].notified
    BY <1>4, ClientNumbers
  <1>. QED BY <1>1, <1>2, <1>5, <1>6, OneSessionMoves

(* The frame at the head of the outbox is installed.  That of an answer is  *)
(* the last one, and above what the client holds.                           *)
LEMMA DeliverHolds ==
  ASSUME VInv, NEW s \in Sessions, Deliver(s)
  PROVE  VInv' /\ NoneBack
  <1> DEFINE o == sessions[s].outbox
             h == Head(o)
             t == Tail(o)
             x == [sessions[s] EXCEPT !.outbox = t]
             c == clients[s]
             d == Installed(c, h)
  <1>1. /\ Sound(sessions[s], c, committed, published)
        /\ sessions[s] \in ServerSides /\ c \in ClientSides /\ o # <<>>
        /\ UNCHANGED <<committed, published, writers, connected>>
        /\ sessions' = [sessions EXCEPT ![s] = x]
        /\ clients' = [clients EXCEPT ![s] = d]
    BY DEF VInv, Sound, Deliver
  <1>2. /\ committed \in Views /\ committed \in Nat /\ published \in Nat
        /\ committed' \in Views /\ committed <= committed' /\ connected' \subseteq Sessions
        /\ writers' \in [Writers -> 0 .. committed']
    BY <1>1, ViewsAssumption DEF VInv, Views
  <1>3. o \in Seq(Frames)
    BY <1>1 DEF ServerSides
  <1>4. /\ t \in Seq(Frames) /\ Len(t) = Len(o) - 1 /\ DOMAIN t = 1 .. Len(o) - 1
        /\ Len(o) \in Nat \ {0} /\ \A i \in DOMAIN t : t[i] = o[i + 1] /\ i + 1 \in DOMAIN o
        /\ h = o[1] /\ 1 \in DOMAIN o /\ h \in Frames
    BY <1>1, <1>3, TailIs
  <1>5. /\ h.kind \in Kinds /\ h.sequence \in Views /\ h.sequence \in Nat
        /\ h.sequence \in 0 .. ViewBound
    BY <1>4, ViewsAssumption DEF Frames, Views
  <1> HIDE DEF h, t
  <1>6. /\ x \in ServerSides /\ x.outbox = t /\ x.feed = sessions[s].feed
        /\ x.stage = sessions[s].stage /\ x.sequence = sessions[s].sequence
    BY <1>1, <1>4 DEF ServerSides
  <1>8. /\ c.view \in Nat /\ c.notified \in Nat /\ c.timers \in Seq(Views)
        /\ c.notified <= c.view
    BY <1>1 DEF ClientSides, Sound, DecisionIsLast
  <1>9. h.kind \in {"outcome", "refused"} =>
          sessions[s].stage = "writing" /\ t = <<>> /\ AtMost(sessions[s], c, h.sequence)
    <2>1. h.kind \in {"outcome", "refused"} =>
            /\ sessions[s].stage = "writing" /\ 1 = Len(o) /\ AtMost(sessions[s], c, h.sequence)
      BY <1>1, <1>4 DEF Sound, DecisionIsLast
    <2>2. 1 = Len(o) => t = <<>>
      BY <1>4
    <2>. QED BY <2>1, <2>2
  <1> HIDE DEF x
  <1>11. /\ d \in ClientSides /\ d.view \in {c.view, h.sequence}
         /\ d.notified \in {c.notified, d.view} /\ d.view >= c.view
         /\ \A i \in DOMAIN d.timers :
              \/ d.timers[i] = h.sequence
              \/ i \in DOMAIN c.timers /\ d.timers[i] = c.timers[i]
    <2>1. CASE h.kind = "push"
      <3>1. d = [c EXCEPT !.timers = Append(c.timers, h.sequence)]
        BY <2>1 DEF Installed
      <3>2. /\ Append(c.timers, h.sequence) \in Seq(Views)
            /\ DOMAIN Append(c.timers, h.sequence) = 1 .. Len(c.timers) + 1
            /\ \A i \in 1 .. Len(c.timers) : Append(c.timers, h.sequence)[i] = c.timers[i]
            /\ Append(c.timers, h.sequence)[Len(c.timers) + 1] = h.sequence
            /\ DOMAIN c.timers = 1 .. Len(c.timers) /\ Len(c.timers) \in Nat
        BY <1>5, <1>8, AppendedIs
      <3>3. d \in ClientSides /\ d.view = c.view /\ d.notified = c.notified
        BY <1>1, <3>1, <3>2 DEF ClientSides
      <3>4. d.timers = Append(c.timers, h.sequence)
        BY <1>1, <3>1 DEF ClientSides
      <3> HIDE DEF c, d
      <3>. QED BY <1>8, <3>2, <3>3, <3>4
    <2>2. CASE h.kind = "open"
      <3>1. d = Refreshed(c, h.sequence)
        BY <2>2 DEF Installed
      <3>2. CASE h.sequence > c.view
        <4>1. d = [Replaced(c, h.sequence) EXCEPT !.refresh = FALSE]
          BY <3>1, <3>2 DEF Refreshed
        <4> HIDE DEF c, d
        <4>2. d \in ClientSides /\ d.view = h.sequence /\ d.notified = h.sequence
              /\ d.timers = c.timers
          BY <1>1, <1>5, <4>1 DEF Replaced, ClientSides
        <4>. QED BY <1>5, <1>8, <3>2, <4>2
      <3>3. CASE ~(h.sequence > c.view)
        <4>1. d = [c EXCEPT !.refresh = FALSE]
          BY <3>1, <3>3 DEF Refreshed
        <4> HIDE DEF c, d
        <4>2. d \in ClientSides /\ d.view = c.view /\ d.notified = c.notified
              /\ d.timers = c.timers
          BY <1>1, <4>1 DEF ClientSides
        <4>. QED BY <1>8, <4>2
      <3>. QED BY <3>2, <3>3
    <2>3. CASE h.kind \in {"outcome", "refused"}
      <3>1. h.sequence >= c.view
        BY <1>9, <2>3 DEF AtMost
      <3>2. \/ d = [c EXCEPT !.view = h.sequence, !.acting = FALSE]
            \/ d = [Replaced(c, h.sequence) EXCEPT !.acting = FALSE]
        BY <2>3 DEF Installed
      <3>. QED BY <1>1, <1>5, <1>8, <3>1, <3>2 DEF Replaced, ClientSides
    <2>. QED BY <1>5, <2>1, <2>2, <2>3 DEF Kinds
  <1> HIDE DEF d
  <1>12. \A k : AtMost(sessions[s], c, k) => AtMost(x, d, k)
    BY <1>4, <1>6, <1>11 DEF AtMost
  <1>13. d.notified <= d.view /\ d.notified >= c.notified /\ d.view \in Nat
    BY <1>5, <1>8, <1>11
  <1>14. Sound(x, d, committed, published)
    <2>1. DecisionIsLast(sessions[s], c, committed)
      BY <1>1 DEF Sound
    <2>2. \A i \in DOMAIN t : t[i].kind \in {"outcome", "refused"} =>
            x.stage = "writing" /\ i = Len(t) /\ AtMost(x, d, t[i].sequence)
      BY <1>4, <1>6, <1>12, <2>1 DEF DecisionIsLast
    <2>3. DecisionIsLast(x, d, committed)
      BY <1>6, <1>12, <1>13, <2>1, <2>2 DEF DecisionIsLast
    <2>4. Len(t) <= OutboxCapacity
      BY <1>1, <1>4, ViewsAssumption DEF Sound
    <2>. QED BY <1>1, <1>6, <1>11, <2>3, <2>4 DEF Sound
  <1>. QED BY <1>1, <1>2, <1>11, <1>13, <1>14, OneSessionMoves

(* A push is installed where it is next, a refresh is asked for where one   *)
(* was missed, and it is dropped where it is old.                           *)
LEMMA ReceivePushHolds ==
  ASSUME VInv, NEW s \in Sessions, ReceivePush(s)
  PROVE  VInv' /\ NoneBack
  <1> DEFINE b == clients[s]
             c == [b EXCEPT !.timers = Tail(@)]
             n == Head(b.timers)
  <1>1. /\ Sound(sessions[s], b, committed, published)
        /\ sessions[s] \in ServerSides /\ b \in ClientSides /\ b.timers # <<>>
        /\ UNCHANGED <<committed, published, writers, connected>>
    BY DEF VInv, Sound, ReceivePush
  <1>2. /\ committed \in Views /\ committed \in Nat /\ published \in Nat
        /\ committed' \in Views /\ committed <= committed' /\ connected' \subseteq Sessions
        /\ writers' \in [Writers -> 0 .. committed']
    BY <1>1, ViewsAssumption DEF VInv, Views
  <1>3. /\ b.timers \in Seq(Views) /\ b.view \in Nat /\ b.notified \in Nat
        /\ b.notified <= b.view
    BY <1>1 DEF ClientSides, Sound, DecisionIsLast
  <1>4. /\ Tail(b.timers) \in Seq(Views) /\ DOMAIN Tail(b.timers) = 1 .. Len(b.timers) - 1
        /\ Len(b.timers) \in Nat \ {0}
        /\ \A i \in DOMAIN Tail(b.timers) :
             Tail(b.timers)[i] = b.timers[i + 1] /\ i + 1 \in DOMAIN b.timers
        /\ n = b.timers[1] /\ 1 \in DOMAIN b.timers /\ n \in Views
    BY <1>1, <1>3, TailIs
  <1>5. n \in Nat /\ n \in 0 .. ViewBound
    BY <1>4, ViewsAssumption DEF Views
  <1>6. /\ c \in ClientSides /\ c.view = b.view /\ c.notified = b.notified
        /\ c.timers = Tail(b.timers)
    BY <1>1, <1>4 DEF ClientSides
  <1> HIDE DEF c, n
  <1>7. PICK x, d : /\ sessions' = [sessions EXCEPT ![s] = x]
                    /\ clients' = [clients EXCEPT ![s] = d]
                    /\ \/ x = [sessions[s] EXCEPT !.inbox = Append(@, "open")]
                          /\ d = [c EXCEPT !.refresh = TRUE]
                       \/ x = sessions[s] /\ d = Replaced(c, n) /\ NextInSequence(c, n)
                       \/ x = sessions[s] /\ d = c
    <2>1. sessions = [sessions EXCEPT ![s] = sessions[s]]
      BY DEF VInv
    <2>. QED BY <2>1 DEF ReceivePush, Request, c, n
  <1>8. /\ d \in ClientSides /\ d.timers = Tail(b.timers)
        /\ \/ d.view = b.view /\ d.notified = b.notified
           \/ d.view = n /\ d.notified = n /\ n >= b.view
    <2>1. CASE d = [c EXCEPT !.refresh = TRUE]
      BY <1>6, <2>1 DEF ClientSides
    <2>2. CASE d = Replaced(c, n) /\ NextInSequence(c, n)
      <3>1. d \in ClientSides /\ d.timers = c.timers /\ d.view = n /\ d.notified = n
        BY <1>5, <1>6, <2>2 DEF ClientSides, Replaced
      <3>. QED BY <1>3, <1>5, <1>6, <2>2, <3>1 DEF NextInSequence
    <2>3. CASE d = c
      BY <1>6, <2>3
    <2>. QED BY <1>7, <2>1, <2>2, <2>3
  <1>9. Sound(x, b, committed, published) /\ x.outbox = sessions[s].outbox
    <2>1. CASE x = [sessions[s] EXCEPT !.inbox = Append(@, "open")]
      BY <1>1, <2>1, RequestIsSound DEF ServerSides
    <2>2. CASE x = sessions[s]
      BY <1>1, <2>2
    <2>. QED BY <1>7, <2>1, <2>2
  <1>10. \A k : AtMost(x, b, k) => AtMost(x, d, k)
    BY <1>4, <1>8 DEF AtMost
  <1>11. d.notified <= d.view /\ d.view >= b.view /\ d.notified >= b.notified
    BY <1>3, <1>5, <1>8
  <1>12. Sound(x, d, committed, published)
    BY <1>8, <1>9, <1>10, <1>11 DEF Sound, DecisionIsLast
  <1>. QED BY <1>1, <1>2, <1>7, <1>11, <1>12, OneSessionMoves

LEMMA ViewsInitHolds == ViewsInit => VInv
  <1> SUFFICES ASSUME ViewsInit PROVE VInv
    OBVIOUS
  <1>1. 1 \in Views /\ 0 \in Nat
    BY ViewsAssumption DEF Views
  <1>2. Sound(IdleSession, NewClient, 1, 0)
    BY <1>1, FreshIsSound
  <1>. QED BY <1>1, <1>2, ViewsAssumption DEF ViewsInit, VInv

LEMMA ViewsNextHolds ==
  ASSUME VInv, [ViewsNext]_viewVars
  PROVE  VInv' /\ NoneBack
  <1>1. CASE UNCHANGED viewVars
    BY <1>1, ClientNumbers DEF viewVars, VInv, NoneBack, NotBack
  <1>2. ASSUME NEW w \in Writers, Write(w) \/ PublishWritten(w) \/ Forget(w)
        PROVE  VInv' /\ NoneBack
    BY <1>2, WriteHolds, PublishWrittenHolds
  <1>3. ASSUME NEW s \in Sessions, Serve(s)
        PROVE  VInv' /\ NoneBack
    BY <1>3, OpenHolds, ActHolds, RefuseHolds, PublishActedHolds, AnswerHolds,
       AcknowledgeHolds, ForwardHolds DEF Serve
  <1>4. ASSUME NEW s \in Sessions,
               \/ Connect(s) \/ Disconnect(s)
               \/ StartAction(s) \/ Deliver(s) \/ ReceivePush(s)
        PROVE  VInv' /\ NoneBack
    BY <1>4, ConnectHolds, DisconnectHolds, StartActionHolds, DeliverHolds, ReceivePushHolds
  <1>. QED BY <1>1, <1>2, <1>3, <1>4 DEF ViewsNext

(* Pushes are sent in order and none before its publication, and a client   *)
(* goes back neither in what it shows nor in what its listeners were told:  *)
(* for any sessions, recording requests and capacities of the two queues.   *)
THEOREM ClientsStayAhead == ViewsSpec => ClientNeverRegresses
  <1>1. VInv /\ [ViewsNext]_viewVars => VInv'
    BY ViewsNextHolds
  <1>2. ViewsSpec => []VInv
    BY <1>1, ViewsInitHolds, PTL DEF ViewsSpec
  <1>3. VInv' => ViewsTypeOK' /\ PushesIncrease'
    BY VInvTypes, PTL
  <1>4. VInv /\ [ViewsNext]_viewVars =>
          [/\ ViewsTypeOK' /\ PushesIncrease'
           /\ \A s \in Sessions :
             Staying(s) => /\ clients'[s].view >= clients[s].view
                           /\ clients'[s].notified >= clients[s].notified]_viewVars
    BY <1>3, ViewsNextHolds DEF NoneBack, NotBack
  <1>. QED BY <1>2, <1>4, PTL DEF ViewsSpec, ClientNeverRegresses
=============================================================================
