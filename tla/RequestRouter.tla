---------------------------- MODULE RequestRouter ----------------------------
(***************************************************************************)
(* route_pinned_plan: a routed request pins the active Route Plan once and *)
(* walks its members in order, one attempt each, until a response can be   *)
(* committed to the client.  Requests run concurrently over the circuits   *)
(* of their Target; each await of the loop (building the attempt, sending  *)
(* it, priming the response) is a point where others run or the client     *)
(* goes away.  Implements RouteHealth: an attempt is a permit.             *)
(***************************************************************************)
EXTENDS Circuit, Sequences, FiniteSets

CONSTANTS
  Providers,     \* Target Providers
  Requests,      \* slots for routed requests in flight
  Plans,         \* Route Plans that can be applied: sequences of Providers
  NoPlan,        \* no active Route Plan
  NoProvider,    \* no response yet
  NoPermit,      \* the permit of a request between attempts, see RouteHealth
  AttemptBound   \* model bound on the attempts counted per circuit

ASSUME RouterAssumption ==
  /\ Plans \subseteq Seq(Providers) \ {<<>>}
  /\ \A plan \in Plans : \A i, j \in DOMAIN plan : plan[i] = plan[j] => i = j
  /\ NoPlan \notin Plans
  /\ NoProvider \notin Providers
  /\ IsFiniteSet(Providers) /\ IsFiniteSet(Requests) /\ AttemptBound \in Nat
  /\ NoPermit \notin [provider : Providers, half_open : BOOLEAN]

VARIABLES
  circuits,      \* provider -> Circuit
  active,        \* the active Route Plan or NoPlan
  requests       \* slot -> the locals of route_pinned_plan

vars == <<circuits, active, requests>>

(* Outcomes that health records as failures and that let the scan go on;    *)
(* "invalid" is the terminal build failure.                                 *)
BuildFailures == {"configuration", "invalid"}
FailedOutcomes == BuildFailures \union {"transport", "semantic", "status"}
Outcomes == FailedOutcomes \union {"success"}

(* The response handed to the client; kind says what its status and its     *)
(* first events were.                                                       *)
ResponseKinds == {"success", "semantic", "status", "rejected"}

Idle ==
  [stage |-> "idle", plan |-> NoPlan, index |-> 0, half_open |-> FALSE,
   observations |-> <<>>, last_failure |-> "none",
   routed |-> NoProvider, kind |-> "none"]

TypeOK ==
  /\ circuits \in [Providers -> Circuits]
  /\ active \in Plans \union {NoPlan}
  /\ \A r \in Requests :
       LET q == requests[r] IN
         /\ q.stage \in {"idle", "scanning", "attempting", "answered"}
         /\ q.stage = "idle" <=> q = Idle
         /\ q.plan \in Plans \union {NoPlan}
         /\ q.index \in 0 .. Cardinality(Providers) + 1
         /\ q.observations \in Seq([provider : Providers, outcome : Outcomes])
         /\ q.last_failure \in BuildFailures \union {"none"}
         /\ q.routed \in Providers \union {NoProvider}
         /\ q.kind \in ResponseKinds \union {"none"}

Init ==
  /\ circuits = [p \in Providers |-> FreshCircuit]
  /\ active = NoPlan
  /\ requests = [r \in Requests |-> Idle]

Member(r) == requests[r].plan[requests[r].index]

Exhausted(r) == requests[r].index > Len(requests[r].plan)

(* Room for every request in flight to attempt every provider once more.    *)
WithinBound ==
  \A p \in Providers :
    circuits[p].total_attempts + Cardinality(Requests) <= AttemptBound

Updated(r, q) == requests' = [requests EXCEPT ![r] = q]

Skipped(q) == [q EXCEPT !.index = @ + 1]

(* Slip: a later attempt leaves the earlier build failure standing. *)
ObservedKeepingFailure(q, p, outcome) ==
  [q EXCEPT !.stage = "scanning", !.index = @ + 1, !.half_open = FALSE,
            !.observations = Append(@, [provider |-> p, outcome |-> outcome]),
            !.last_failure = IF outcome \in BuildFailures THEN outcome ELSE @]

(* The outcome is observed and the scan goes on behind the member.          *)
Observed(q, p, outcome) ==
  [q EXCEPT !.stage = "scanning", !.index = @ + 1, !.half_open = FALSE,
            !.observations = Append(@, [provider |-> p, outcome |-> outcome]),
            !.last_failure = IF outcome \in BuildFailures THEN outcome ELSE "none"]

Answered(q, p, kind) ==
  [q EXCEPT !.stage = "answered", !.half_open = FALSE,
            !.routed = p, !.kind = kind]

-----------------------------------------------------------------------------
(* A plan is applied (or a takeover activated) and replaces the active one; *)
(* a takeover is disabled.  Requests in flight keep the plan they pinned.   *)
Apply(plan) ==
  /\ active # plan
  /\ active' = plan
  /\ UNCHANGED <<circuits, requests>>

Disable ==
  /\ active # NoPlan
  /\ active' = NoPlan
  /\ UNCHANGED <<circuits, requests>>

(* activated_route_plan_for: the members of the active plan, in plan order.  *)
(* (A plan with a damaged member, which is refused, is left out.)            *)
Pinned == [Idle EXCEPT !.stage = "scanning", !.plan = active, !.index = 1]

Begin(r) ==
  /\ requests[r].stage = "idle"
  /\ active # NoPlan
  /\ WithinBound
  /\ Updated(r, Pinned)
  /\ UNCHANGED <<circuits, active>>

AdmitMember(r) ==
  /\ requests[r].stage = "scanning"
  /\ ~Exhausted(r)
  /\ Admissible(circuits[Member(r)])
  /\ Updated(r, [requests[r] EXCEPT !.stage = "attempting",
                   !.half_open = ProbePermit(circuits[Member(r)])])
  /\ circuits' = [circuits EXCEPT ![Member(r)] = Admitted(@)]
  /\ UNCHANGED active

SkipMember(r) ==
  /\ requests[r].stage = "scanning"
  /\ ~Exhausted(r)
  /\ ~Admissible(circuits[Member(r)])
  /\ Updated(r, Skipped(requests[r]))
  /\ UNCHANGED <<circuits, active>>

(* The members are used up: the last response, if any attempt got one with  *)
(* a retryable status, or none.                                             *)
Exhaust(r) ==
  /\ requests[r].stage = "scanning"
  /\ Exhausted(r)
  /\ Updated(r, [requests[r] EXCEPT !.stage = "answered"])
  /\ UNCHANGED <<circuits, active>>

Attempting(r) == requests[r].stage = "attempting"

CountFailure(r) == circuits' = [circuits EXCEPT ![Member(r)] = Failed(@)]

(* The attempt could not be built, could not be sent, or its response was a *)
(* failure before anything productive: the next member is tried.            *)
FailOver(r, outcome) ==
  /\ Attempting(r)
  /\ Updated(r, Observed(requests[r], Member(r), outcome))
  /\ CountFailure(r)
  /\ UNCHANGED active

(* A build failure that no other member can mend ends the request.          *)
Terminate(r) ==
  /\ Attempting(r)
  /\ Updated(r, Answered(Observed(requests[r], Member(r), "invalid"), NoProvider, "none"))
  /\ CountFailure(r)
  /\ UNCHANGED active

(* A success status whose priming found a committable response.             *)
Commit(r) ==
  /\ Attempting(r)
  /\ Updated(r, Answered(Observed(requests[r], Member(r), "success"), Member(r), "success"))
  /\ circuits' = [circuits EXCEPT ![Member(r)] = Succeeded(@)]
  /\ UNCHANGED active

(* A failure event that the client must see as it is.                       *)
CommitFailure(r) ==
  /\ Attempting(r)
  /\ Updated(r, Answered(Observed(requests[r], Member(r), "semantic"), Member(r), "semantic"))
  /\ CountFailure(r)
  /\ UNCHANGED active

(* A retryable status: remembered while members are left, else the answer.  *)
RetryableStatus(r) ==
  /\ Attempting(r)
  /\ LET q == [Observed(requests[r], Member(r), "status")
                 EXCEPT !.routed = Member(r), !.kind = "status"]
     IN  Updated(r, IF requests[r].index = Len(requests[r].plan)
                    THEN Answered(q, Member(r), "status") ELSE q)
  /\ CountFailure(r)
  /\ UNCHANGED active

(* Neither success nor retryable: the client's own error.  No observation;  *)
(* the permit is dropped.                                                   *)
Reject(r) ==
  /\ Attempting(r)
  /\ Updated(r, Answered([requests[r] EXCEPT !.last_failure = "none"],
                         Member(r), "rejected"))
  /\ circuits' = [circuits EXCEPT ![Member(r)] = Released(@, requests[r].half_open)]
  /\ UNCHANGED active

(* Slip: the cancelled attempt keeps the probe slot of its circuit. *)
CancelKeepingProbe(r) ==
  /\ requests[r].stage # "idle"
  /\ Updated(r, Idle)
  /\ UNCHANGED <<circuits, active>>

(* The client goes away: the future of the handler is dropped where it      *)
(* stands, and with it the permit of the attempt under way.                 *)
Cancel(r) ==
  /\ requests[r].stage # "idle"
  /\ Updated(r, Idle)
  /\ circuits' = IF Attempting(r)
                 THEN [circuits EXCEPT ![Member(r)] = Released(@, requests[r].half_open)]
                 ELSE circuits
  /\ UNCHANGED active

(* The answer is handed to the recorder and to the client.                  *)
Respond(r) ==
  /\ requests[r].stage = "answered"
  /\ Updated(r, Idle)
  /\ UNCHANGED <<circuits, active>>

Elapse(p) ==
  /\ circuits[p].phase = "open"
  /\ ~circuits[p].elapsed
  /\ circuits' = [circuits EXCEPT ![p].elapsed = TRUE]
  /\ UNCHANGED <<active, requests>>

(* A service restart forgets circuits and requests; the plan is durable.    *)
Restart ==
  /\ circuits' = [p \in Providers |-> FreshCircuit]
  /\ requests' = [r \in Requests |-> Idle]
  /\ UNCHANGED active

Finish(r) ==
  \/ \E outcome \in {"configuration", "transport", "semantic"} : FailOver(r, outcome)
  \/ Terminate(r)
  \/ Commit(r)
  \/ CommitFailure(r)
  \/ RetryableStatus(r)
  \/ Reject(r)

Step(r) == AdmitMember(r) \/ SkipMember(r) \/ Exhaust(r) \/ Respond(r)

Next ==
  \/ \E plan \in Plans : Apply(plan)
  \/ Disable
  \/ \E r \in Requests : Begin(r)
  \/ \E r \in Requests : Step(r)
  \/ \E r \in Requests : Finish(r)
  \/ \E r \in Requests : Cancel(r)
  \/ \E p \in Providers : Elapse(p)
  \/ Restart

Spec == Init /\ [][Next]_vars

-----------------------------------------------------------------------------
(* Every attempt of a request is a permit of RouteHealth.                   *)
Permit(r) ==
  IF Attempting(r)
  THEN [provider |-> Member(r), half_open |-> requests[r].half_open]
  ELSE NoPermit

Health == INSTANCE RouteHealth
            WITH Attempts <- Requests, permits <- [r \in Requests |-> Permit(r)]

(* The router uses the circuits as RouteHealth says and in no other way: no *)
(* attempt is counted twice, none is lost, and a cancelled one gives its    *)
(* probe back.                                                              *)
ImplementsRouteHealth == Health!Spec

Answers == {r \in Requests : requests[r].stage = "answered"}

(* docs/superpowers/specs/2026-08-20-failover-route-health-design.md, 36:   *)
(* every eligible member is attempted at most once, in plan order.          *)
AttemptsInPlanOrder ==
  \A r \in Requests :
    LET q == requests[r] IN
      \A i, j \in DOMAIN q.observations : i < j =>
        \E k, l \in DOMAIN q.plan :
          /\ k < l /\ l <= q.index
          /\ q.plan[k] = q.observations[i].provider
          /\ q.plan[l] = q.observations[j].provider

(* A provider that served was the last one observed, everything observed    *)
(* before it failed, and a retryable status is passed on only when no later *)
(* attempt got a response.                                                  *)
ObservationsExplain ==
  \A r \in Answers :
    LET q == requests[r]
        n == Len(q.observations)
        Failing(i) == q.observations[i].outcome \in FailedOutcomes
    IN  /\ q.kind \in {"success", "semantic"} =>
             q.observations[n] = [provider |-> q.routed, outcome |-> q.kind]
        /\ q.kind # "success" => \A i \in 1 .. n : Failing(i)
        /\ q.kind = "success" => \A i \in 1 .. n - 1 : Failing(i)
        /\ q.kind = "status" =>
             \E i \in 1 .. n :
               /\ q.observations[i] = [provider |-> q.routed, outcome |-> "status"]
               /\ \A j \in i + 1 .. n : q.observations[j].outcome # "status"
        /\ q.kind = "none" =>
             \/ q.last_failure = "invalid"
             \/ \A i \in 1 .. n : q.observations[i].outcome # "status"
        /\ q.last_failure # "none" => q.observations[n].outcome = q.last_failure

(* A client is told that no provider answered only when the scan reached    *)
(* the end of its plan or a build failure ended it.                         *)
UnavailableAfterWholePlan ==
  \A r \in Answers :
    requests[r].kind = "none" =>
      \/ requests[r].last_failure = "invalid"
      \/ requests[r].index > Len(requests[r].plan)

(* The answer is the one the plan and the observations explain (the scan    *)
(* over the members and the two places that choose the response).           *)
AnswerExplained ==
  TypeOK /\ AttemptsInPlanOrder /\ ObservationsExplain /\ UnavailableAfterWholePlan
=============================================================================
