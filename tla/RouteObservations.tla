-------------------------- MODULE RouteObservations --------------------------
(***************************************************************************)
(* Routed requests of one Target over its circuits (RouteHealth) and its   *)
(* rows in the store.  A request copies its provider's circuit whenever an *)
(* attempt is counted; when its scan is over, it hands the copies to the   *)
(* store's thread (record_route_observations_for), which merges them into  *)
(* the durable health and the Serving Provider.  Observations of           *)
(* concurrent requests arrive out of order, after the plan they were made  *)
(* under was replaced or disabled, or not at all; the circuits they were   *)
(* taken from live for one service epoch.                                  *)
(***************************************************************************)
EXTENDS RouteHealth

CONSTANTS
  Plans,          \* Route Plans
  Members,        \* Plans -> the Providers of the plan
  None,           \* no plan, no Provider, no observation
  EpochBound,     \* model bound on service restarts
  SequenceBound   \* model bound on committed changes of the view

ASSUME ObservationsAssumption ==
  /\ Members \in [Plans -> (SUBSET Providers) \ {{}}]
  /\ None \notin Plans \union Providers

VARIABLES
  service_epoch,     \* identity of the running service
  provider_route_health, \* provider -> durable row or None
  active_route_plan, \* durable
  serving_provider,  \* durable
  view_sequence,     \* durable
  requests           \* attempt slot -> the request that makes the attempts

durable == <<provider_route_health, active_route_plan, serving_provider, view_sequence>>

runtime == <<circuits, permits>>

ovars == <<runtime, service_epoch, durable, requests>>

Idle == [stage |-> "idle", plan |-> None,
         observed |-> [p \in Providers |-> None], serving |-> None]

OInit ==
  /\ Init
  /\ service_epoch = 0
  /\ provider_route_health = [p \in Providers |-> None]
  /\ active_route_plan = None
  /\ serving_provider = None
  /\ view_sequence = 0
  /\ requests = [a \in Attempts |-> Idle]

Observed(q) == {p \in Providers : q.observed[p] # None}

NextView ==
  /\ view_sequence < SequenceBound
  /\ view_sequence' = view_sequence + 1

-----------------------------------------------------------------------------
(* The request: pinned plan, attempts, end of the scan.                     *)

Begin(a) ==
  /\ requests[a].stage = "idle"
  /\ active_route_plan # None
  /\ requests' = [requests EXCEPT
       ![a] = [Idle EXCEPT !.stage = "routing", !.plan = active_route_plan]]
  /\ UNCHANGED <<runtime, service_epoch, durable>>

(* A member of the pinned plan that was not tried yet; the order in which   *)
(* the scan takes the members is RequestRouter's.                           *)
Attempt(a, p) ==
  /\ requests[a].stage = "routing"
  /\ p \in Members[requests[a].plan] \ Observed(requests[a])
  /\ Admit(a, p)
  /\ UNCHANGED <<service_epoch, durable, requests>>

(* What the completion of an attempt returns of its circuit.                *)
Observation(p, state) ==
  [total |-> circuits'[p].total_attempts, state |-> state]

(* An answered attempt ends the scan; its Provider is the serving one.      *)
CountSuccess(a) ==
  LET p == permits[a].provider IN
  /\ Succeed(a)
  /\ requests' = [requests EXCEPT
       ![a].observed[p] = Observation(p, SuccessState(circuits[p])),
       ![a].serving = p,
       ![a].stage = "over"]
  /\ UNCHANGED <<service_epoch, durable>>

CountFailure(a) ==
  LET p == permits[a].provider IN
  /\ Fail(a)
  /\ requests' = [requests EXCEPT
       ![a].observed[p] = Observation(p, FailureState(circuits[p]))]
  /\ UNCHANGED <<service_epoch, durable>>

(* A success status whose stream was committed with its failure: counted as *)
(* a failure, the scan is over, and its Provider is the serving one.        *)
CountCommittedFailure(a) ==
  LET p == permits[a].provider IN
  /\ Fail(a)
  /\ requests' = [requests EXCEPT
       ![a].observed[p] = Observation(p, FailureState(circuits[p])),
       ![a].serving = p,
       ![a].stage = "over"]
  /\ UNCHANGED <<service_epoch, durable>>

(* A status that is neither a success nor retryable is handed on: nothing   *)
(* is counted and the scan is over.                                         *)
Relay(a) ==
  /\ Abandon(a)
  /\ requests' = [requests EXCEPT ![a].stage = "over"]
  /\ UNCHANGED <<service_epoch, durable>>

(* The client leaves: the request's future is dropped, permit and all.      *)
Leave(a) ==
  /\ requests[a].stage \in {"routing", "over"}
  /\ requests' = [requests EXCEPT ![a] = Idle]
  /\ \/ Abandon(a)
     \/ permits[a] = NoPermit /\ UNCHANGED runtime
  /\ UNCHANGED <<service_epoch, durable>>

(* The scan is over: what was observed goes to the store's thread, and from *)
(* there on it no longer matters whether the client stays.                  *)
Record(a) ==
  LET q == requests[a] IN
  /\ \/ q.stage = "over"
     \/ q.stage = "routing" /\ Observed(q) # {}
  /\ permits[a] = NoPermit
  /\ requests' = [requests EXCEPT
       ![a] = IF Observed(q) = {} THEN Idle ELSE [q EXCEPT !.stage = "queued"]]
  /\ UNCHANGED <<runtime, service_epoch, durable>>

-----------------------------------------------------------------------------
(* The store's thread.                                                      *)

Row(q, p) == [epoch |-> service_epoch, observed |-> q.observed[p]]

(* Slip: whatever arrives last is kept. *)
SupersedesAlways(q, p) == q.observed[p] # None

(* The upsert's condition: no row, another epoch's row, or more attempts.   *)
Supersedes(q, p) ==
  LET row == provider_route_health[p] IN
  /\ q.observed[p] # None
  /\ \/ row = None
     \/ row.epoch # service_epoch
     \/ q.observed[p].total > row.observed.total

Merged(q) ==
  [p \in Providers |-> IF Supersedes(q, p) THEN Row(q, p)
                       ELSE provider_route_health[p]]

(* Slip: only a change of health counts as a change of the view. *)
MergeNumberingHealth(q) ==
  /\ provider_route_health' = Merged(q)
  /\ serving_provider' = IF q.serving = None THEN serving_provider ELSE q.serving
  /\ IF provider_route_health' = provider_route_health
     THEN UNCHANGED view_sequence ELSE NextView

(* One transaction: health, Serving Provider, and a sequence number when    *)
(* either changed.                                                          *)
Merge(q) ==
  /\ provider_route_health' = Merged(q)
  /\ serving_provider' = IF q.serving = None THEN serving_provider ELSE q.serving
  /\ IF <<provider_route_health, serving_provider>>' =
          <<provider_route_health, serving_provider>>
     THEN UNCHANGED view_sequence ELSE NextView

(* Slip: the takeover may have been disabled meanwhile. *)
PersistAlways(a) ==
  /\ requests[a].stage = "queued"
  /\ Merge(requests[a])
  /\ requests' = [requests EXCEPT ![a] = Idle]
  /\ UNCHANGED <<runtime, service_epoch, active_route_plan>>

(* A takeover disabled meanwhile takes no observation.                      *)
Persist(a) ==
  /\ requests[a].stage = "queued"
  /\ IF active_route_plan # None
     THEN Merge(requests[a])
     ELSE UNCHANGED <<provider_route_health, serving_provider, view_sequence>>
  /\ requests' = [requests EXCEPT ![a] = Idle]
  /\ UNCHANGED <<runtime, service_epoch, active_route_plan>>

(* A failover chain is applied: a new plan, the Serving Provider kept.      *)
Apply(plan) ==
  /\ active_route_plan \notin {None, plan}
  /\ active_route_plan' = plan
  /\ NextView
  /\ UNCHANGED <<runtime, service_epoch, provider_route_health, serving_provider, requests>>

(* An activation commits: its plan, and no Serving Provider yet.            *)
Activate(plan) ==
  /\ active_route_plan # plan
  /\ active_route_plan' = plan
  /\ serving_provider' = None
  /\ NextView
  /\ UNCHANGED <<runtime, service_epoch, provider_route_health, requests>>

(* A takeover is disabled or restored: neither plan nor Serving Provider.   *)
Disable ==
  /\ active_route_plan # None
  /\ active_route_plan' = None
  /\ serving_provider' = None
  /\ NextView
  /\ UNCHANGED <<runtime, service_epoch, provider_route_health, requests>>

(* A new service: fresh circuits, another epoch, the same rows.             *)
Reopen ==
  /\ service_epoch < EpochBound
  /\ Restart
  /\ service_epoch' = service_epoch + 1
  /\ requests' = [a \in Attempts |-> Idle]
  /\ UNCHANGED durable

Cool(p) == Elapse(p) /\ UNCHANGED <<service_epoch, durable, requests>>

ONext ==
  \/ \E a \in Attempts : Begin(a) \/ CountSuccess(a) \/ CountFailure(a)
  \/ \E a \in Attempts : CountCommittedFailure(a) \/ Relay(a) \/ Leave(a)
  \/ \E a \in Attempts : Record(a) \/ Persist(a)
  \/ \E a \in Attempts, p \in Providers : Attempt(a, p)
  \/ \E plan \in Plans : Apply(plan) \/ Activate(plan)
  \/ Disable
  \/ \E p \in Providers : Cool(p)
  \/ Reopen

OSpec == OInit /\ [][ONext]_ovars

(* The clock runs, and no client waits forever for a silent upstream.      *)
OFairness ==
  /\ \A p \in Providers : WF_ovars(Cool(p))
  /\ \A a \in Attempts : WF_ovars(CountSuccess(a) \/ CountFailure(a)
                                    \/ CountCommittedFailure(a)
                                    \/ Relay(a) \/ Leave(a))

OFairSpec == OSpec /\ OFairness

-----------------------------------------------------------------------------
(* A durable row is of this epoch or an earlier one, and what it says of    *)
(* this one its circuit has counted.                                        *)
HealthOfThisEpoch ==
  \A p \in Providers :
    LET row == provider_route_health[p] IN
      row # None =>
        /\ row.epoch <= service_epoch
        /\ row.epoch = service_epoch =>
             row.observed.total <= circuits[p].total_attempts

(* A Target without a plan has no Serving Provider, whatever is recorded    *)
(* after its takeover was disabled.                                         *)
ServingNeedsPlan == serving_provider # None => active_route_plan # None

(* Health is sound in the circuits and in what is recorded of them          *)
(* (RouteHealthRuntime, record_route_observations_for).                     *)
ObservationsAreSound == HealthIsSound /\ HealthOfThisEpoch /\ ServingNeedsPlan

(* docs/superpowers/specs/2026-08-20-failover-route-health-design.md, 91:   *)
(* "monotonically increasing": within a service epoch durable health never  *)
(* goes back to an earlier observation, however late that one arrives.      *)
HealthNeverRegresses ==
  [][\A p \in Providers :
       LET row == provider_route_health[p]
           next == provider_route_health'[p]
       IN  (row # None /\ next.epoch = row.epoch) =>
             \/ next = row
             \/ next.observed.total > row.observed.total]_ovars

(* Readers compare sequences instead of contents: every change of what a    *)
(* view shows takes the next number and no number is taken without one.     *)
States == {"healthy", "degraded", "unavailable"}

Observations == [total : Nat, state : States]

Rows == [epoch : Nat, observed : Observations]

Store == INSTANCE ViewStore WITH
  content <- <<provider_route_health, active_route_plan, serving_provider>>,
  Contents <- [Providers -> Rows \union {None}]
              \X (Plans \union {None}) \X (Providers \union {None})

ImplementsViewStore == Store!Spec
=============================================================================
