------------------------- MODULE RequestRouterProofs -------------------------
(***************************************************************************)
(* For any Providers, plans and number of concurrent requests: the answer  *)
(* of a routed request is the one its plan and its observations explain,   *)
(* and the attempts of all requests use the circuits as RouteHealth says.  *)
(***************************************************************************)
EXTENDS RequestRouter, FiniteSetTheorems, TLAPS

Observations == [provider : Providers, outcome : Outcomes]

Locals ==
  [stage : {"idle", "scanning", "attempting", "answered"}, plan : Plans \cup {NoPlan},
   index : Nat, half_open : BOOLEAN, observations : Seq(Observations),
   last_failure : BuildFailures \cup {"none"}, routed : Providers \cup {NoProvider},
   kind : ResponseKinds \cup {"none"}]

(* The scan is at a member of its plan or behind the last one.              *)
InPlan(q) ==
  /\ q \in Locals
  /\ q.stage = "idle" <=> q = Idle
  /\ q.stage # "idle" => q.plan \in Plans /\ q.index \in 1 .. Len(q.plan) + 1
  /\ q.stage = "attempting" => q.index <= Len(q.plan)

(* What it observed lies before it, in plan order.                          *)
InOrder(q) ==
  /\ \A i \in DOMAIN q.observations :
       \E k \in DOMAIN q.plan : k < q.index /\ q.plan[k] = q.observations[i].provider
  /\ \A i, j \in DOMAIN q.observations : i < j =>
       \E k, l \in DOMAIN q.plan :
         /\ k < l /\ l < q.index
         /\ q.plan[k] = q.observations[i].provider
         /\ q.plan[l] = q.observations[j].provider

Outcome(q, i) == q.observations[i].outcome
LastStatus(q) ==
  \E i \in 1 .. Len(q.observations) :
    /\ q.observations[i] = [provider |-> q.routed, outcome |-> "status"]
    /\ \A j \in i + 1 .. Len(q.observations) : Outcome(q, j) # "status"
FailureIsLast(q) ==
  q.last_failure # "none" =>
    Len(q.observations) > 0 /\ Outcome(q, Len(q.observations)) = q.last_failure

(* Until it is answered everything it observed failed, and it remembers the *)
(* last retryable status.                                                   *)
Remembers(q) ==
  q.stage \in {"scanning", "attempting"} =>
    /\ q.kind \in {"none", "status"} /\ q.last_failure # "invalid"
    /\ \A i \in 1 .. Len(q.observations) : Outcome(q, i) \in FailedOutcomes
    /\ q.kind = "none" => \A i \in 1 .. Len(q.observations) : Outcome(q, i) # "status"
    /\ q.kind = "status" => LastStatus(q)
    /\ FailureIsLast(q)

(* The bodies of ObservationsExplain and UnavailableAfterWholePlan.         *)
Explained(q) ==
  LET n == Len(q.observations) IN
  q.stage = "answered" =>
    /\ q.kind \in {"success", "semantic"} =>
         q.observations[n] = [provider |-> q.routed, outcome |-> q.kind]
    /\ q.kind # "success" => \A i \in 1 .. n : Outcome(q, i) \in FailedOutcomes
    /\ q.kind = "success" => \A i \in 1 .. n - 1 : Outcome(q, i) \in FailedOutcomes
    /\ q.kind = "status" => LastStatus(q)
    /\ q.kind = "none" =>
         \/ q.last_failure = "invalid"
         \/ /\ \A i \in 1 .. n : Outcome(q, i) # "status"
            /\ q.index > Len(q.plan)
    /\ FailureIsLast(q)

Sound(q) == InPlan(q) /\ InOrder(q) /\ Remembers(q) /\ Explained(q)

(* There is room for the attempts still to come: a request tries every      *)
(* member from where it is.                                                 *)
MayTry(q, p) ==
  /\ q.stage \in {"scanning", "attempting"}
  /\ \E k \in DOMAIN q.plan : k >= q.index /\ q.plan[k] = p
Trying(p) == {r \in Requests : MayTry(requests[r], p)}
RoomToTry ==
  \A p \in Providers : circuits[p].total_attempts + Cardinality(Trying(p)) <= AttemptBound

IInv ==
  /\ circuits \in [Providers -> Circuits]
  /\ active \in Plans \cup {NoPlan}
  /\ requests \in [Requests -> Locals]
  /\ \A r \in Requests : Sound(requests[r])
  /\ RoomToTry

-----------------------------------------------------------------------------
(* Plans are nonempty, and their members Providers.                         *)
LEMMA PlanShape ==
  ASSUME NEW plan \in Plans
  PROVE  /\ plan \in Seq(Providers) /\ Len(plan) \in Nat \ {0} /\ DOMAIN plan = 1 .. Len(plan)
         /\ plan # NoPlan /\ Len(plan) <= Cardinality(Providers)
         /\ \A i \in DOMAIN plan : plan[i] \in Providers
         /\ \A i, j \in DOMAIN plan : plan[i] = plan[j] => i = j
  <1>1. plan \in Seq(Providers) /\ plan # <<>> BY RouterAssumption
  <1>2. /\ Len(plan) \in Nat \ {0} /\ DOMAIN plan = 1 .. Len(plan)
        /\ \A i \in DOMAIN plan : plan[i] \in Providers
    BY <1>1
  <1>3. \A i, j \in DOMAIN plan : plan[i] = plan[j] => i = j BY RouterAssumption
  <1>4. plan \in Injection(1 .. Len(plan), Providers)
    BY <1>1, <1>2, <1>3 DEF Injection, IsInjective
  <1>5. Cardinality(1 .. Len(plan)) = Len(plan) BY <1>2, FS_Interval
  <1>6. Len(plan) <= Cardinality(Providers)
      BY <1>4, <1>5, FS_Injection, RouterAssumption
  <1>. QED BY <1>1, <1>2, <1>3, <1>6, RouterAssumption

(* A circuit nothing was counted on.                                        *)
LEMMA FreshType == FreshCircuit \in Circuits /\ FreshCircuit.total_attempts = 0
  BY DEF FreshCircuit, Circuits, Phases

(* An admission counts no attempt,                                          *)
LEMMA AdmittedType ==
  ASSUME NEW c \in Circuits, Admissible(c)
  PROVE  Admitted(c) \in Circuits /\ Admitted(c).total_attempts = c.total_attempts
  <1>1. "half-open" \in Phases BY DEF Phases
  <1>2. CASE c.phase = "closed" BY <1>2 DEF Admitted
  <1>3. CASE c.phase = "open" BY <1>1, <1>3 DEF Admitted, Circuits
  <1>4. CASE c.phase = "half-open" BY <1>4 DEF Admitted, Circuits
  <1>. QED BY <1>2, <1>3, <1>4 DEF Circuits, Phases

(* a success one,                                                           *)
LEMMA SucceededType ==
  ASSUME NEW c \in Circuits
  PROVE  Succeeded(c) \in Circuits /\ Succeeded(c).total_attempts = c.total_attempts + 1
  <1>1. "closed" \in Phases /\ \A n \in Nat : n + 1 \in Nat BY DEF Phases
  <1>2. CASE ClosesOnSuccess(c) BY <1>1, <1>2 DEF Succeeded, Circuits
  <1>3. CASE ~ClosesOnSuccess(c) BY <1>1, <1>3 DEF Succeeded, Circuits
  <1>. QED BY <1>2, <1>3

(* a failure one,                                                           *)
LEMMA FailedType ==
  ASSUME NEW c \in Circuits
  PROVE  Failed(c) \in Circuits /\ Failed(c).total_attempts = c.total_attempts + 1
  <1>1. "open" \in Phases /\ \A n \in Nat : n + 1 \in Nat BY DEF Phases
  <1>2. CASE OpensOnFailure(c) BY <1>1, <1>2 DEF Failed, Circuits
  <1>3. CASE ~OpensOnFailure(c) BY <1>1, <1>3 DEF Failed, Circuits
  <1>. QED BY <1>2, <1>3

(* and an attempt that was abandoned none.                                  *)
LEMMA ReleasedType ==
  ASSUME NEW c \in Circuits, NEW half_open
  PROVE  Released(c, half_open) \in Circuits /\ Released(c, half_open).total_attempts = c.total_attempts
  BY DEF Released, Circuits

-----------------------------------------------------------------------------
(* The locals of a request after each of the updates.                       *)
LEMMA IdleIsSound == Idle \in Locals /\ Sound(Idle) /\ \A p : ~MayTry(Idle, p)
  <1>1. Idle \in Locals /\ Idle.observations = <<>> /\ Idle.stage = "idle"
    BY DEF Idle, Locals
  <1>2. \A p : ~MayTry(Idle, p) BY <1>1 DEF MayTry
  <1>3. InPlan(Idle) /\ InOrder(Idle) /\ Remembers(Idle) /\ Explained(Idle)
    BY <1>1 DEF InPlan, InOrder, Remembers, Explained
  <1>. QED BY <1>1, <1>2, <1>3 DEF Sound

(* A request that pins the active plan starts before its first member.      *)
LEMMA PinnedIsSound == ASSUME active \in Plans PROVE Pinned \in Locals /\ Sound(Pinned)
  <1>1. /\ Pinned \in Locals /\ Pinned.observations = <<>> /\ Pinned.stage = "scanning"
        /\ Pinned.plan = active /\ Pinned.index = 1 /\ Pinned.kind = "none"
        /\ Pinned.last_failure = "none"
    <2>1. /\ Idle \in Locals /\ Idle.observations = <<>> /\ Idle.kind = "none"
          /\ Idle.last_failure = "none"
      BY IdleIsSound DEF Idle
    <2>2. "scanning" \in {"idle", "scanning", "attempting", "answered"} /\ 1 \in Nat OBVIOUS
    <2>. QED BY <2>1, <2>2 DEF Pinned, Locals
  <1>2. InPlan(Pinned) BY <1>1, PlanShape DEF InPlan, Idle
  <1>3. InOrder(Pinned) /\ Remembers(Pinned) /\ Explained(Pinned)
    BY <1>1 DEF InOrder, Remembers, Explained, FailureIsLast
  <1>. QED BY <1>1, <1>2, <1>3 DEF Sound

(* An attempt at the member the scan is at.                                 *)
AtMember(q, p) ==
  /\ q \in Locals /\ Sound(q) /\ q.stage = "attempting"
  /\ p = q.plan[q.index]

ObservedAs(o, q, p, outcome) ==
  /\ o \in Locals /\ o.stage = "scanning" /\ o.index = q.index + 1 /\ o.plan = q.plan
  /\ o.half_open = FALSE /\ o.routed = q.routed /\ o.kind = q.kind
  /\ o.last_failure = (IF outcome \in BuildFailures THEN outcome ELSE "none")
  /\ o.observations = Append(q.observations, [provider |-> p, outcome |-> outcome])

(* What an observation adds to the locals.                                  *)
LEMMA ObservedFields ==
  ASSUME NEW q \in Locals, NEW p \in Providers, NEW outcome \in Outcomes
  PROVE  ObservedAs(Observed(q, p, outcome), q, p, outcome)
  <1> DEFINE e == [provider |-> p, outcome |-> outcome]
             failure == IF outcome \in BuildFailures THEN outcome ELSE "none"
             s == Append(q.observations, e)
  <1>1. e \in Observations BY DEF Observations
  <1>2. q.observations \in Seq(Observations) /\ q.index \in Nat BY DEF Locals
  <1>3. failure \in BuildFailures \cup {"none"} OBVIOUS
  <1>4. Observed(q, p, outcome) =
          [q EXCEPT !.stage = "scanning", !.index = q.index + 1, !.half_open = FALSE,
                    !.observations = s, !.last_failure = failure]
    BY DEF Observed
  <1>5. /\ s \in Seq(Observations) /\ Len(s) = Len(q.observations) + 1
        /\ \A i \in 1 .. Len(q.observations) : s[i] = q.observations[i]
        /\ s[Len(q.observations) + 1] = e
        /\ DOMAIN s = 1 .. Len(q.observations) + 1
        /\ DOMAIN q.observations = 1 .. Len(q.observations)
        /\ Len(q.observations) \in Nat
    BY <1>1, <1>2
  <1> HIDE DEF e, failure, s
  <1>7. "scanning" \in {"idle", "scanning", "attempting", "answered"} /\ q.index + 1 \in Nat
    BY <1>2
  <1>8. Observed(q, p, outcome) \in Locals BY <1>3, <1>4, <1>5, <1>7 DEF Locals
  <1>6. /\ Observed(q, p, outcome).stage = "scanning"
        /\ Observed(q, p, outcome).index = q.index + 1
        /\ Observed(q, p, outcome).plan = q.plan
        /\ Observed(q, p, outcome).half_open = FALSE
        /\ Observed(q, p, outcome).routed = q.routed
        /\ Observed(q, p, outcome).kind = q.kind
        /\ Observed(q, p, outcome).last_failure = failure
        /\ Observed(q, p, outcome).observations = s
    BY <1>4 DEF Locals
  <1>. QED BY <1>5, <1>6, <1>8 DEF e, failure, s, ObservedAs

(* Behind the member that was observed.                                     *)
Behind(w, q, p, outcome) ==
  /\ w.plan = q.plan /\ w.index = q.index + 1
  /\ w.observations = Append(q.observations, [provider |-> p, outcome |-> outcome])

(* An observation of the member keeps the observations in plan order.       *)
LEMMA BehindIsInOrder ==
  ASSUME NEW q, NEW p \in Providers, NEW outcome \in Outcomes, AtMember(q, p),
         NEW w, Behind(w, q, p, outcome)
  PROVE  /\ InOrder(w) /\ w.plan \in Plans /\ w.index \in 1 .. Len(w.plan) + 1
         /\ Len(q.observations) \in Nat /\ Len(w.observations) = Len(q.observations) + 1
         /\ \A i \in 1 .. Len(q.observations) : w.observations[i] = q.observations[i]
         /\ w.observations[Len(w.observations)] = [provider |-> p, outcome |-> outcome]
         /\ \A k \in DOMAIN w.plan : k >= w.index => k >= q.index /\ w.plan[k] # p
  <1> DEFINE n == Len(q.observations)
  <1> DEFINE s == Append(q.observations, [provider |-> p, outcome |-> outcome])
  <1>1. w.plan = q.plan /\ w.index = q.index + 1 /\ w.observations = s
    BY DEF Behind
  <1>0. /\ q.observations \in Seq(Observations)
        /\ [provider |-> p, outcome |-> outcome] \in Observations
    BY DEF AtMember, Locals, Observations
  <1>2. /\ DOMAIN w.observations = 1 .. n + 1 /\ n \in Nat /\ DOMAIN q.observations = 1 .. n
        /\ \A i \in 1 .. n : w.observations[i] = q.observations[i]
        /\ w.observations[n + 1] = [provider |-> p, outcome |-> outcome]
        /\ Len(w.observations) = n + 1
    BY <1>0, <1>1
  <1>3. q.plan \in Plans /\ q.index \in 1 .. Len(q.plan) /\ q.plan[q.index] = p
    BY DEF AtMember, Sound, InPlan
  <1>4. /\ Len(q.plan) \in Nat /\ DOMAIN q.plan = 1 .. Len(q.plan)
        /\ \A k \in DOMAIN q.plan : q.plan[k] = p => k = q.index
    BY <1>3, PlanShape
  <1>5. InOrder(q) BY DEF AtMember, Sound
  <1> HIDE DEF n, s
  <1>6. ASSUME NEW i \in 1 .. n + 1
        PROVE  \E k \in DOMAIN q.plan :
                 /\ k < q.index + 1 /\ q.plan[k] = w.observations[i].provider
                 /\ i # n + 1 => k < q.index
    <2>1. CASE i = n + 1 BY <1>2, <1>3, <1>4, <2>1
    <2>2. CASE i # n + 1
      <3>1. i \in 1 .. n BY <1>2, <2>2
      <3>2. PICK k \in DOMAIN q.plan : k < q.index /\ q.plan[k] = q.observations[i].provider
        BY <1>2, <1>5, <3>1 DEF InOrder
      <3>. QED BY <1>2, <1>3, <1>4, <3>1, <3>2
    <2>. QED BY <2>1, <2>2
  <1>7. ASSUME NEW i \in 1 .. n + 1, NEW j \in 1 .. n + 1, i < j
        PROVE  \E k, l \in DOMAIN q.plan :
                 /\ k < l /\ l < q.index + 1
                 /\ q.plan[k] = w.observations[i].provider
                 /\ q.plan[l] = w.observations[j].provider
    <2>1. CASE j = n + 1
      <3>1. i # n + 1 BY <1>2, <1>7, <2>1
      <3>2. PICK k \in DOMAIN q.plan : k < q.index /\ q.plan[k] = w.observations[i].provider
        BY <1>6, <3>1
      <3>3. w.observations[j].provider = p BY <1>2, <2>1
      <3>4. q.index \in DOMAIN q.plan /\ q.index < q.index + 1 BY <1>3, <1>4
      <3>. QED BY <1>3, <3>2, <3>3, <3>4
    <2>2. CASE j # n + 1
      <3>1. i \in 1 .. n /\ j \in 1 .. n BY <1>2, <1>7, <2>2
      <3>2. PICK k, l \in DOMAIN q.plan :
              /\ k < l /\ l < q.index /\ q.plan[k] = q.observations[i].provider
              /\ q.plan[l] = q.observations[j].provider
        <4>1. i \in DOMAIN q.observations /\ j \in DOMAIN q.observations /\ i < j
          BY <1>2, <1>7, <3>1
        <4>. QED BY <1>5, <4>1 DEF InOrder
      <3>3. /\ w.observations[i] = q.observations[i] /\ w.observations[j] = q.observations[j]
            /\ l < q.index + 1
        BY <1>2, <1>3, <1>4, <3>1, <3>2
      <3>. QED BY <3>2, <3>3
    <2>. QED BY <2>1, <2>2
  <1>8. InOrder(w) BY <1>1, <1>2, <1>6, <1>7 DEF InOrder
  <1>. QED BY <1>1, <1>2, <1>3, <1>4, <1>8 DEF n

(* What the scan remembers behind the member.                               *)
LEMMA BehindRemembers ==
  ASSUME NEW q, NEW p \in Providers, NEW outcome \in FailedOutcomes, AtMember(q, p),
         NEW w, Behind(w, q, p, outcome)
  PROVE  /\ \A i \in 1 .. Len(w.observations) : Outcome(w, i) \in FailedOutcomes
         /\ q.kind = "none" /\ outcome # "status" =>
              \A i \in 1 .. Len(w.observations) : Outcome(w, i) # "status"
         /\ q.kind = "status" /\ outcome # "status" /\ w.routed = q.routed => LastStatus(w)
         /\ outcome = "status" /\ w.routed = p => LastStatus(w)
         /\ w.last_failure = (IF outcome \in BuildFailures THEN outcome ELSE "none") => FailureIsLast(w)
         /\ q.kind \in {"none", "status"}
  <1> DEFINE n == Len(q.observations)
  <1>1. /\ n \in Nat /\ Len(w.observations) = n + 1
        /\ \A i \in 1 .. n : w.observations[i] = q.observations[i]
        /\ w.observations[n + 1] = [provider |-> p, outcome |-> outcome]
    BY BehindIsInOrder DEF Outcomes
  <1>2. /\ \A i \in 1 .. n : Outcome(w, i) = Outcome(q, i)
        /\ Outcome(w, n + 1) = outcome
    BY <1>1 DEF Outcome
  <1>3. /\ q.kind \in {"none", "status"}
        /\ \A i \in 1 .. n : Outcome(q, i) \in FailedOutcomes
        /\ q.kind = "none" => \A i \in 1 .. n : Outcome(q, i) # "status"
        /\ q.kind = "status" => LastStatus(q)
    BY DEF AtMember, Sound, Remembers
  <1>4. FailureIsLast(w) <=> (w.last_failure # "none" => outcome = w.last_failure)
    BY <1>1, <1>2 DEF FailureIsLast
  <1>5. ASSUME q.kind = "status", outcome # "status", w.routed = q.routed PROVE LastStatus(w)
    <2>1. PICK i \in 1 .. n : /\ q.observations[i] = [provider |-> q.routed, outcome |-> "status"]
                              /\ \A j \in i + 1 .. n : Outcome(q, j) # "status"
      BY <1>3, <1>5 DEF LastStatus
    <2>2. i \in 1 .. n + 1 /\ w.observations[i] = [provider |-> w.routed, outcome |-> "status"]
      BY <1>1, <1>5, <2>1
    <2>3. ASSUME NEW j \in i + 1 .. n + 1 PROVE Outcome(w, j) # "status"
      <3>1. j = n + 1 \/ (j \in 1 .. n /\ j \in i + 1 .. n) BY <1>1
      <3>. QED BY <1>2, <1>5, <2>1, <3>1
    <2>. QED BY <1>1, <2>2, <2>3 DEF LastStatus
  <1>6. ASSUME outcome = "status", w.routed = p PROVE LastStatus(w)
    <2>1. /\ n + 1 \in 1 .. n + 1 /\ (n + 1) + 1 .. n + 1 = {} BY <1>1
    <2>. QED BY <1>1, <1>6, <2>1 DEF LastStatus
  <1> HIDE DEF n
  <1>7. \A i \in 1 .. n + 1 : i \in 1 .. n \/ i = n + 1 BY <1>1
  <1>8. \A i \in 1 .. n + 1 : Outcome(w, i) \in FailedOutcomes BY <1>2, <1>3, <1>7
  <1>9. q.kind = "none" /\ outcome # "status" => \A i \in 1 .. n + 1 : Outcome(w, i) # "status"
    BY <1>2, <1>3, <1>7
  <1>10. w.last_failure = (IF outcome \in BuildFailures THEN outcome ELSE "none") => FailureIsLast(w)
    BY <1>4
  <1>. QED BY <1>1, <1>3, <1>5, <1>6, <1>8, <1>9, <1>10

AnsweredAs(w, q, p, kind) ==
  /\ w \in Locals /\ w.stage = "answered" /\ w.plan = q.plan /\ w.index = q.index
  /\ w.observations = q.observations /\ w.last_failure = q.last_failure
  /\ w.routed = p /\ w.kind = kind /\ w.half_open = FALSE

(* What an answer sets.                                                     *)
LEMMA AnsweredFields ==
  ASSUME NEW q \in Locals, NEW p \in Providers \cup {NoProvider},
         NEW kind \in ResponseKinds \cup {"none"}
  PROVE  AnsweredAs(Answered(q, p, kind), q, p, kind)
  <1>1. "answered" \in {"idle", "scanning", "attempting", "answered"} OBVIOUS
  <1>. QED BY <1>1 DEF Answered, AnsweredAs, Locals

(* Every update leaves the locals sound and has fewer members to try: not   *)
(* the one observed.                                                        *)
Leaves(q, p, w) ==
  w \in Locals /\ Sound(w) /\ \A x : MayTry(w, x) => MayTry(q, x) /\ x # p

(* Behind a member, it may be tried no more, and no other member anew.      *)
LEMMA BehindMayTry ==
  ASSUME NEW q, NEW p \in Providers, NEW outcome \in Outcomes, AtMember(q, p),
         NEW w, Behind(w, q, p, outcome)
  PROVE  \A x : MayTry(w, x) => MayTry(q, x) /\ x # p
  BY BehindIsInOrder DEF MayTry, AtMember, Behind

(* A failed attempt leaves the scan sound behind the member.                *)
LEMMA FailOverLeaves ==
  ASSUME NEW q, NEW p \in Providers, NEW outcome \in {"configuration", "transport", "semantic"},
         AtMember(q, p)
  PROVE  Leaves(q, p, Observed(q, p, outcome))
  <1> DEFINE w == Observed(q, p, outcome)
  <1>1. outcome \in FailedOutcomes /\ outcome \in Outcomes /\ outcome # "status" /\ outcome # "invalid"
    BY DEF FailedOutcomes, Outcomes, BuildFailures
  <1>2. /\ w \in Locals /\ Behind(w, q, p, outcome) /\ w.stage = "scanning"
        /\ w.routed = q.routed /\ w.kind = q.kind
        /\ w.last_failure = IF outcome \in BuildFailures THEN outcome ELSE "none"
    <2>1. q \in Locals BY DEF AtMember
    <2>2. ObservedAs(w, q, p, outcome) BY <1>1, <2>1, ObservedFields
    <2>. QED BY <1>1, <2>2 DEF ObservedAs, Behind
  <1> HIDE DEF w
  <1>3. InOrder(w) /\ w.plan \in Plans /\ w.index \in 1 .. Len(w.plan) + 1
    BY <1>1, <1>2, BehindIsInOrder
  <1>4. InPlan(w) BY <1>2, <1>3 DEF InPlan, Idle
  <1>5. Remembers(w) BY <1>1, <1>2, BehindRemembers DEF Remembers
  <1>6. Explained(w) BY <1>2 DEF Explained
  <1>7. \A x : MayTry(w, x) => MayTry(q, x) /\ x # p BY <1>1, <1>2, BehindMayTry
  <1>. QED BY <1>2, <1>3, <1>4, <1>5, <1>6, <1>7 DEF Leaves, Sound, w

(* So does a retryable status, which answers at the last member,            *)
LEMMA RetryableStatusLeaves ==
  ASSUME NEW q, NEW p \in Providers, AtMember(q, p)
  PROVE  LET s == [Observed(q, p, "status") EXCEPT !.routed = p, !.kind = "status"] IN
         Leaves(q, p, IF q.index = Len(q.plan) THEN Answered(s, p, "status") ELSE s)
  <1> DEFINE o == Observed(q, p, "status")
             s == [o EXCEPT !.routed = p, !.kind = "status"]
             a == Answered(s, p, "status")
  <1>1. /\ "status" \in FailedOutcomes /\ "status" \in Outcomes /\ "status" \notin BuildFailures
        /\ "status" \in ResponseKinds
    BY DEF FailedOutcomes, Outcomes, BuildFailures, ResponseKinds
  <1>2. o \in Locals /\ Behind(o, q, p, "status") /\ o.stage = "scanning" /\ o.last_failure = "none"
    <2>1. q \in Locals BY DEF AtMember
    <2>2. ObservedAs(o, q, p, "status") BY <1>1, <2>1, ObservedFields
    <2>. QED BY <1>1, <2>2 DEF ObservedAs, Behind
  <1> HIDE DEF o
  <1>3. /\ s \in Locals /\ s.stage = "scanning" /\ s.plan = o.plan /\ s.index = o.index
        /\ s.observations = o.observations /\ s.last_failure = "none"
        /\ s.routed = p /\ s.kind = "status"
    BY <1>1, <1>2 DEF Locals
  <1> HIDE DEF s
  <1>4. /\ a \in Locals /\ a.stage = "answered" /\ a.plan = o.plan /\ a.index = o.index
        /\ a.observations = o.observations /\ a.last_failure = "none"
        /\ a.routed = p /\ a.kind = "status"
    <2>1. "status" \in ResponseKinds \cup {"none"} /\ p \in Providers \cup {NoProvider}
        BY <1>1
    <2>2. AnsweredAs(a, s, p, "status") BY <1>3, <2>1, AnsweredFields
    <2>. QED BY <1>3, <2>2 DEF AnsweredAs
  <1> HIDE DEF a
  <1>5. ASSUME NEW w \in {s, a} PROVE Leaves(q, p, w)
    <2>1. /\ w \in Locals /\ Behind(w, q, p, "status") /\ w.last_failure = "none"
          /\ w.routed = p /\ w.kind = "status" /\ w.stage \in {"scanning", "answered"}
      BY <1>2, <1>3, <1>4 DEF Behind
    <2>2. InOrder(w) /\ w.plan \in Plans /\ w.index \in 1 .. Len(w.plan) + 1
      BY <1>1, <2>1, BehindIsInOrder
    <2>3. InPlan(w) BY <2>1, <2>2 DEF InPlan, Idle
    <2>4. /\ \A i \in 1 .. Len(w.observations) : Outcome(w, i) \in FailedOutcomes
          /\ LastStatus(w) /\ FailureIsLast(w)
      BY <1>1, <2>1, BehindRemembers
    <2>5. Remembers(w) BY <2>1, <2>4 DEF Remembers
    <2>6. Explained(w) BY <2>1, <2>4 DEF Explained
    <2>7. \A x : MayTry(w, x) => MayTry(q, x) /\ x # p BY <1>1, <2>1, BehindMayTry
    <2>. QED BY <2>1, <2>2, <2>3, <2>5, <2>6, <2>7 DEF Leaves, Sound
  <1>. QED BY <1>5 DEF a, s, o

(* The outcomes that end the request: a build failure nobody can mend, a    *)
(* failure or a success that is committed.                                  *)
Ending == {<<"invalid", "none">>, <<"semantic", "semantic">>, <<"success", "success">>}

(* an answer of the member itself,                                          *)
LEMMA AnsweredLeaves ==
  ASSUME NEW q, NEW p \in Providers, AtMember(q, p),
         NEW outcome, NEW kind, <<outcome, kind>> \in Ending,
         NEW routed \in Providers \cup {NoProvider}, kind # "none" => routed = p
  PROVE  Leaves(q, p, Answered(Observed(q, p, outcome), routed, kind))
  <1> DEFINE o == Observed(q, p, outcome)
             w == Answered(o, routed, kind)
             n == Len(q.observations)
  <1>1. /\ outcome \in Outcomes /\ outcome # "status" /\ kind # "status"
        /\ kind \in ResponseKinds \cup {"none"}
        /\ outcome = "invalid" <=> kind = "none"
        /\ kind # "none" => outcome = kind
        /\ kind # "success" => outcome \in FailedOutcomes
        /\ outcome = "invalid" => outcome \in BuildFailures
        /\ outcome \in BuildFailures => outcome = "invalid"
    BY DEF FailedOutcomes, Outcomes, BuildFailures, ResponseKinds, Ending
  <1>2. /\ o \in Locals /\ Behind(o, q, p, outcome)
        /\ o.last_failure = IF outcome \in BuildFailures THEN outcome ELSE "none"
    <2>1. q \in Locals BY DEF AtMember
    <2>2. ObservedAs(o, q, p, outcome) BY <1>1, <2>1, ObservedFields
    <2>. QED BY <1>1, <2>2 DEF ObservedAs, Behind
  <1> HIDE DEF o
  <1>3. /\ w \in Locals /\ w.stage = "answered" /\ Behind(w, q, p, outcome)
        /\ w.last_failure = IF outcome \in BuildFailures THEN outcome ELSE "none"
        /\ w.routed = routed /\ w.kind = kind
    <2>2. kind \in ResponseKinds \cup {"none"} BY <1>1
    <2>3. AnsweredAs(w, o, routed, kind) BY <1>2, <2>2, AnsweredFields
    <2>. QED BY <1>1, <1>2, <2>3 DEF AnsweredAs, Behind
  <1> HIDE DEF w
  <1>4. /\ InOrder(w) /\ w.plan \in Plans /\ w.index \in 1 .. Len(w.plan) + 1
        /\ n \in Nat /\ Len(w.observations) = n + 1
        /\ \A i \in 1 .. n : w.observations[i] = q.observations[i]
        /\ w.observations[n + 1] = [provider |-> p, outcome |-> outcome]
    BY <1>1, <1>3, BehindIsInOrder
  <1>5. InPlan(w) BY <1>3, <1>4 DEF InPlan, Idle
  <1>6. Remembers(w) BY <1>3 DEF Remembers
  <1>7. \A i \in 1 .. n : Outcome(w, i) \in FailedOutcomes
    BY <1>4 DEF AtMember, Sound, Remembers, Outcome
  <1>8. kind # "success" => \A i \in 1 .. n + 1 : Outcome(w, i) \in FailedOutcomes
    <2>1. \A i \in 1 .. n + 1 : i \in 1 .. n \/ i = n + 1 BY <1>4
    <2>2. Outcome(w, n + 1) = outcome BY <1>4 DEF Outcome
    <2>. QED BY <1>1, <1>7, <2>1, <2>2
  <1>9. FailureIsLast(w) BY <1>3, <1>4 DEF FailureIsLast, Outcome
  <1>10. Explained(w)
    <2>1. kind \in {"success", "semantic"} => w.observations[n + 1] = [provider |-> routed, outcome |-> kind]
      BY <1>1, <1>4
    <2>2. (n + 1) - 1 = n BY <1>4
    <2>3. kind = "none" => w.last_failure = "invalid" BY <1>1, <1>3
    <2>. QED BY <1>1, <1>3, <1>4, <1>7, <1>8, <1>9, <2>1, <2>2, <2>3 DEF Explained
  <1>11. \A x : MayTry(w, x) => MayTry(q, x) /\ x # p BY <1>1, <1>3, BehindMayTry
  <1>. QED BY <1>3, <1>4, <1>5, <1>6, <1>10, <1>11 DEF Leaves, Sound, w, o

(* and a rejection, which observes nothing.                                 *)
LEMMA RejectLeaves ==
  ASSUME NEW q, NEW p \in Providers, AtMember(q, p)
  PROVE  Leaves(q, p, Answered([q EXCEPT !.last_failure = "none"], p, "rejected"))
  <1> DEFINE o == [q EXCEPT !.last_failure = "none"]
             w == Answered(o, p, "rejected")
  <1>1. /\ o \in Locals /\ o.plan = q.plan /\ o.index = q.index /\ o.observations = q.observations
        /\ o.last_failure = "none"
    BY DEF AtMember, Locals
  <1>2. "rejected" \in ResponseKinds BY DEF ResponseKinds
  <1> HIDE DEF o
  <1>3. /\ w \in Locals /\ w.stage = "answered" /\ w.plan = q.plan /\ w.index = q.index
        /\ w.observations = q.observations /\ w.last_failure = "none" /\ w.kind = "rejected"
    <2>1. "rejected" \in ResponseKinds \cup {"none"} /\ p \in Providers \cup {NoProvider}
        BY <1>2
    <2>2. AnsweredAs(w, o, p, "rejected") BY <1>1, <2>1, AnsweredFields
    <2>. QED BY <1>1, <2>2 DEF AnsweredAs
  <1> HIDE DEF w
  <1>4. InPlan(w) /\ InOrder(w) BY <1>3 DEF AtMember, Sound, InPlan, InOrder, Idle
  <1>5. Remembers(w) BY <1>3 DEF Remembers
  <1>6. Explained(w)
      BY <1>3 DEF AtMember, Sound, Remembers, Explained, Outcome, FailureIsLast
  <1>7. \A x : ~MayTry(w, x) BY <1>3 DEF MayTry
  <1>. QED BY <1>3, <1>4, <1>5, <1>6, <1>7 DEF Leaves, Sound, w, o

(* The scan moves on without an attempt.                                    *)
Moves(q, w) == w \in Locals /\ Sound(w) /\ \A x : MayTry(w, x) => MayTry(q, x)

(* The scan's own moves: a member is admitted,                              *)
LEMMA AdmitMoves ==
  ASSUME NEW q \in Locals, Sound(q), q.stage = "scanning", ~(q.index > Len(q.plan)),
         NEW half_open \in BOOLEAN
  PROVE  Moves(q, [q EXCEPT !.stage = "attempting", !.half_open = half_open])
  <1> DEFINE w == [q EXCEPT !.stage = "attempting", !.half_open = half_open]
  <1>0. "attempting" \in {"idle", "scanning", "attempting", "answered"} OBVIOUS
  <1>1. /\ w \in Locals /\ w.stage = "attempting" /\ w.plan = q.plan /\ w.index = q.index
        /\ w.observations = q.observations /\ w.last_failure = q.last_failure
        /\ w.routed = q.routed /\ w.kind = q.kind
    BY <1>0 DEF Locals
  <1> HIDE DEF w
  <1>2. InPlan(w) BY <1>1, PlanShape DEF Sound, InPlan, Idle
  <1>3. InOrder(w) BY <1>1 DEF Sound, InOrder
  <1>4. Remembers(w) BY <1>1 DEF Sound, Remembers, Outcome, LastStatus, FailureIsLast
  <1>5. Explained(w) BY <1>1 DEF Explained
  <1>6. \A x : MayTry(w, x) => MayTry(q, x) BY <1>1 DEF MayTry
  <1>. QED BY <1>1, <1>2, <1>3, <1>4, <1>5, <1>6 DEF Moves, Sound, w

(* one is skipped,                                                          *)
LEMMA SkipMoves ==
  ASSUME NEW q \in Locals, Sound(q), q.stage = "scanning", ~(q.index > Len(q.plan))
  PROVE  Moves(q, Skipped(q))
  <1> DEFINE w == Skipped(q)
  <1>0. q.index + 1 \in Nat BY DEF Locals
  <1>1. /\ w \in Locals /\ w.stage = "scanning" /\ w.plan = q.plan /\ w.index = q.index + 1
        /\ w.observations = q.observations /\ w.last_failure = q.last_failure
        /\ w.routed = q.routed /\ w.kind = q.kind
    BY <1>0 DEF Locals, Skipped
  <1> HIDE DEF w
  <1>7. q.plan \in Plans /\ q.index \in 1 .. Len(q.plan) /\ Len(q.plan) \in Nat
        /\ DOMAIN q.plan = 1 .. Len(q.plan)
    BY PlanShape DEF Sound, InPlan
  <1>2. InPlan(w) BY <1>1, <1>7 DEF InPlan, Idle
  <1>3. InOrder(w) BY <1>1, <1>7 DEF Sound, InOrder
  <1>4. Remembers(w) BY <1>1 DEF Sound, Remembers, Outcome, LastStatus, FailureIsLast
  <1>5. Explained(w) BY <1>1 DEF Explained
  <1>6. \A x : MayTry(w, x) => MayTry(q, x) BY <1>1, <1>7 DEF MayTry
  <1>. QED BY <1>1, <1>2, <1>3, <1>4, <1>5, <1>6 DEF Moves, Sound, w

(* or there is none left, and the answer is what was remembered.            *)
LEMMA ExhaustMoves ==
  ASSUME NEW q \in Locals, Sound(q), q.stage = "scanning", q.index > Len(q.plan)
  PROVE  Moves(q, [q EXCEPT !.stage = "answered"])
  <1> DEFINE w == [q EXCEPT !.stage = "answered"]
  <1>0. "answered" \in {"idle", "scanning", "attempting", "answered"} OBVIOUS
  <1>1. /\ w \in Locals /\ w.stage = "answered" /\ w.plan = q.plan /\ w.index = q.index
        /\ w.observations = q.observations /\ w.last_failure = q.last_failure
        /\ w.routed = q.routed /\ w.kind = q.kind
    BY <1>0 DEF Locals
  <1> HIDE DEF w
  <1>2. InPlan(w) BY <1>1 DEF Sound, InPlan, Idle
  <1>3. InOrder(w) BY <1>1 DEF Sound, InOrder
  <1>4. Remembers(w) BY <1>1 DEF Remembers
  <1>5. Explained(w)
      BY <1>1 DEF Sound, Remembers, Explained, Outcome, LastStatus, FailureIsLast
  <1>6. \A x : ~MayTry(w, x) BY <1>1 DEF MayTry
  <1>. QED BY <1>1, <1>2, <1>3, <1>4, <1>5, <1>6 DEF Moves, Sound, w

-----------------------------------------------------------------------------
(* One request steps.                                                       *)
LEMMA OneRequest ==
  ASSUME IInv, NEW r \in Requests, NEW w \in Locals, Sound(w), Updated(r, w)
  PROVE  /\ requests' \in [Requests -> Locals] /\ requests'[r] = w
         /\ \A q \in Requests : Sound(requests'[q])
         /\ \A q \in Requests \ {r} : requests'[q] = requests[q]
  BY DEF IInv, Updated

(* Attempts are counted in numbers, with room for those still to come.      *)
LEMMA TotalsAreNumbers ==
  ASSUME IInv, NEW p \in Providers
  PROVE  /\ circuits[p].total_attempts \in Nat /\ AttemptBound \in Nat
         /\ IsFiniteSet(Trying(p)) /\ Cardinality(Trying(p)) \in Nat
         /\ circuits[p].total_attempts + Cardinality(Trying(p)) <= AttemptBound
  <1>1. circuits[p] \in Circuits BY DEF IInv
  <1>2. Trying(p) \in SUBSET Requests BY DEF Trying
  <1>. QED
      BY <1>1, <1>2, FS_Subset, FS_CardinalityType, RouterAssumption
         DEF IInv, RoomToTry, Circuits

(* The members that requests may still try, after a step of r to w.         *)
LEMMA FewerTry ==
  ASSUME IInv, NEW r \in Requests, NEW w, requests'[r] = w,
         \A q \in Requests \ {r} : requests'[q] = requests[q],
         NEW p \in Providers, MayTry(w, p) => MayTry(requests[r], p)
  PROVE  /\ Cardinality(Trying(p)') \in Nat /\ Cardinality(Trying(p)') <= Cardinality(Trying(p))
         /\ MayTry(requests[r], p) /\ ~MayTry(w, p) =>
              Cardinality(Trying(p)') <= Cardinality(Trying(p)) - 1
  <1>1. Trying(p)' \in SUBSET Trying(p) BY DEF Trying
  <1>2. MayTry(requests[r], p) /\ ~MayTry(w, p) =>
          r \in Trying(p) /\ Trying(p)' \in SUBSET (Trying(p) \ {r})
    BY DEF Trying
  <1>3. IsFiniteSet(Trying(p)) BY TotalsAreNumbers
  <1>4. /\ IsFiniteSet(Trying(p) \ {r})
        /\ r \in Trying(p) => Cardinality(Trying(p) \ {r}) = Cardinality(Trying(p)) - 1
    BY <1>3, FS_RemoveElement
  <1>. QED BY <1>1, <1>2, <1>3, <1>4, FS_Subset, FS_CardinalityType

(* A move that counts no attempt preserves the invariant.                   *)
LEMMA MovesKeepInv ==
  ASSUME IInv, NEW r \in Requests, NEW w, Moves(requests[r], w), Updated(r, w), UNCHANGED active,
         circuits' \in [Providers -> Circuits],
         \A p \in Providers : circuits'[p].total_attempts = circuits[p].total_attempts
  PROVE  IInv'
  <1>1. /\ requests' \in [Requests -> Locals] /\ requests'[r] = w
        /\ \A q \in Requests : Sound(requests'[q])
        /\ \A q \in Requests \ {r} : requests'[q] = requests[q]
    BY OneRequest DEF Moves
  <1>2. ASSUME NEW p \in Providers
        PROVE  circuits'[p].total_attempts + Cardinality(Trying(p)') <= AttemptBound
    <2>1. Cardinality(Trying(p)') \in Nat /\ Cardinality(Trying(p)') <= Cardinality(Trying(p))
      BY <1>1, FewerTry DEF Moves
    <2>. QED BY <2>1, TotalsAreNumbers
  <1>3. RoomToTry' BY <1>2 DEF RoomToTry
  <1>. QED BY <1>1, <1>3 DEF IInv

(* An attempt is counted.                                                   *)
LEMMA CountedKeepsInv ==
  ASSUME IInv, NEW r \in Requests, NEW p \in Providers, AtMember(requests[r], p),
         NEW w, Leaves(requests[r], p, w), Updated(r, w), UNCHANGED active,
         NEW d \in Circuits, d.total_attempts = circuits[p].total_attempts + 1,
         circuits' = [circuits EXCEPT ![p] = d]
  PROVE  IInv'
  <1>1. /\ requests' \in [Requests -> Locals] /\ requests'[r] = w
        /\ \A q \in Requests : Sound(requests'[q])
        /\ \A q \in Requests \ {r} : requests'[q] = requests[q]
    BY OneRequest DEF Leaves
  <1>2. /\ circuits' \in [Providers -> Circuits] /\ circuits'[p] = d
        /\ \A x \in Providers \ {p} : circuits'[x] = circuits[x]
    BY DEF IInv
  <1>3. MayTry(requests[r], p)
    <2>1. requests[r].plan \in Plans /\ requests[r].index \in 1 .. Len(requests[r].plan)
      BY DEF AtMember, Sound, InPlan
    <2>. QED BY <2>1, PlanShape DEF AtMember, MayTry
  <1>4. ASSUME NEW x \in Providers
        PROVE  circuits'[x].total_attempts + Cardinality(Trying(x)') <= AttemptBound
    <2>1. /\ Cardinality(Trying(x)') \in Nat /\ Cardinality(Trying(x)') <= Cardinality(Trying(x))
          /\ x = p => Cardinality(Trying(x)') <= Cardinality(Trying(x)) - 1
      BY <1>1, <1>3, FewerTry DEF Leaves
    <2>. QED BY <1>2, <2>1, TotalsAreNumbers
  <1>5. RoomToTry' BY <1>4 DEF RoomToTry
  <1>. QED BY <1>1, <1>2, <1>5 DEF IInv

(* The attempt under way is one at a member of the plan.                    *)
LEMMA AttemptingAtMember ==
  ASSUME IInv, NEW r \in Requests, Attempting(r)
  PROVE  /\ Member(r) \in Providers /\ AtMember(requests[r], Member(r))
         /\ circuits[Member(r)] \in Circuits
  <1>1. requests[r] \in Locals /\ Sound(requests[r]) /\ requests[r].stage = "attempting"
    BY DEF IInv, Attempting
  <1>2. requests[r].plan \in Plans /\ requests[r].index \in 1 .. Len(requests[r].plan)
    BY <1>1 DEF Sound, InPlan
  <1>. QED BY <1>1, <1>2, PlanShape DEF AtMember, Member, IInv

(* The scan is at a member of its plan.                                     *)
LEMMA ScanningMember ==
  ASSUME IInv, NEW r \in Requests, requests[r].stage = "scanning", ~Exhausted(r)
  PROVE  /\ Member(r) \in Providers /\ circuits[Member(r)] \in Circuits
         /\ MayTry(requests[r], Member(r))
  <1>1. requests[r] \in Locals /\ Sound(requests[r]) BY DEF IInv
  <1>2. requests[r].plan \in Plans /\ requests[r].index \in 1 .. Len(requests[r].plan)
    BY <1>1, PlanShape DEF Sound, InPlan, Exhausted
  <1>3. /\ requests[r].index \in DOMAIN requests[r].plan
        /\ Member(r) = requests[r].plan[requests[r].index] /\ Member(r) \in Providers
    BY <1>2, PlanShape DEF Member
  <1>4. MayTry(requests[r], Member(r))
    <2>1. requests[r].index >= requests[r].index BY <1>2
    <2>. QED BY <1>3, <2>1 DEF MayTry
  <1>5. circuits[Member(r)] \in Circuits BY <1>3 DEF IInv
  <1>. QED BY <1>3, <1>4, <1>5

(* The initial state.                                                       *)
LEMMA InitHolds == Init => IInv
  <1>. SUFFICES ASSUME Init PROVE IInv OBVIOUS
  <1>1. \A p \in Providers : circuits[p] = FreshCircuit BY DEF Init
  <1>2. \A r \in Requests : requests[r] = Idle BY DEF Init
  <1>3. \A p \in Providers : Trying(p) = {} BY <1>2, IdleIsSound DEF Trying
  <1>4. RoomToTry
    <2>1. Cardinality({}) = 0 /\ AttemptBound \in Nat BY FS_EmptySet, RouterAssumption
    <2>. QED BY <1>1, <1>3, <2>1, FreshType DEF RoomToTry
  <1>5. circuits \in [Providers -> Circuits] BY FreshType DEF Init
  <1>6. requests \in [Requests -> Locals] BY IdleIsSound DEF Init
  <1>. QED BY <1>2, <1>4, <1>5, <1>6, IdleIsSound DEF IInv, Init

(* One lemma per action: a request begins,                                  *)
LEMMA BeginKeeps == ASSUME IInv, NEW r \in Requests, Begin(r) PROVE IInv'
  <1>1. Pinned \in Locals /\ Sound(Pinned) /\ active \in Plans
    BY PinnedIsSound DEF Begin, IInv
  <1>2. /\ requests' \in [Requests -> Locals]
        /\ \A q \in Requests : Sound(requests'[q])
    BY <1>1, OneRequest DEF Begin
  <1>3. ASSUME NEW p \in Providers
        PROVE  circuits'[p].total_attempts + Cardinality(Trying(p)') <= AttemptBound
    <2>1. Trying(p)' \in SUBSET Requests BY DEF Trying
    <2>2. /\ Cardinality(Trying(p)') \in Nat /\ Cardinality(Requests) \in Nat
          /\ Cardinality(Trying(p)') <= Cardinality(Requests)
      BY <2>1, FS_Subset, FS_CardinalityType, RouterAssumption
    <2>3. circuits[p].total_attempts + Cardinality(Requests) <= AttemptBound /\ circuits' = circuits
      BY DEF Begin, WithinBound
    <2>. QED BY <2>2, <2>3, TotalsAreNumbers
  <1>4. RoomToTry' BY <1>3 DEF RoomToTry
  <1>. QED BY <1>2, <1>4 DEF IInv, Begin

(* its scan moves,                                                          *)
LEMMA StepKeeps == ASSUME IInv, NEW r \in Requests, Step(r) PROVE IInv'
  <1>0. requests[r] \in Locals /\ Sound(requests[r]) BY DEF IInv
  <1>1. CASE AdmitMember(r)
    <2>1. /\ Member(r) \in Providers /\ circuits[Member(r)] \in Circuits
          /\ Admissible(circuits[Member(r)])
      BY <1>1, ScanningMember DEF AdmitMember
    <2>2. ProbePermit(circuits[Member(r)]) \in BOOLEAN BY DEF ProbePermit
    <2>3. \E w : Moves(requests[r], w) /\ Updated(r, w)
      BY <1>0, <1>1, <2>2, AdmitMoves DEF AdmitMember, Exhausted
    <2>4. /\ circuits' \in [Providers -> Circuits]
          /\ \A p \in Providers : circuits'[p].total_attempts = circuits[p].total_attempts
      BY <1>1, <2>1, AdmittedType DEF AdmitMember, IInv
    <2>. QED BY <1>1, <2>3, <2>4, MovesKeepInv DEF AdmitMember
  <1>2. CASE SkipMember(r)
    <2>1. Moves(requests[r], Skipped(requests[r]))
      BY <1>0, <1>2, SkipMoves DEF SkipMember, Exhausted
    <2>. QED BY <1>2, <2>1, MovesKeepInv DEF SkipMember, IInv
  <1>3. CASE Exhaust(r)
    <2>1. Moves(requests[r], [requests[r] EXCEPT !.stage = "answered"])
      BY <1>0, <1>3, ExhaustMoves DEF Exhaust, Exhausted
    <2>. QED BY <1>3, <2>1, MovesKeepInv DEF Exhaust, IInv
  <1>4. CASE Respond(r)
    <2>1. Moves(requests[r], Idle) BY IdleIsSound DEF Moves
    <2>. QED BY <1>4, <2>1, MovesKeepInv DEF Respond, IInv
  <1>. QED BY <1>1, <1>2, <1>3, <1>4 DEF Step

(* its attempt ends,                                                        *)
LEMMA FinishKeeps == ASSUME IInv, NEW r \in Requests, Finish(r) PROVE IInv'
  <1> DEFINE q == requests[r]
             p == Member(r)
  <1>0. /\ Attempting(r) /\ p \in Providers /\ AtMember(q, p) /\ circuits[p] \in Circuits
        /\ UNCHANGED active
    BY AttemptingAtMember
       DEF Finish, FailOver, Terminate, Commit, CommitFailure, RetryableStatus, Reject
  <1>1. ASSUME NEW w, Updated(r, w), Leaves(q, p, w), CountFailure(r) PROVE IInv'
    <2>1. circuits' = [circuits EXCEPT ![p] = Failed(circuits[p])]
        BY <1>1 DEF CountFailure
    <2>. QED BY <1>0, <1>1, <2>1, FailedType, CountedKeepsInv
  <1>2. ASSUME NEW outcome \in {"configuration", "transport", "semantic"}, FailOver(r, outcome)
        PROVE  IInv'
    BY <1>0, <1>1, <1>2, FailOverLeaves DEF FailOver
  <1>3. CASE Terminate(r)
    <2>1. <<"invalid", "none">> \in Ending /\ NoProvider \in Providers \cup {NoProvider}
      BY DEF Ending
    <2>2. Leaves(q, p, Answered(Observed(q, p, "invalid"), NoProvider, "none"))
      BY <1>0, <2>1, AnsweredLeaves
    <2>. QED BY <1>1, <1>3, <2>2 DEF Terminate
  <1>4. CASE Commit(r)
    <2>1. <<"success", "success">> \in Ending /\ p \in Providers \cup {NoProvider}
      BY <1>0 DEF Ending
    <2>2. Leaves(q, p, Answered(Observed(q, p, "success"), p, "success"))
      BY <1>0, <2>1, AnsweredLeaves
    <2>3. circuits' = [circuits EXCEPT ![p] = Succeeded(circuits[p])] BY <1>4 DEF Commit
    <2>. QED BY <1>0, <1>4, <2>2, <2>3, SucceededType, CountedKeepsInv DEF Commit
  <1>5. CASE CommitFailure(r)
    <2>1. <<"semantic", "semantic">> \in Ending /\ p \in Providers \cup {NoProvider}
      BY <1>0 DEF Ending
    <2>2. Leaves(q, p, Answered(Observed(q, p, "semantic"), p, "semantic"))
      BY <1>0, <2>1, AnsweredLeaves
    <2>. QED BY <1>1, <1>5, <2>2 DEF CommitFailure
  <1>6. CASE RetryableStatus(r)
    BY <1>0, <1>1, <1>6, RetryableStatusLeaves DEF RetryableStatus
  <1>7. CASE Reject(r)
    <2>1. Moves(q, Answered([q EXCEPT !.last_failure = "none"], p, "rejected"))
      BY <1>0, RejectLeaves DEF Leaves, Moves
    <2>2. circuits' = [circuits EXCEPT ![p] = Released(circuits[p], q.half_open)]
      BY <1>7 DEF Reject
    <2>3. /\ circuits' \in [Providers -> Circuits]
          /\ \A x \in Providers : circuits'[x].total_attempts = circuits[x].total_attempts
      BY <1>0, <2>2, ReleasedType DEF IInv
    <2>. QED BY <1>7, <2>1, <2>3, MovesKeepInv DEF Reject
  <1>. QED BY <1>2, <1>3, <1>4, <1>5, <1>6, <1>7 DEF Finish

(* or it is cancelled.                                                      *)
LEMMA CancelKeeps == ASSUME IInv, NEW r \in Requests, Cancel(r) PROVE IInv'
  <1>1. Moves(requests[r], Idle) BY IdleIsSound DEF Moves
  <1>2. /\ circuits' \in [Providers -> Circuits]
        /\ \A p \in Providers : circuits'[p].total_attempts = circuits[p].total_attempts
    <2>1. CASE Attempting(r)
      BY <2>1, AttemptingAtMember, ReleasedType DEF Cancel, IInv
    <2>2. CASE ~Attempting(r) BY <2>2 DEF Cancel, IInv
    <2>. QED BY <2>1, <2>2
  <1>. QED BY <1>1, <1>2, MovesKeepInv DEF Cancel

(* Every step preserves the invariant.                                      *)
LEMMA NextHolds == ASSUME IInv, [Next]_vars PROVE IInv'
  <1>1. ASSUME requests' = requests, active' \in Plans \cup {NoPlan},
               circuits' \in [Providers -> Circuits],
               \A p \in Providers : circuits'[p].total_attempts = circuits[p].total_attempts
        PROVE  IInv'
    <2>1. \A p \in Providers : Trying(p)' = Trying(p) BY <1>1 DEF Trying
    <2>. QED BY <1>1, <2>1 DEF IInv, RoomToTry
  <1>2. ASSUME NEW plan \in Plans, Apply(plan) PROVE IInv'
    BY <1>1, <1>2 DEF Apply, IInv
  <1>3. CASE Disable BY <1>1, <1>3 DEF Disable, IInv
  <1>4. ASSUME NEW p \in Providers, Elapse(p) PROVE IInv'
    <2>1. circuits[p] \in Circuits BY DEF IInv
    <2>2. [circuits[p] EXCEPT !.elapsed = TRUE] \in Circuits BY <2>1 DEF Circuits
    <2>3. [circuits[p] EXCEPT !.elapsed = TRUE].total_attempts = circuits[p].total_attempts
      BY <2>1 DEF Circuits
    <2>4. circuits' = [circuits EXCEPT ![p] = [circuits[p] EXCEPT !.elapsed = TRUE]]
      BY <1>4 DEF Elapse
    <2>. QED BY <1>1, <1>4, <2>2, <2>3, <2>4 DEF Elapse, IInv
  <1>5. CASE Restart
    <2>1. \A p \in Providers : circuits'[p] = FreshCircuit BY <1>5 DEF Restart
    <2>2. \A r \in Requests : requests'[r] = Idle BY <1>5 DEF Restart
    <2>3. \A p \in Providers : Trying(p)' = {} BY <2>2, IdleIsSound DEF Trying
    <2>4. RoomToTry'
      <3>1. Cardinality({}) = 0 /\ AttemptBound \in Nat BY FS_EmptySet, RouterAssumption
      <3>. QED BY <2>1, <2>3, <3>1, FreshType DEF RoomToTry
    <2>5. circuits' \in [Providers -> Circuits] BY <1>5, FreshType DEF Restart
    <2>6. requests' \in [Requests -> Locals] BY <1>5, IdleIsSound DEF Restart
    <2>. QED BY <1>5, <2>2, <2>4, <2>5, <2>6, IdleIsSound DEF IInv, Restart
  <1>6. CASE UNCHANGED vars BY <1>1, <1>6 DEF vars, IInv
  <1>. QED
      BY <1>2, <1>3, <1>4, <1>5, <1>6, BeginKeeps, StepKeeps, FinishKeeps, CancelKeeps
         DEF Next

(* Whatever circuits and clients do, the answer of a request is explained   *)
(* by its plan and its observations: members are tried in plan order, a     *)
(* served answer is the last observed, and no provider answered only when   *)
(* the whole plan was gone through or a build failure ended it.             *)
THEOREM AnswersAreExplained == Spec => []AnswerExplained
  <1>1. IInv => AnswerExplained
    <2>. SUFFICES ASSUME IInv PROVE AnswerExplained OBVIOUS
    <2>1. ASSUME NEW r \in Requests
          PROVE  /\ requests[r] \in Locals /\ InPlan(requests[r]) /\ InOrder(requests[r])
                 /\ Explained(requests[r])
      BY DEF IInv, Sound
    <2>2. TypeOK
      <3>1. ASSUME NEW r \in Requests PROVE requests[r].index \in 0 .. Cardinality(Providers) + 1
        <4>1. Cardinality(Providers) \in Nat BY FS_CardinalityType, RouterAssumption
        <4>2. CASE requests[r].stage = "idle"
          <5>1. requests[r].index = 0 BY <2>1, <4>2 DEF InPlan, Idle
          <5>. QED BY <4>1, <5>1
        <4>3. CASE requests[r].stage # "idle"
          <5>1. /\ requests[r].index \in 1 .. Len(requests[r].plan) + 1
                /\ Len(requests[r].plan) \in Nat /\ Len(requests[r].plan) <= Cardinality(Providers)
            BY <2>1, <4>3, PlanShape DEF InPlan
          <5>. QED BY <4>1, <5>1
        <4>. QED BY <4>2, <4>3
      <3>2. ASSUME NEW r \in Requests
            PROVE  /\ requests[r].stage \in {"idle", "scanning", "attempting", "answered"}
                   /\ requests[r].stage = "idle" <=> requests[r] = Idle
                   /\ requests[r].plan \in Plans \cup {NoPlan}
                   /\ requests[r].observations \in Seq([provider : Providers, outcome : Outcomes])
                   /\ requests[r].last_failure \in BuildFailures \cup {"none"}
                   /\ requests[r].routed \in Providers \cup {NoProvider}
                   /\ requests[r].kind \in ResponseKinds \cup {"none"}
        BY <2>1 DEF InPlan, Locals, Observations
      <3>. QED BY <3>1, <3>2 DEF TypeOK, IInv
    <2>3. AttemptsInPlanOrder
      <3>1. ASSUME NEW r \in Requests, NEW i \in DOMAIN requests[r].observations,
                   NEW j \in DOMAIN requests[r].observations, i < j
            PROVE  \E k, l \in DOMAIN requests[r].plan :
                     /\ k < l /\ l <= requests[r].index
                     /\ requests[r].plan[k] = requests[r].observations[i].provider
                     /\ requests[r].plan[l] = requests[r].observations[j].provider
        <4>1. PICK k, l \in DOMAIN requests[r].plan :
                /\ k < l /\ l < requests[r].index
                /\ requests[r].plan[k] = requests[r].observations[i].provider
                /\ requests[r].plan[l] = requests[r].observations[j].provider
          BY <2>1, <3>1 DEF InOrder
        <4>2. requests[r].observations # <<>> BY <3>1
        <4>3. requests[r].plan \in Plans BY <2>1, <4>2 DEF InPlan, Idle
        <4>4. l \in Nat /\ requests[r].index \in Nat BY <2>1, <4>3, PlanShape DEF Locals
        <4>. QED BY <4>1, <4>4
      <3>. QED BY <3>1 DEF AttemptsInPlanOrder
    <2>4. ObservationsExplain
      BY <2>1
         DEF ObservationsExplain, Explained, Answers, Outcome, LastStatus, FailureIsLast
    <2>5. UnavailableAfterWholePlan
      BY <2>1 DEF UnavailableAfterWholePlan, Explained, Answers
    <2>. QED BY <2>2, <2>3, <2>4, <2>5 DEF AnswerExplained
  <1>. QED BY <1>1, InitHolds, NextHolds, PTL DEF Spec

-----------------------------------------------------------------------------
(* The attempts as permits of RouteHealth.                                  *)
PermitsHeld == [r \in Requests |-> Permit(r)]

(* Every step is one of RouteHealth or leaves its variables alone.          *)
LEMMA StepsAreHealthSteps ==
  ASSUME IInv, [Next]_vars
  PROVE  [Health!Next]_(Health!vars)
  <1>1. ASSUME NEW r \in Requests, NEW w, Updated(r, w)
        PROVE  /\ PermitsHeld' = [PermitsHeld EXCEPT ![r] = Permit(r)']
               /\ PermitsHeld[r] = Permit(r)
               /\ requests'[r] = w
    BY <1>1 DEF Updated, PermitsHeld, Permit, Attempting, Member, IInv
  <1>2. ASSUME circuits' = circuits, PermitsHeld' = PermitsHeld PROVE UNCHANGED Health!vars
    BY <1>2 DEF Health!vars, PermitsHeld
  <1>3. ASSUME NEW r \in Requests, NEW w, Updated(r, w), w.stage # "attempting"
        PROVE  PermitsHeld' = [PermitsHeld EXCEPT ![r] = NoPermit]
    BY <1>1, <1>3 DEF Permit, Attempting
  <1>4. ASSUME NEW r \in Requests, Attempting(r)
        PROVE  /\ Member(r) \in Providers
               /\ PermitsHeld[r] # NoPermit
               /\ PermitsHeld[r].provider = Member(r)
               /\ PermitsHeld[r].half_open = requests[r].half_open
    <2>1. Member(r) \in Providers /\ requests[r].half_open \in BOOLEAN
      BY <1>4, AttemptingAtMember DEF AtMember, Locals
    <2>2. PermitsHeld[r] = [provider |-> Member(r), half_open |-> requests[r].half_open]
      BY <1>4 DEF PermitsHeld, Permit
    <2>. QED BY <2>1, <2>2, RouterAssumption
  <1>5. ASSUME NEW r \in Requests, AdmitMember(r) PROVE Health!Next
    <2> DEFINE p == Member(r)
    <2>1. /\ p \in Providers /\ circuits[p] \in Circuits /\ MayTry(requests[r], p)
          /\ Admissible(circuits[p]) /\ requests[r].stage = "scanning"
      BY <1>5, ScanningMember DEF AdmitMember
    <2>2. circuits[p].total_attempts < AttemptBound
      <3>1. r \in Trying(p) /\ IsFiniteSet(Trying(p))
          BY <2>1, TotalsAreNumbers DEF Trying
      <3>2. Cardinality(Trying(p)) # 0 BY <3>1, FS_EmptySet
      <3>. QED BY <2>1, <3>2, TotalsAreNumbers
    <2>3. PICK w : /\ w = [requests[r] EXCEPT !.stage = "attempting",
                                              !.half_open = ProbePermit(circuits[p])]
                   /\ Updated(r, w)
      BY <1>5 DEF AdmitMember
    <2>4. /\ w.stage = "attempting" /\ w.plan = requests[r].plan /\ w.index = requests[r].index
          /\ w.half_open = ProbePermit(circuits[p])
      BY <2>3 DEF IInv, Locals
    <2>5. requests'[r] = w /\ PermitsHeld[r] = Permit(r)
          /\ PermitsHeld' = [PermitsHeld EXCEPT ![r] = Permit(r)']
      BY <1>1, <2>3
    <2>6. Permit(r)' = [provider |-> p, half_open |-> ProbePermit(circuits[p])]
      BY <2>4, <2>5 DEF Permit, Attempting, Member
    <2>7. PermitsHeld[r] = NoPermit BY <2>1, <2>5 DEF Permit, Attempting
    <2>8. circuits' = [circuits EXCEPT ![p] = Admitted(circuits[p])]
        BY <1>5 DEF AdmitMember
    <2>9. Health!Admit(r, p)
      BY <2>1, <2>2, <2>5, <2>6, <2>7, <2>8
         DEF Health!Admit, Health!WithinBound, PermitsHeld, Health!Admissible, Admissible,
             Health!Admitted, Admitted, Health!ProbePermit, ProbePermit
    <2>. QED BY <2>1, <2>9 DEF Health!Next
  <1>6. ASSUME NEW r \in Requests, NEW w, Updated(r, w), w.stage # "attempting", Attempting(r),
               CountFailure(r)
        PROVE  Health!Next
    <2> DEFINE p == Member(r)
    <2>2. Health!Failed(circuits[p]) = Failed(circuits[p])
      BY DEF Health!Failed, Failed, Health!OpensOnFailure, OpensOnFailure,
             Health!ErrorRateOpens, ErrorRateOpens
    <2>5. PermitsHeld' = [PermitsHeld EXCEPT ![r] = NoPermit] BY <1>3, <1>6
    <2>3. /\ PermitsHeld[r] # NoPermit /\ PermitsHeld[r].provider = p
          /\ PermitsHeld' = [PermitsHeld EXCEPT ![r] = NoPermit]
      BY <1>4, <1>6, <2>5
    <2>4. circuits' = [circuits EXCEPT ![p] = Failed(circuits[p])]
      BY <1>6 DEF CountFailure
    <2> HIDE DEF p
    <2>1. Health!Fail(r) BY <2>2, <2>3, <2>4 DEF Health!Fail, PermitsHeld
    <2>. QED BY <2>1 DEF Health!Next
  <1>7. ASSUME NEW r \in Requests, NEW w, Updated(r, w), w.stage # "attempting", Attempting(r),
               circuits' = [circuits EXCEPT ![Member(r)] = Released(@, requests[r].half_open)]
        PROVE  Health!Next
    <2> DEFINE p == Member(r)
               half_open == requests[r].half_open
    <2>2. Health!Released(circuits[p], half_open) = Released(circuits[p], half_open)
      BY DEF Health!Released, Released
    <2>5. PermitsHeld' = [PermitsHeld EXCEPT ![r] = NoPermit] BY <1>3, <1>7
    <2>3. /\ PermitsHeld[r] # NoPermit /\ PermitsHeld[r].provider = p
          /\ PermitsHeld[r].half_open = half_open
          /\ PermitsHeld' = [PermitsHeld EXCEPT ![r] = NoPermit]
      BY <1>4, <1>7, <2>5
    <2>4. circuits' = [circuits EXCEPT ![p] = Released(circuits[p], half_open)]
      BY <1>7
    <2> HIDE DEF p, half_open
    <2>1. Health!Abandon(r) BY <2>2, <2>3, <2>4 DEF Health!Abandon, PermitsHeld
    <2>. QED BY <2>1 DEF Health!Next
  <1>8. ASSUME NEW r \in Requests, NEW w, Updated(r, w), w.stage # "attempting", ~Attempting(r),
               circuits' = circuits
        PROVE  UNCHANGED Health!vars
    <2>1. PermitsHeld[r] = NoPermit BY <1>8 DEF PermitsHeld, Permit
    <2>2. PermitsHeld' = PermitsHeld BY <1>3, <1>8, <2>1 DEF PermitsHeld
    <2>. QED BY <1>2, <1>8, <2>2
  <1>9. ASSUME NEW r \in Requests, Finish(r) PROVE Health!Next
    <2> DEFINE q == requests[r]
               p == Member(r)
    <2>0. Attempting(r) /\ q \in Locals /\ p \in Providers /\ AtMember(q, p)
      BY <1>9, AttemptingAtMember
         DEF Finish, FailOver, Terminate, Commit, CommitFailure, RetryableStatus, Reject, AtMember
    <2>1. ASSUME NEW w, Updated(r, w), w \in Locals, w.stage \in {"scanning", "answered"}, CountFailure(r)
          PROVE  Health!Next
      BY <1>6, <2>0, <2>1
    <2>2. ASSUME NEW outcome \in Outcomes
          PROVE  ObservedAs(Observed(q, p, outcome), q, p, outcome)
      BY <2>0, <2>2, ObservedFields
    <2>3. ASSUME NEW outcome \in {"configuration", "transport", "semantic"}, FailOver(r, outcome)
          PROVE  Health!Next
      <3>1. outcome \in Outcomes BY DEF Outcomes, FailedOutcomes, BuildFailures
      <3>2. Observed(q, p, outcome) \in Locals /\ Observed(q, p, outcome).stage = "scanning"
        BY <2>2, <3>1 DEF ObservedAs
      <3>. QED BY <2>1, <2>3, <3>2 DEF FailOver
    <2>4. ASSUME NEW outcome \in Outcomes, NEW routed \in Providers \cup {NoProvider},
                 NEW kind \in ResponseKinds \cup {"none"}
          PROVE  /\ Answered(Observed(q, p, outcome), routed, kind) \in Locals
                 /\ Answered(Observed(q, p, outcome), routed, kind).stage = "answered"
      <3>1. Observed(q, p, outcome) \in Locals BY <2>2, <2>4 DEF ObservedAs
      <3>. QED BY <2>4, <3>1, AnsweredFields DEF AnsweredAs
    <2>5. CASE Terminate(r)
      <3>1. /\ "invalid" \in Outcomes /\ "none" \in ResponseKinds \cup {"none"}
            /\ NoProvider \in Providers \cup {NoProvider}
        BY DEF Outcomes, FailedOutcomes, BuildFailures
      <3>. QED BY <2>1, <2>4, <2>5, <3>1 DEF Terminate
    <2>6. CASE CommitFailure(r)
      <3>1. /\ "semantic" \in Outcomes /\ "semantic" \in ResponseKinds \cup {"none"}
            /\ p \in Providers \cup {NoProvider}
        BY <2>0 DEF Outcomes, FailedOutcomes, ResponseKinds
      <3>. QED BY <2>1, <2>4, <2>6, <3>1 DEF CommitFailure
    <2>7. CASE RetryableStatus(r)
      <3> DEFINE s == [Observed(q, p, "status") EXCEPT !.routed = p, !.kind = "status"]
                 w == IF q.index = Len(q.plan) THEN Answered(s, p, "status") ELSE s
      <3>1. Updated(r, w) /\ CountFailure(r) BY <2>7 DEF RetryableStatus
      <3>2. Leaves(q, p, w) BY <2>0, RetryableStatusLeaves
      <3>3. w.stage # "attempting"
        <4>1. "status" \in Outcomes BY DEF Outcomes, FailedOutcomes
        <4>2. Observed(q, p, "status") \in Locals /\ Observed(q, p, "status").stage = "scanning"
          BY <2>2, <4>1 DEF ObservedAs
        <4>3. s.stage = "scanning" BY <4>2 DEF Locals
        <4>4. Answered(s, p, "status").stage = "answered"
          <5>1. s \in Locals BY <2>0, <4>2 DEF Locals, ResponseKinds
          <5>2. "status" \in ResponseKinds \cup {"none"} /\ p \in Providers \cup {NoProvider}
            BY <2>0 DEF ResponseKinds
          <5>. HIDE DEF s
          <5>. QED BY <5>1, <5>2, AnsweredFields DEF AnsweredAs
        <4>. QED BY <4>3, <4>4
      <3> HIDE DEF w
      <3>. QED BY <1>6, <2>0, <3>1, <3>3
    <2>8. CASE Commit(r)
      <3>1. /\ "success" \in Outcomes /\ "success" \in ResponseKinds \cup {"none"}
            /\ p \in Providers \cup {NoProvider}
        BY <2>0 DEF Outcomes, ResponseKinds
      <3>2. PICK w : Updated(r, w) /\ w.stage # "attempting"
        BY <2>4, <2>8, <3>1 DEF Commit
      <3>7. PermitsHeld' = [PermitsHeld EXCEPT ![r] = NoPermit] BY <1>3, <3>2
      <3>3. Health!Succeeded(circuits[p]) = Succeeded(circuits[p])
        BY DEF Health!Succeeded, Succeeded, Health!ClosesOnSuccess, ClosesOnSuccess
      <3>4. /\ PermitsHeld[r] # NoPermit /\ PermitsHeld[r].provider = p
            /\ PermitsHeld' = [PermitsHeld EXCEPT ![r] = NoPermit]
        BY <1>4, <2>0, <3>7
      <3>5. circuits' = [circuits EXCEPT ![p] = Succeeded(circuits[p])]
          BY <2>8 DEF Commit
      <3> HIDE DEF p
      <3>6. Health!Succeed(r) BY <3>3, <3>4, <3>5 DEF Health!Succeed, PermitsHeld
      <3>. QED BY <3>6 DEF Health!Next
    <2>9. CASE Reject(r)
      <3> DEFINE o == [q EXCEPT !.last_failure = "none"]
                 w == Answered(o, p, "rejected")
      <3>1. o \in Locals BY <2>0 DEF Locals
      <3>2. "rejected" \in ResponseKinds \cup {"none"} /\ p \in Providers \cup {NoProvider}
        BY <2>0 DEF ResponseKinds
      <3>3. w.stage = "answered"
        <4> HIDE DEF o
        <4>. QED BY <3>1, <3>2, AnsweredFields DEF AnsweredAs
      <3>4. /\ Updated(r, w)
            /\ circuits' = [circuits EXCEPT ![Member(r)] = Released(@, requests[r].half_open)]
        BY <2>9 DEF Reject
      <3> HIDE DEF w
      <3>. QED BY <1>7, <2>0, <3>3, <3>4
    <2>. QED BY <1>9, <2>3, <2>5, <2>6, <2>7, <2>8, <2>9 DEF Finish
  <1>10. ASSUME NEW r \in Requests, NEW w, Updated(r, w), w.stage # "attempting",
                requests[r].stage # "attempting", circuits' = circuits
         PROVE  UNCHANGED Health!vars
    BY <1>8, <1>10 DEF Attempting
  <1>11. ASSUME NEW r \in Requests, SkipMember(r) \/ Exhaust(r) \/ Respond(r) \/ Begin(r)
         PROVE  UNCHANGED Health!vars
    <2>1. requests[r] \in Locals BY DEF IInv
    <2>2. Idle.stage = "idle" /\ Pinned.stage = "scanning" BY DEF Idle, Pinned
    <2>3. requests[r].stage = "scanning" => Skipped(requests[r]).stage # "attempting"
      BY <2>1 DEF Skipped, Locals
    <2>4. [requests[r] EXCEPT !.stage = "answered"].stage # "attempting"
        BY <2>1 DEF Locals
    <2>5. CASE SkipMember(r) BY <1>10, <2>3, <2>5 DEF SkipMember
    <2>6. CASE Exhaust(r) BY <1>10, <2>4, <2>6 DEF Exhaust
    <2>7. CASE Respond(r) BY <1>10, <2>2, <2>7 DEF Respond
    <2>8. CASE Begin(r) BY <1>10, <2>2, <2>8 DEF Begin
    <2>. QED BY <1>11, <2>5, <2>6, <2>7, <2>8
  <1>12. ASSUME NEW r \in Requests, Cancel(r) PROVE Health!Next \/ UNCHANGED Health!vars
    <2>1. Idle.stage = "idle" /\ Updated(r, Idle) BY <1>12 DEF Idle, Cancel
    <2>2. CASE Attempting(r) BY <1>7, <1>12, <2>1, <2>2 DEF Cancel
    <2>3. CASE ~Attempting(r) BY <1>8, <1>12, <2>1, <2>3 DEF Cancel
    <2>. QED BY <2>2, <2>3
  <1>13. ASSUME NEW p \in Providers, Elapse(p) PROVE Health!Next
    <2>1. PermitsHeld' = PermitsHeld
        BY <1>13 DEF Elapse, PermitsHeld, Permit, Attempting, Member
    <2>2. Health!Elapse(p) BY <1>13, <2>1 DEF Elapse, Health!Elapse, PermitsHeld
    <2>. QED BY <2>2 DEF Health!Next
  <1>14. CASE Restart
    <2>1. \A r \in Requests : Permit(r)' = NoPermit
        BY <1>14 DEF Restart, Permit, Attempting, Idle
    <2>2. PermitsHeld' = [r \in Requests |-> NoPermit] BY <2>1 DEF PermitsHeld
    <2>3. Health!FreshCircuit = FreshCircuit BY DEF Health!FreshCircuit, FreshCircuit
    <2>4. Health!Restart BY <1>14, <2>2, <2>3 DEF Health!Restart, Restart, PermitsHeld
    <2>. QED BY <2>4 DEF Health!Next
  <1>15. ASSUME UNCHANGED <<circuits, requests>> PROVE UNCHANGED Health!vars
    BY <1>2, <1>15 DEF PermitsHeld, Permit, Attempting, Member
  <1>. QED
    BY <1>5, <1>9, <1>11, <1>12, <1>13, <1>14, <1>15
       DEF Next, Step, Apply, Disable, vars

(* Every attempt of every request is a permit of RouteHealth, and nothing   *)
(* else touches the circuits: what is proved of RouteHealth holds here.     *)
THEOREM RoutesAsHealthSays == Spec => ImplementsRouteHealth
  <1>1. Init => Health!Init
    <2>. SUFFICES ASSUME Init PROVE Health!Init OBVIOUS
    <2>1. \A r \in Requests : Permit(r) = NoPermit BY DEF Init, Permit, Attempting, Idle
    <2>2. Health!FreshCircuit = FreshCircuit BY DEF Health!FreshCircuit, FreshCircuit
    <2>. QED BY <2>1, <2>2 DEF Init, Health!Init
  <1>. QED
    BY <1>1, InitHolds, NextHolds, StepsAreHealthSteps, PTL
       DEF Spec, ImplementsRouteHealth, Health!Spec

=============================================================================
