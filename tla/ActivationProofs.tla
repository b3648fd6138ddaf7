-------------------------- MODULE ActivationProofs --------------------------
(****************************************************************************)
(* For any set of activations, and through any number of rollbacks, edits,  *)
(* crashes and failed store writes:                                         *)
(*   - what Restore would put back, for a Target whose commits hand on the  *)
(*     payload of the route they replace, as Codex's do, holds the owned    *)
(*     fields as they were before Muxvia wrote them;                        *)
(*   - what the file holds of Muxvia's is committed or accounted for by a   *)
(*     stored intent;                                                       *)
(*   - no step writes over an edit that it has not read.                    *)
(****************************************************************************)
EXTENDS Activation, TLAPS

(* Steps at which the action's intent is stored and not settled.            *)
Open == {"apply", "verify", "commit", "restore", "settle", "require", "reconcile",
         "settleStartup", "requireStartup"}
Acting == Open \cup {"preflight", "candidate", "intent", "handoff", "handoffFailed"}

(* The records have their fields, so that an update of one changes it.      *)
Shape ==
  /\ DOMAIN intents = Actions
  /\ \A a \in Actions : DOMAIN intents[a] = {"state", "before", "desired", "row"}
  /\ DOMAIN route = {"target", "desired", "intent", "required", "drift", "revision"}
  /\ DOMAIN op = {"pc", "action", "before", "desired", "candidate", "revision"}

(* The intent of an operation under way is pending, so that it is not the   *)
(* one bound to the route, which is committed and stays as it is.           *)
OpenIsPending ==
  /\ op.pc \in Acting => op.action \in Actions
  /\ op.pc \in Open => intents[op.action].state = "pending"

BoundIsCommitted ==
  Managed /\ ~route.required =>
    /\ route.intent \in Actions
    /\ Bound.state = "committed"
    /\ Target = "codex" => Bound.before.owned = original

IInv == Shape /\ OpenIsPending /\ BoundIsCommitted

(* The first theorem: the initial states, and every action.                 *)
LEMMA Initially == Init => IInv
  BY DEF Init, IInv, Shape, OpenIsPending, BoundIsCommitted, Managed, Target, NoIntent,
         Idle, Open, Acting

(* A step that leaves the route and the intents alone only has to keep its  *)
(* place.                                                                   *)
LEMMA Elsewhere ==
  ASSUME IInv, UNCHANGED <<route, intents, original>>,
         DOMAIN op' = DOMAIN op,
         op'.pc \in Acting => op'.action \in Actions,
         op'.pc \in Open => intents[op'.action].state = "pending"
  PROVE  IInv'
  BY DEF IInv, Shape, OpenIsPending, BoundIsCommitted, Managed, Target, Bound

(* Marking an intent blocks the route, and nothing is claimed of it then.   *)
LEMMA MarkedKeeps ==
  ASSUME IInv, NEW a \in Actions, MarkRequired(a),
         DOMAIN op' = DOMAIN op, op'.pc \notin Acting
  PROVE  IInv'
  <1>1. Shape' BY DEF IInv, Shape, MarkRequired
  <1>2. route'.required = TRUE BY DEF IInv, Shape, MarkRequired
  <1>3. OpenIsPending' BY DEF OpenIsPending, Open, Acting
  <1>. QED BY <1>1, <1>2, <1>3 DEF IInv, BoundIsCommitted

(* Settling an intent that is pending does not touch the bound one.         *)
LEMMA Settled ==
  ASSUME IInv, op.pc \in Open,
         intents' = [intents EXCEPT ![op.action].state = "rolledBack"],
         UNCHANGED <<route, original>>, DOMAIN op' = DOMAIN op, op'.pc \notin Acting
  PROVE  IInv'
  <1>1. op.action \in Actions /\ intents[op.action].state = "pending"
    BY DEF IInv, OpenIsPending, Open, Acting
  <1>2. Shape' BY <1>1 DEF IInv, Shape
  <1>3. OpenIsPending' BY DEF OpenIsPending, Open, Acting
  <1>4. BoundIsCommitted'
      BY <1>1 DEF IInv, Shape, BoundIsCommitted, Managed, Target, Bound
  <1>. QED BY <1>2, <1>3, <1>4 DEF IInv

(* The fields of op after the updates that the actions make.                *)
LEMMA Going ==
  ASSUME IInv, NEW step, Goto(step)
  PROVE  /\ op'.pc = step /\ op'.action = op.action /\ DOMAIN op' = DOMAIN op
         /\ op'.desired = op.desired /\ op'.before = op.before
  BY DEF IInv, Shape, Goto

LEMMA Ending ==
  ASSUME IInv, End
  PROVE  op'.pc \notin Acting /\ DOMAIN op' = DOMAIN op
  BY DEF IInv, Shape, End, Idle, Acting, Open

LEMMA RequestKeeps == ASSUME IInv, NEW a \in Actions, Request(a) PROVE IInv'
  <1>1. op'.pc = "preflight" /\ op'.action = a /\ DOMAIN op' = DOMAIN op
    BY DEF Request, Idle, IInv, Shape
  <1>. QED BY <1>1, Elsewhere DEF Request, store, ghosts, Open

LEMMA PreflightKeeps == ASSUME IInv, Preflight PROVE IInv'
  <1>0. op.action \in Actions BY DEF IInv, OpenIsPending, Preflight, Acting
  <1>1. CASE MarkRequired(route.intent) /\ Target = "claude" /\ Managed /\ ~AsCommitted /\ End
    <2>1. CASE route.required
      <3>1. UNCHANGED original BY DEF Preflight, ghosts
      <3>2. DOMAIN route' = DOMAIN route /\ route'.required = TRUE
        BY <1>1 DEF MarkRequired, IInv, Shape
      <3>3. DOMAIN intents' = DOMAIN intents /\ \A a \in Actions : DOMAIN intents'[a] = DOMAIN intents[a]
        BY <1>1 DEF MarkRequired, IInv, Shape
      <3>. QED
          BY <1>1, <3>1, <3>2, <3>3, Ending
             DEF IInv, Shape, OpenIsPending, BoundIsCommitted, Acting, Open
    <2>2. CASE ~route.required
      <3>1. route.intent \in Actions BY <1>1, <2>2 DEF IInv, BoundIsCommitted
      <3>. QED BY <1>1, <3>1, Ending, MarkedKeeps
    <2>. QED BY <2>1, <2>2
  <1>2. CASE UNCHANGED store
    <2>1. op'.pc \in Acting => op'.action \in Actions /\ op'.pc \notin Open
      BY <1>0, Ending DEF Preflight, IInv, Shape, Acting, Open
    <2>2. DOMAIN op' = DOMAIN op BY Ending DEF Preflight, IInv, Shape
    <2>. QED BY <1>2, <2>1, <2>2, Elsewhere DEF Preflight, store, ghosts, Acting, Open
  <1>. QED BY <1>1, <1>2 DEF Preflight, StoreFails, MarkCurrentRequired

LEMMA CandidateKeeps == ASSUME IInv, Candidate PROVE IInv'
  <1>0. op.action \in Actions BY DEF IInv, OpenIsPending, Candidate, Acting
  <1>1. DOMAIN op' = DOMAIN op /\ (op'.pc \in Acting => op'.action = op.action /\ op'.pc \notin Open)
    BY Going, Ending DEF Candidate, IInv, Shape, Open, Goto
  <1>. QED BY <1>0, <1>1, Elsewhere DEF Candidate, store, ghosts, Acting

LEMMA InsertIntentKeeps == ASSUME IInv, InsertIntent PROVE IInv'
  <1>0. op.action \in Actions BY DEF IInv, OpenIsPending, InsertIntent, Acting
  <1>1. CASE UNCHANGED intents /\ End
    BY <1>1, Ending, Elsewhere DEF InsertIntent, ghosts, Acting
  <1>2. CASE intents' # intents \/ ~End
    <2>1. /\ intents[op.action].state \in {"none", "rolledBack"} /\ Goto("apply")
          /\ \E row : intents' = [intents EXCEPT ![op.action] =
               [state |-> "pending", before |-> op.before, desired |-> op.desired, row |-> row]]
      BY <1>2 DEF InsertIntent
    <2>2. Shape' BY <2>1, Going DEF IInv, Shape, InsertIntent
    <2>3. OpenIsPending' BY <1>0, <2>1, Going DEF IInv, Shape, OpenIsPending
    <2>4. BoundIsCommitted'
        BY <2>1
           DEF IInv, Shape, BoundIsCommitted, Managed, Target, Bound, InsertIntent,
               ghosts
    <2>. QED BY <2>2, <2>3, <2>4 DEF IInv
  <1>. QED BY <1>1, <1>2

LEMMA FileStepsKeep ==
  ASSUME IInv, Apply \/ Verify \/ Restore \/ Reconcile
  PROVE  IInv'
  <1>1. UNCHANGED <<route, intents, original>>
      BY DEF Apply, Verify, Restore, Reconcile, store, ghosts
  <1>2. op.pc \in Open BY DEF Apply, Verify, Restore, Reconcile, Open
  <1>3. PICK step \in {"verify", "commit", "restore", "settle", "require", "settleStartup", "requireStartup"} :
          Goto(step)
    BY DEF Apply, Verify, Restore, Reconcile
  <1>4. op'.pc \in Open /\ op'.action = op.action /\ DOMAIN op' = DOMAIN op
      BY <1>3, Going DEF Open
  <1>. QED BY <1>1, <1>2, <1>4, Elsewhere DEF IInv, OpenIsPending, Acting

(* The commit is the one step that binds another payload: it hands on the   *)
(* one of the route it replaces, or binds the first.                        *)
LEMMA CommitKeeps == ASSUME IInv, Commit PROVE IInv'
  <1>0. op.action \in Actions /\ op.pc \in Open /\ intents[op.action].state = "pending"
    BY DEF IInv, OpenIsPending, Commit, Acting, Open
  <1>1. CASE UNCHANGED <<route, intents, original>> /\ (Goto("require") \/ Goto("restore"))
    <2>1. op'.pc \in Open /\ op'.action = op.action /\ DOMAIN op' = DOMAIN op
      BY <1>1, Going DEF Open
    <2>. QED BY <1>0, <1>1, <2>1, Elsewhere
  <1>2. CASE /\ ~route.required
             /\ route' = [route EXCEPT !.desired = op.desired, !.intent = op.action,
                                       !.revision = @ + 1]
             /\ intents' = [intents EXCEPT ![op.action].state = "committed",
                                           ![op.action].before = CommittedBefore]
             /\ original' = (IF Managed THEN original ELSE op.before.owned)
             /\ Goto("handoff")
    <2>1. Shape' BY <1>0, <1>2, Going DEF IInv, Shape
    <2>2. OpenIsPending' BY <1>0, <1>2, Going DEF IInv, OpenIsPending, Open
    <2>3. Target = "codex" => CommittedBefore.owned = original'
      BY <1>2 DEF CommittedBefore, IInv, BoundIsCommitted
    <2>4. route'.intent = op.action /\ Target' = Target BY <1>2 DEF IInv, Shape, Target
    <2>5. intents'[op.action].state = "committed" /\ intents'[op.action].before = CommittedBefore
      BY <1>0, <1>2 DEF IInv, Shape
    <2>. QED BY <1>0, <2>1, <2>2, <2>3, <2>4, <2>5 DEF IInv, BoundIsCommitted, Bound
  <1>. QED BY <1>1, <1>2 DEF Commit

LEMMA HandoffKeeps == ASSUME IInv, Handoff PROVE IInv'
  <1>0. op.action \in Actions BY DEF IInv, OpenIsPending, Handoff, Acting
  <1>1. DOMAIN op' = DOMAIN op /\ (op'.pc \in Acting => op'.action = op.action /\ op'.pc \notin Open)
    BY Ending DEF Handoff, IInv, Shape, Open
  <1>. QED BY <1>0, <1>1, Elsewhere DEF Handoff, store, ghosts, Acting

(* The four steps that store an outcome, or fail to.                        *)
LEMMA OutcomesKeep ==
  ASSUME IInv, HandoffFailed \/ Settle \/ Require \/ SettleStartup \/ RequireStartup
  PROVE  IInv'
  <1>0. op.action \in Actions
    BY DEF IInv, OpenIsPending, HandoffFailed, Settle, Require, SettleStartup,
           RequireStartup, Acting, Open
  <1>1. UNCHANGED original
    BY DEF HandoffFailed, Settle, Require, SettleStartup, RequireStartup, ghosts
  <1>2. CASE /\ UNCHANGED <<route, intents>> /\ DOMAIN op' = DOMAIN op
             /\ op'.pc \in Acting => op'.pc = "require" /\ op'.action = op.action /\ op.pc = "settle"
    BY <1>0, <1>1, <1>2, Elsewhere DEF IInv, OpenIsPending, Acting, Open
  <1>3. CASE MarkRequired(op.action) /\ DOMAIN op' = DOMAIN op /\ op'.pc \notin Acting
    BY <1>0, <1>3, MarkedKeeps
  <1>4. CASE /\ op.pc \in Open /\ UNCHANGED route /\ DOMAIN op' = DOMAIN op /\ op'.pc \notin Acting
             /\ intents' = [intents EXCEPT ![op.action].state = "rolledBack"]
    BY <1>1, <1>4, Settled
  <1>5. [Idle EXCEPT !.pc = "bootstrap"].pc \notin Acting /\ [Idle EXCEPT !.pc = "startup"].pc \notin Acting
        /\ DOMAIN [Idle EXCEPT !.pc = "bootstrap"] = DOMAIN op
        /\ DOMAIN [Idle EXCEPT !.pc = "startup"] = DOMAIN op
    BY DEF Idle, Acting, Open, IInv, Shape
  <1>6. CASE HandoffFailed \/ Require
    BY <1>2, <1>3, <1>6, Ending DEF HandoffFailed, Require, StoreFails, store
  <1>7. CASE Settle
    <2>1. CASE intents' = [intents EXCEPT ![op.action].state = "rolledBack"] /\ End /\ UNCHANGED route
      BY <1>4, <1>7, <2>1, Ending DEF Settle, Open
    <2>2. CASE UNCHANGED store /\ Goto("require")
      BY <1>2, <1>7, <2>2, Going DEF Settle, store
    <2>. QED BY <1>7, <2>1, <2>2 DEF Settle, StoreFails
  <1>8. CASE SettleStartup
      BY <1>2, <1>4, <1>5, <1>8 DEF SettleStartup, StartupFault, Open
  <1>9. CASE RequireStartup BY <1>2, <1>3, <1>5, <1>9 DEF RequireStartup, StartupFault
  <1>. QED BY <1>6, <1>7, <1>8, <1>9

LEMMA StartKeeps == ASSUME IInv, Start \/ NextPending \/ Bootstrap PROVE IInv'
  <1>1. CASE Start
    BY <1>1, Going, Elsewhere DEF Start, store, ghosts, Acting, Open
  <1>2. CASE NextPending
    <2>1. UNCHANGED <<route, intents, original>> BY <1>2 DEF NextPending, ghosts
    <2>2. CASE Goto("bootstrap") BY <2>1, <2>2, Going, Elsewhere DEF Acting, Open
    <2>3. CASE \E a \in Pending :
                 op' = [op EXCEPT !.pc = "reconcile", !.action = a,
                        !.before = intents[a].before, !.desired = intents[a].desired]
      <3>1. PICK a \in Pending :
              op' = [op EXCEPT !.pc = "reconcile", !.action = a,
                     !.before = intents[a].before, !.desired = intents[a].desired]
        BY <2>3
      <3>2. op'.action = a /\ DOMAIN op' = DOMAIN op BY <3>1 DEF IInv, Shape
      <3>3. a \in Actions /\ intents[a].state = "pending" BY <3>1 DEF Pending
      <3>. QED BY <2>1, <3>2, <3>3, Elsewhere
    <2>. QED BY <1>2, <2>2, <2>3 DEF NextPending
  <1>3. CASE Bootstrap
    <2>1. CASE MarkRequired(route.intent) /\ Resumable /\ file.owned = route.desired /\ End
      <3>1. route.intent \in Actions
        <4>1. Managed BY <2>1 DEF Resumable, Managed, Unmanaged, Operator
        <4>. QED BY <2>1, <4>1 DEF Resumable, Blocked, IInv, BoundIsCommitted
      <3>. QED BY <2>1, <3>1, Ending, MarkedKeeps
    <2>2. CASE End /\ UNCHANGED <<intents, original>> /\ route' = [route EXCEPT !.drift = TRUE]
      BY <2>2, Ending
         DEF IInv, Shape, OpenIsPending, BoundIsCommitted, Managed, Target, Bound,
             Acting, Open
    <2>3. CASE End /\ UNCHANGED <<intents, original, route>>
      BY <2>3, Ending, Elsewhere DEF Acting
    <2>. QED
        BY <1>3, <2>1, <2>2, <2>3
           DEF Bootstrap, store, ghosts, MarkCurrentRequired, MarkDrift
  <1>. QED BY <1>1, <1>2, <1>3

LEMMA EnvironmentKeeps == ASSUME IInv, Environment PROVE IInv'
  <1>1. CASE Crash
    <2>1. op'.pc \notin Acting /\ DOMAIN op' = DOMAIN op
      BY <1>1 DEF Crash, Idle, Acting, Open, IInv, Shape
    <2>. QED BY <1>1, <2>1, Elsewhere DEF Crash, store, ghosts, Acting
  <1>2. CASE EditOwned \/ EditUnrelated \/ ModelDies
    BY <1>2, Elsewhere
       DEF EditOwned, EditUnrelated, ModelDies, store, ghosts, IInv, OpenIsPending
  <1>3. CASE Foreign
    BY <1>3
       DEF Foreign, ghosts, IInv, Shape, OpenIsPending, BoundIsCommitted, Managed,
           Target, Bound
  <1>. QED BY <1>1, <1>2, <1>3 DEF Environment

LEMMA NextKeeps == ASSUME IInv, [Next]_vars PROVE IInv'
  <1>1. CASE \E a \in Actions : Request(a) BY <1>1, RequestKeeps
  <1>2. CASE Activating
    BY <1>2, PreflightKeeps, CandidateKeeps, InsertIntentKeeps, FileStepsKeep,
       CommitKeeps, HandoffKeeps, OutcomesKeep
       DEF Activating
  <1>3. CASE Starting BY <1>3, StartKeeps, FileStepsKeep, OutcomesKeep DEF Starting
  <1>4. CASE Environment BY <1>4, EnvironmentKeeps
  <1>5. CASE UNCHANGED vars
    BY <1>5
       DEF vars, IInv, Shape, OpenIsPending, BoundIsCommitted, Managed, Target, Bound
  <1>. QED BY <1>1, <1>2, <1>3, <1>4, <1>5 DEF Next

(* What Restore would put back for Codex is what the operator had: the      *)
(* payload bound to the route keeps it for as long as the Target is managed *)
(* and needs no recovery.                                                   *)
THEOREM OriginalStaysBound == Spec => []CodexOriginalIsBound
  <1>1. Init => IInv BY Initially
  <1>2. IInv /\ [Next]_vars => IInv' BY NextKeeps
  <1>3. IInv => CodexOriginalIsBound
    BY DEF IInv, BoundIsCommitted, CodexOriginalIsBound, OriginalIsBound
  <1>. QED BY <1>1, <1>2, <1>3, PTL DEF Spec

-----------------------------------------------------------------------------
(* What the variables hold.                                                 *)
Modes == {"direct", "takeover"}

FileTyped == file \in Files
RouteTyped ==
  /\ route.target \in Targets /\ route.desired \in Owned
  /\ route.intent \in Actions \cup {NoAction}
  /\ route.required \in BOOLEAN /\ route.drift \in BOOLEAN
IntentsTyped ==
  \A a \in Actions :
    /\ intents[a].state \in {"none", "pending", "committed", "rolledBack", "required"}
    /\ intents[a].before \in Files /\ intents[a].desired \in Owned
ReceiptsTyped == receipts \subseteq {a \in Actions : intents[a].state \in {"committed", "required"}}
OpTyped ==
  /\ op.pc \in Steps /\ op.action \in Actions \cup {NoAction}
  /\ op.before \in Files /\ op.desired \in Owned
  /\ op.candidate \in BOOLEAN
  /\ op.candidate => op.pc \in {"intent", "apply", "verify", "commit", "handoff", "restore",
                                "settle", "require"}
RestTyped ==
  /\ problem \in BOOLEAN /\ touched \in BOOLEAN /\ original \in Owned
  /\ model \in {"none", "running", "dead"}
  /\ counts \in [attempts : 0 .. MaxAttempts, edits : 0 .. MaxEdits, crashes : Nat,
                 faults : Nat, unsettled : Nat, foreign : Nat]
Typed == FileTyped /\ RouteTyped /\ IntentsTyped /\ ReceiptsTyped /\ OpTyped /\ RestTyped

(* An activation holds the gate of a Target that is not blocked.            *)
Gated == {"preflight", "candidate", "intent", "apply", "verify", "commit", "handoff",
          "handoffFailed", "restore", "settle", "require"}
GateIsOpen == op.pc \in Gated => ~Blocked

(* The mode tells a value of Muxvia's from the operator's.                  *)
TouchIsKnown == touched => file.owned.mode = "none"
CommitIsKnown == Managed => route.desired.mode \in Modes
IntentIsKnown ==
  \A a \in Actions : intents[a].state = "pending" => intents[a].desired.mode \in Modes
OpIsKnown ==
  /\ op.pc \in Acting => op.desired.mode \in Modes
  /\ op.pc \in {"preflight", "candidate"} => op.desired.mode = op.action.mode
  /\ op.pc = "handoff" => route.desired = op.desired
Known == TouchIsKnown /\ CommitIsKnown /\ IntentIsKnown /\ OpIsKnown

IsCommitted(owned) == IF Managed THEN owned = route.desired ELSE owned.mode = "none"

(* Without an intent that a failed write left behind, one at most is        *)
(* pending, the one that holds the gate or that the next start will settle; *)
(* and none once writes are blocked.                                        *)
Pends(a) == intents[a].state = "pending"
OnePending ==
  /\ \A a, b \in Actions : Pends(a) /\ Pends(b) => a = b
  /\ \A a \in Actions : Pends(a) => op.pc \in Open \cup {"down", "startup"} /\ ~Blocked
  /\ op.pc \in Open => /\ intents[op.action].before = op.before
                       /\ intents[op.action].desired = op.desired

(* What it would put back is what is committed.                             *)
BeforesAreCommitted ==
  ~Blocked =>
    /\ \A a \in Actions : Pends(a) => IsCommitted(intents[a].before.owned)
    /\ op.pc \in {"candidate", "intent"} => IsCommitted(op.before.owned)

(* The file holds what is committed or edited, but between the write of a   *)
(* pending intent and its settling.                                         *)
Away == {"verify", "commit", "restore", "require", "reconcile", "requireStartup", "down", "startup"}
FileIsKnown ==
  ~Blocked =>
    \/ touched \/ IsCommitted(file.owned)
    \/ op.pc \in Away /\ \E a \in Actions : Pends(a) /\ file.owned = intents[a].desired

(* A commit has verified the file: what it holds is what was applied, or    *)
(* edited since.                                                            *)
Verified == op.pc = "commit" => touched \/ file.owned = op.desired

(* Once writes are blocked an intent that needs recovery accounts for what  *)
(* the file holds, and nothing of Muxvia's is written any more.             *)
BlockedIsJournalled == Blocked => WritesAreJournalled

(* All of it as long as no intent was left pending by a store write that    *)
(* failed: such an intent is undone at the next start, over what may have   *)
(* been committed after it.                                                 *)
Journal ==
  counts.unsettled = 0 =>
    OnePending /\ BeforesAreCommitted /\ FileIsKnown /\ Verified /\ BlockedIsJournalled

(* A committed takeover has a model route, and one that is about to commit  *)
(* has the candidate or the route that runs already.                        *)
Unserved == {"handoff", "handoffFailed", "require", "down", "startup", "reconcile", "settleStartup",
             "requireStartup", "bootstrap"}
Served ==
  counts.faults = 0 /\ ~Blocked =>
    /\ ~problem /\ route.desired.mode = "takeover" /\ op.pc \notin Unserved => model # "none"
    /\ /\ op.pc \in {"intent", "apply", "verify", "commit", "handoff"}
       /\ op.desired.mode = "takeover" /\ ~op.candidate
       => model # "none"

(* Values of Muxvia's and of the operator's tell themselves apart.          *)
LEMMA OwnedValues ==
  /\ \A o \in Owned : o.mode \in Modes \cup {"none"} /\ (o.mode = "none" <=> o \in OperatorValues)
  /\ \A a \in Actions, key \in 0 .. MaxAttempts :
       Configured(a, key) \in Owned /\ Configured(a, key).mode = a.mode
  /\ \A n \in 0 .. MaxEdits : Operator(n) \in Owned /\ Operator(n).mode = "none"
  /\ \A o \in Owned : o.mode = "takeover" => o.key \in 0 .. MaxAttempts
  /\ Unmanaged \in Owned /\ Unmanaged.mode = "none" /\ Blank \in Files
  BY ActionsAreActivations, BoundsAreNumbers
     DEF Owned, OperatorValues, Operator, Configured, Modes, Unmanaged, Blank, Files

LEMMA FileValues ==
  ASSUME NEW f \in Files
  PROVE  /\ f.owned \in Owned /\ f.unrelated \in 0 .. MaxEdits
         /\ \A o \in Owned : /\ [f EXCEPT !.owned = o] \in Files
                             /\ [f EXCEPT !.owned = o].owned = o
                             /\ [f EXCEPT !.owned = o].unrelated = f.unrelated
         /\ \A n \in 0 .. MaxEdits : /\ [f EXCEPT !.unrelated = n] \in Files
                                     /\ [f EXCEPT !.unrelated = n].owned = f.owned
         /\ \A g \in Files : f.owned = g.owned /\ f.unrelated = g.unrelated => f = g
  BY DEF Files

LEMMA NoActionIsNone == NoAction \notin Actions
  BY ActionsAreActivations DEF NoAction

(* What the actions do, a field at a time.                                  *)
(* What a step leaves of the operation, the route and the intents.          *)
KeepsOp ==
  /\ op'.action = op.action /\ op'.before = op.before
  /\ op'.desired = op.desired /\ op'.candidate = op.candidate
EndsAt(step) ==
  /\ op'.pc = step /\ op'.action = NoAction /\ op'.before = Blank
  /\ op'.desired = Unmanaged /\ op'.candidate = FALSE
SameRoute ==
  /\ route'.target = route.target /\ route'.desired = route.desired
  /\ route'.intent = route.intent /\ route'.required = route.required
  /\ route'.drift = route.drift
Marked(a) ==
  /\ route'.target = route.target /\ route'.desired = route.desired
  /\ route'.intent = a /\ route'.required = TRUE /\ route'.drift = route.drift
  /\ intents'[a].state = "required" /\ intents'[a].before = intents[a].before
  /\ intents'[a].desired = intents[a].desired
  /\ \A b \in Actions \ {a} : intents'[b] = intents[b]
RolledBack(a) ==
  /\ intents'[a].state = "rolledBack" /\ intents'[a].before = intents[a].before
  /\ intents'[a].desired = intents[a].desired
  /\ \A b \in Actions \ {a} : intents'[b] = intents[b]

LEMMA Goes ==
  ASSUME IInv, NEW step, Goto(step)
  PROVE  op'.pc = step /\ KeepsOp
  BY DEF IInv, Shape, Goto, KeepsOp

LEMMA Ends == ASSUME End PROVE EndsAt("idle")
  BY DEF End, Idle, EndsAt

LEMMA EndsElsewhere ==
  ASSUME NEW step, op' = [Idle EXCEPT !.pc = step]
  PROVE  EndsAt(step)
  BY DEF Idle, EndsAt

LEMMA Marks ==
  ASSUME IInv, NEW a \in Actions, MarkRequired(a)
  PROVE  Marked(a)
  BY DEF IInv, Shape, MarkRequired, Marked

LEMMA RollsBack ==
  ASSUME IInv, NEW a \in Actions, intents' = [intents EXCEPT ![a].state = "rolledBack"]
  PROVE  RolledBack(a)
  BY DEF IInv, Shape, RolledBack

LEMMA Faults ==
  ASSUME RestTyped, StoreFault
  PROVE  /\ counts'.faults = counts.faults + 1
         /\ counts' \in [attempts : 0 .. MaxAttempts, edits : 0 .. MaxEdits, crashes : Nat,
                 faults : Nat, unsettled : Nat, foreign : Nat]
         /\ counts'.unsettled = IF LeavesPending THEN counts.unsettled + 1 ELSE counts.unsettled
  <1> DEFINE u == IF LeavesPending THEN 1 ELSE 0
  <1>1. u \in Nat OBVIOUS
  <1>2. counts' = [counts EXCEPT !.faults = @ + 1, !.unsettled = @ + u]
      BY DEF StoreFault
  <1>3. u = IF LeavesPending THEN 1 ELSE 0 OBVIOUS
  <1> HIDE DEF u
  <1>4. /\ counts'.faults = counts.faults + 1 /\ counts'.unsettled = counts.unsettled + u
        /\ counts'.attempts = counts.attempts /\ counts'.edits = counts.edits
        /\ counts'.crashes = counts.crashes /\ counts'.foreign = counts.foreign
        /\ counts' = [attempts |-> counts'.attempts, edits |-> counts'.edits, crashes |-> counts'.crashes,
                      faults |-> counts'.faults, unsettled |-> counts'.unsettled, foreign |-> counts'.foreign]
    BY <1>1, <1>2 DEF RestTyped
  <1>5. counts' \in [attempts : 0 .. MaxAttempts, edits : 0 .. MaxEdits, crashes : Nat,
                 faults : Nat, unsettled : Nat, foreign : Nat]
    BY <1>1, <1>4 DEF RestTyped
  <1>. QED BY <1>1, <1>3, <1>4, <1>5 DEF RestTyped

(* Counting an attempt, an edit, a crash or a change past the gate.         *)
LEMMA Counts ==
  ASSUME RestTyped, NEW kind, Count(kind),
         \/ kind = "attempts" /\ counts.attempts < MaxAttempts
         \/ kind = "edits" /\ counts.edits < MaxEdits
         \/ kind \in {"crashes", "foreign"}
  PROVE  /\ counts' \in [attempts : 0 .. MaxAttempts, edits : 0 .. MaxEdits, crashes : Nat,
                         faults : Nat, unsettled : Nat, foreign : Nat]
         /\ counts'.faults = counts.faults /\ counts'.unsettled = counts.unsettled
  BY BoundsAreNumbers DEF RestTyped, Count

(* The inductive invariant of the two theorems at the end.                  *)
JInv == IInv /\ Typed /\ GateIsOpen /\ Known /\ Journal /\ Served

(* An action that holds the gate or is reconciled.                          *)
LEMMA ActingIsAction == ASSUME JInv, op.pc \in Acting PROVE op.action \in Actions
  BY DEF JInv, IInv, OpenIsPending

LEMMA OpenIsOpen ==
  ASSUME JInv, op.pc \in Open
  PROVE  op.action \in Actions /\ intents[op.action].state = "pending"
  BY DEF JInv, IInv, OpenIsPending, Acting

(* The actions, one by one: where each goes from where, and what it writes. *)
LEMMA PreflightDoes ==
  ASSUME JInv, Preflight
  PROVE  /\ op.pc = "preflight" /\ UNCHANGED <<file, model, touched, original>>
         /\ \/ /\ op'.pc = (IF op.action.mode = "takeover" THEN "candidate" ELSE "intent")
               /\ op'.action = op.action /\ op'.desired = op.desired /\ op'.before = file
               /\ op'.candidate = op.candidate
               /\ Managed => file.owned = route.desired
               /\ ~Managed /\ Target = "codex" => file.owned.mode = "none"
               /\ UNCHANGED <<route, intents, receipts, problem, counts>>
            \/ /\ EndsAt("idle") /\ Managed /\ route.intent \in Actions /\ Marked(route.intent)
               /\ UNCHANGED <<receipts, problem, counts>>
            \/ /\ EndsAt("idle") /\ UNCHANGED <<route, intents, receipts, problem>>
               /\ StoreFault \/ UNCHANGED counts
  <1>1. op.pc = "preflight" /\ UNCHANGED <<file, model, touched, original>>
      BY DEF Preflight, ghosts
  <1>2. CASE /\ IF Managed THEN AsCommitted ELSE Target = "codex" => file.owned.mode = "none"
             /\ op' = [op EXCEPT !.before = file,
                                 !.pc = IF op.action.mode = "takeover" THEN "candidate" ELSE "intent"]
             /\ UNCHANGED <<store, counts>>
    <2> DEFINE step == IF op.action.mode = "takeover" THEN "candidate" ELSE "intent"
    <2>1. op' = [op EXCEPT !.before = file, !.pc = step] BY <1>2
    <2>2. step = IF op.action.mode = "takeover" THEN "candidate" ELSE "intent" OBVIOUS
    <2> HIDE DEF step
    <2>3. /\ op'.pc = step /\ op'.action = op.action /\ op'.desired = op.desired
          /\ op'.before = file /\ op'.candidate = op.candidate
      BY <2>1 DEF JInv, IInv, Shape
    <2>. QED BY <1>1, <1>2, <2>2, <2>3 DEF AsCommitted, store
  <1>3. CASE /\ Target = "claude" /\ Managed /\ ~AsCommitted /\ End
             /\ \/ MarkCurrentRequired /\ UNCHANGED <<receipts, problem, counts>>
                \/ StoreFails
    <2>1. route.intent \in Actions
      BY <1>1, <1>3 DEF JInv, IInv, BoundIsCommitted, GateIsOpen, Gated, Blocked
    <2>. QED
        BY <1>1, <1>3, <2>1, Ends, Marks
           DEF MarkCurrentRequired, StoreFails, store, JInv
  <1>4. CASE End /\ UNCHANGED <<store, counts>>
    BY <1>1, <1>4, Ends DEF store
  <1>. QED BY <1>2, <1>3, <1>4 DEF Preflight

LEMMA CandidateDoes ==
  ASSUME JInv, Candidate
  PROVE  /\ op.pc = "candidate"
         /\ UNCHANGED <<file, route, intents, receipts, problem, model, touched, original, counts>>
         /\ \/ /\ op'.pc = "intent" /\ op'.action = op.action /\ op'.before = op.before
               /\ op'.desired = op.desired
               /\ \/ model = "running" /\ op'.candidate = op.candidate
                  \/ model = "none" /\ op'.candidate = TRUE
            \/ EndsAt("idle")
  <1>1. CASE model = "none" /\ op' = [op EXCEPT !.pc = "intent", !.candidate = TRUE]
    <2>1. /\ op'.pc = "intent" /\ op'.action = op.action /\ op'.before = op.before
          /\ op'.desired = op.desired /\ op'.candidate = TRUE
      BY <1>1 DEF JInv, IInv, Shape
    <2>. QED BY <1>1, <2>1 DEF Candidate, store, ghosts
  <1>2. CASE model = "running" /\ Goto("intent")
    <2>1. op'.pc = "intent" /\ KeepsOp BY <1>2, Goes DEF JInv
    <2>. QED BY <1>2, <2>1 DEF Candidate, store, ghosts, KeepsOp
  <1>3. CASE End
    BY <1>3, Ends DEF Candidate, store, ghosts
  <1>. QED BY <1>1, <1>2, <1>3 DEF Candidate

LEMMA InsertIntentDoes ==
  ASSUME JInv, InsertIntent
  PROVE  /\ op.pc = "intent"
         /\ UNCHANGED <<file, route, receipts, problem, model, touched, original, counts>>
         /\ \/ /\ intents[op.action].state \in {"none", "rolledBack"}
               /\ intents'[op.action].state = "pending" /\ intents'[op.action].before = op.before
               /\ intents'[op.action].desired = op.desired
               /\ \A b \in Actions \ {op.action} : intents'[b] = intents[b]
               /\ op'.pc = "apply" /\ KeepsOp
            \/ EndsAt("idle") /\ UNCHANGED intents
  <1>1. op.pc = "intent" /\ UNCHANGED <<file, route, receipts, problem, model, touched, original, counts>>
    BY DEF InsertIntent, ghosts
  <1>2. CASE End /\ UNCHANGED intents BY <1>1, <1>2, Ends
  <1>3. CASE ~End \/ intents' # intents
    <2>1. /\ intents[op.action].state \in {"none", "rolledBack"} /\ Goto("apply")
          /\ \E row : intents' = [intents EXCEPT ![op.action] =
               [state |-> "pending", before |-> op.before, desired |-> op.desired, row |-> row]]
      BY <1>3 DEF InsertIntent
    <2>2. op.action \in Actions BY <1>1, ActingIsAction DEF Acting
    <2>3. op'.pc = "apply" /\ KeepsOp BY <2>1, Goes DEF JInv
    <2>4. /\ intents'[op.action].state = "pending" /\ intents'[op.action].before = op.before
          /\ intents'[op.action].desired = op.desired
          /\ \A b \in Actions \ {op.action} : intents'[b] = intents[b]
      BY <2>1, <2>2 DEF JInv, IInv, Shape
    <2>. QED BY <1>1, <2>1, <2>3, <2>4
  <1>. QED BY <1>2, <1>3

LEMMA CommitDoes ==
  ASSUME JInv, Commit
  PROVE  /\ op.pc = "commit" /\ UNCHANGED <<file, problem, model, touched, counts>>
         /\ KeepsOp
         /\ \/ /\ route'.target = route.target /\ route'.desired = op.desired
               /\ route'.intent = op.action /\ route'.required = route.required
               /\ route'.drift = route.drift
               /\ intents'[op.action].state = "committed" /\ intents'[op.action].before = CommittedBefore
               /\ intents'[op.action].desired = intents[op.action].desired
               /\ \A b \in Actions \ {op.action} : intents'[b] = intents[b]
               /\ receipts' = receipts \cup {op.action}
               /\ original' \in {original, op.before.owned}
               /\ op'.pc = "handoff"
            \/ /\ op'.pc \in {"require", "restore"}
               /\ UNCHANGED <<route, intents, receipts, original>>
  <1>1. op.pc = "commit" /\ UNCHANGED <<file, problem, model, touched, counts>>
      BY DEF Commit
  <1>2. CASE /\ route' = [route EXCEPT !.desired = op.desired, !.intent = op.action,
                                       !.revision = @ + 1]
             /\ intents' = [intents EXCEPT ![op.action].state = "committed",
                                           ![op.action].before = CommittedBefore]
             /\ receipts' = receipts \cup {op.action}
             /\ original' = (IF Managed THEN original ELSE op.before.owned)
             /\ Goto("handoff")
    <2>1. op.action \in Actions BY <1>1, ActingIsAction DEF Acting, Open
    <2>2. /\ route'.target = route.target /\ route'.desired = op.desired
          /\ route'.intent = op.action /\ route'.required = route.required
          /\ route'.drift = route.drift
      BY <1>2 DEF JInv, IInv, Shape
    <2>3. /\ intents'[op.action].state = "committed" /\ intents'[op.action].before = CommittedBefore
          /\ intents'[op.action].desired = intents[op.action].desired
          /\ \A b \in Actions \ {op.action} : intents'[b] = intents[b]
      BY <1>2, <2>1 DEF JInv, IInv, Shape
    <2>. QED BY <1>1, <1>2, <2>2, <2>3, Goes DEF JInv
  <1>3. CASE /\ Goto(IF op.action \notin receipts /\ route.required THEN "require" ELSE "restore")
             /\ UNCHANGED <<route, intents, receipts, original>>
    BY <1>1, <1>3, Goes DEF JInv
  <1>. QED BY <1>2, <1>3 DEF Commit

LEMMA HandoffDoes ==
  ASSUME JInv, Handoff
  PROVE  /\ op.pc = "handoff"
         /\ UNCHANGED <<file, route, intents, receipts, problem, touched, original, counts>>
         /\ \/ EndsAt("idle") /\ model' = (IF op.candidate THEN "running" ELSE model)
            \/ /\ op'.pc = "handoffFailed" /\ op'.action = op.action /\ op'.before = op.before
               /\ op'.desired = op.desired /\ op'.candidate = FALSE /\ model' = "none"
  <1>1. CASE op' = [op EXCEPT !.pc = "handoffFailed", !.candidate = FALSE]
    <2>1. /\ op'.pc = "handoffFailed" /\ op'.action = op.action /\ op'.before = op.before
          /\ op'.desired = op.desired /\ op'.candidate = FALSE
      BY <1>1 DEF JInv, IInv, Shape
    <2>. QED BY <2>1, Ends DEF Handoff, store, ghosts
  <1>. QED BY <1>1, Ends DEF Handoff, store, ghosts

LEMMA NextPendingDoes ==
  ASSUME JInv, NextPending
  PROVE  /\ op.pc = "startup" /\ UNCHANGED <<file, route, intents, receipts, model, touched, original, counts>>
         /\ \/ Pending = {} /\ op'.pc = "bootstrap" /\ KeepsOp /\ problem' = (problem /\ Blocked)
            \/ /\ op'.pc = "reconcile" /\ op'.action \in Pending
               /\ op'.before = intents[op'.action].before /\ op'.desired = intents[op'.action].desired
               /\ op'.candidate = op.candidate /\ problem' = problem
  <1>1. op.pc = "startup" /\ UNCHANGED <<file, route, intents, receipts, model, touched, original, counts>>
    BY DEF NextPending, ghosts
  <1>2. CASE Pending = {} BY <1>1, <1>2, Goes DEF NextPending, ClearProblem, JInv
  <1>3. CASE Pending # {}
    <2>1. PICK a \in Pending :
            op' = [op EXCEPT !.pc = "reconcile", !.action = a,
                             !.before = intents[a].before, !.desired = intents[a].desired]
      BY <1>3 DEF NextPending
    <2>2. /\ op'.pc = "reconcile" /\ op'.action = a /\ op'.before = intents[a].before
          /\ op'.desired = intents[a].desired /\ op'.candidate = op.candidate
      BY <2>1 DEF JInv, IInv, Shape
    <2>. QED BY <1>1, <1>3, <2>2 DEF NextPending
  <1>. QED BY <1>2, <1>3

LEMMA RequestDoes ==
  ASSUME JInv, NEW a \in Actions, Request(a)
  PROVE  /\ op.pc = "idle" /\ ~Blocked
         /\ UNCHANGED <<file, route, intents, receipts, problem, model, touched, original>>
         /\ op'.pc = "preflight" /\ op'.action = a /\ op'.before = Blank /\ op'.candidate = FALSE
         /\ op'.desired \in Owned /\ op'.desired.mode = a.mode
         /\ a.mode = "direct" => route.desired.mode # "takeover"
         /\ Count("attempts") /\ counts.attempts < MaxAttempts
  <1>1. PICK key :
          /\ key = CASE a.mode = "direct" -> 0
                     [] route.desired.mode = "takeover" -> route.desired.key
                     [] OTHER -> counts.attempts + 1
          /\ op' = [Idle EXCEPT !.pc = "preflight", !.action = a, !.desired = Configured(a, key),
                               !.revision = route.revision]
    BY DEF Request
  <1>2. key \in 0 .. MaxAttempts
    <2>1. counts.attempts \in 0 .. MaxAttempts /\ counts.attempts < MaxAttempts
      BY DEF Request, JInv, Typed, RestTyped
    <2>2. route.desired.mode = "takeover" => route.desired.key \in 0 .. MaxAttempts
      BY OwnedValues DEF JInv, Typed, RouteTyped
    <2>3. MaxAttempts \in Nat BY BoundsAreNumbers
    <2>. QED BY <1>1, <2>1, <2>2, <2>3, ActionsAreActivations
  <1>3. /\ op'.pc = "preflight" /\ op'.action = a /\ op'.desired = Configured(a, key)
        /\ op'.before = Blank /\ op'.candidate = FALSE
    BY <1>1 DEF Idle
  <1>. QED BY <1>2, <1>3, OwnedValues DEF Request, Blocked, store, ghosts

LEMMA ApplyDoes ==
  ASSUME JInv, Apply
  PROVE  /\ op.pc = "apply" /\ KeepsOp
         /\ UNCHANGED <<route, intents, receipts, problem, model, original, counts>>
         /\ \/ /\ file = op.before /\ file'.owned = op.desired /\ file' \in Files
               /\ touched' = FALSE /\ op'.pc \in {"verify", "restore"}
            \/ op'.pc = "restore" /\ UNCHANGED <<file, touched>>
  <1>1. /\ op.pc = "apply" /\ UNCHANGED <<route, intents, receipts, problem, model, original, counts>>
        /\ Goto("verify") \/ Goto("restore")
    BY DEF Apply, store
  <1>2. KeepsOp /\ (Goto("verify") => op'.pc = "verify") /\ (Goto("restore") => op'.pc = "restore")
    BY <1>1, Goes DEF JInv
  <1>3. [file EXCEPT !.owned = op.desired].owned = op.desired /\ [file EXCEPT !.owned = op.desired] \in Files
    BY FileValues DEF JInv, Typed, FileTyped, OpTyped
  <1>. QED BY <1>1, <1>2, <1>3 DEF Apply

LEMMA VerifyDoes ==
  ASSUME JInv, Verify
  PROVE  /\ op.pc = "verify" /\ KeepsOp
         /\ UNCHANGED <<file, route, intents, receipts, problem, model, touched, original, counts>>
         /\ \/ op'.pc = "restore"
            \/ op'.pc = "commit" /\ file.owned = op.desired
  <1>1. \/ Goto("restore")
        \/ Goto("commit") /\ file.owned = op.desired
    <2>1. CASE file = [owned |-> op.desired, unrelated |-> op.before.unrelated]
      <3>1. file.owned = op.desired BY <2>1
      <3>. QED BY <2>1, <3>1 DEF Verify
    <2>2. CASE file # [owned |-> op.desired, unrelated |-> op.before.unrelated]
      BY <2>2 DEF Verify
    <2>. QED BY <2>1, <2>2
  <1>. QED BY <1>1, Goes DEF Verify, store, ghosts, JInv

LEMMA RestoreDoes ==
  ASSUME JInv, Restore
  PROVE  /\ op.pc = "restore" /\ KeepsOp
         /\ UNCHANGED <<route, intents, receipts, problem, model, original, counts>>
         /\ \/ file = op.before /\ op'.pc = "settle" /\ UNCHANGED <<file, touched>>
            \/ /\ file # op.before /\ file.owned = op.desired /\ file' \in Files
               /\ file'.owned = op.before.owned /\ touched' = FALSE /\ op'.pc \in {"settle", "require"}
            \/ op'.pc = "require" /\ UNCHANGED <<file, touched>>
  <1>1. /\ op.pc = "restore" /\ UNCHANGED <<route, intents, receipts, problem, model, original, counts>>
        /\ Goto("settle") \/ Goto("require")
    BY DEF Restore, store
  <1>2. KeepsOp /\ (Goto("settle") => op'.pc = "settle") /\ (Goto("require") => op'.pc = "require")
    BY <1>1, Goes DEF JInv
  <1>3. /\ [file EXCEPT !.owned = op.before.owned].owned = op.before.owned
        /\ [file EXCEPT !.owned = op.before.owned] \in Files
    BY FileValues DEF JInv, Typed, FileTyped, OpTyped
  <1>. QED BY <1>1, <1>2, <1>3 DEF Restore

LEMMA ReconcileDoes ==
  ASSUME JInv, Reconcile
  PROVE  /\ op.pc = "reconcile" /\ KeepsOp
         /\ UNCHANGED <<route, intents, receipts, problem, model, original, counts>>
         /\ \/ file = op.before /\ op'.pc = "settleStartup" /\ UNCHANGED <<file, touched>>
            \/ /\ file # op.before /\ file.owned = op.desired
               /\ file' = op.before /\ touched' = FALSE /\ op'.pc \in {"settleStartup", "requireStartup"}
            \/ op'.pc = "requireStartup" /\ UNCHANGED <<file, touched>>
  <1>1. /\ op.pc = "reconcile" /\ UNCHANGED <<route, intents, receipts, problem, model, original, counts>>
        /\ Goto("settleStartup") \/ Goto("requireStartup")
    BY DEF Reconcile, store
  <1>2. /\ KeepsOp /\ (Goto("settleStartup") => op'.pc = "settleStartup")
        /\ Goto("requireStartup") => op'.pc = "requireStartup"
    BY <1>1, Goes DEF JInv
  <1>. QED BY <1>1, <1>2 DEF Reconcile

LEMMA HandoffFailedDoes ==
  ASSUME JInv, HandoffFailed
  PROVE  /\ op.pc = "handoffFailed" /\ EndsAt("idle") /\ UNCHANGED <<file, model, touched, original>>
         /\ receipts' = receipts /\ problem' = problem
         /\ \/ Marked(op.action) /\ UNCHANGED counts
            \/ UNCHANGED <<route, intents>> /\ StoreFault
  <1>1. op.action \in Actions BY ActingIsAction DEF HandoffFailed, Acting
  <1>. QED BY <1>1, Ends, Marks DEF HandoffFailed, StoreFails, store, ghosts, JInv

LEMMA SettleDoes ==
  ASSUME JInv, Settle
  PROVE  /\ op.pc = "settle" /\ UNCHANGED <<file, route, receipts, problem, model, touched, original>>
         /\ \/ RolledBack(op.action) /\ EndsAt("idle") /\ UNCHANGED counts
            \/ op'.pc = "require" /\ KeepsOp /\ UNCHANGED intents /\ StoreFault
  <1>1. op.action \in Actions BY ActingIsAction DEF Settle, Acting, Open
  <1>. QED BY <1>1, Ends, Goes, RollsBack DEF Settle, StoreFails, store, ghosts, JInv

LEMMA RequireDoes ==
  ASSUME JInv, Require
  PROVE  /\ op.pc = "require" /\ EndsAt("idle") /\ UNCHANGED <<file, touched, original>>
         /\ receipts' = receipts /\ problem' = problem /\ model' = "none"
         /\ \/ Marked(op.action) /\ UNCHANGED counts
            \/ UNCHANGED <<route, intents>> /\ StoreFault
  <1>1. op.action \in Actions BY ActingIsAction DEF Require, Acting, Open
  <1>. QED BY <1>1, Ends, Marks DEF Require, StoreFails, store, ghosts, JInv

LEMMA SettleStartupDoes ==
  ASSUME JInv, SettleStartup
  PROVE  /\ op.pc = "settleStartup"
         /\ UNCHANGED <<file, route, receipts, model, touched, original>>
         /\ \/ RolledBack(op.action) /\ EndsAt("startup") /\ UNCHANGED <<problem, counts>>
            \/ EndsAt("bootstrap") /\ UNCHANGED intents /\ StoreFault /\ problem' \in {problem, TRUE}
  <1>1. op.action \in Actions BY ActingIsAction DEF SettleStartup, Acting, Open
  <1>. QED
      BY <1>1, EndsElsewhere, RollsBack
         DEF SettleStartup, StartupFault, RecordProblem, ghosts, JInv

LEMMA RequireStartupDoes ==
  ASSUME JInv, RequireStartup
  PROVE  /\ op.pc = "requireStartup" /\ EndsAt("bootstrap")
         /\ UNCHANGED <<file, receipts, model, touched, original>>
         /\ \/ Marked(op.action) /\ UNCHANGED <<problem, counts>>
            \/ UNCHANGED <<route, intents>> /\ StoreFault /\ problem' \in {problem, TRUE}
  <1>1. op.action \in Actions BY ActingIsAction DEF RequireStartup, Acting, Open
  <1>. QED
      BY <1>1, EndsElsewhere, Marks
         DEF RequireStartup, StartupFault, RecordProblem, ghosts, JInv

LEMMA BootstrapDoes ==
  ASSUME JInv, Bootstrap
  PROVE  /\ op.pc = "bootstrap" /\ EndsAt("idle")
         /\ UNCHANGED <<file, receipts, touched, original, counts>>
         /\ \/ ~Resumable /\ UNCHANGED <<route, intents, problem, model>>
            \/ Resumable /\ model' = "running" /\ UNCHANGED <<route, intents, problem>>
            \/ Resumable /\ problem' = TRUE /\ UNCHANGED <<route, intents, model>>
            \/ /\ Resumable /\ UNCHANGED <<intents, problem, model>>
               /\ route'.target = route.target /\ route'.desired = route.desired
               /\ route'.intent = route.intent /\ route'.required = route.required
               /\ route'.drift = TRUE
            \/ /\ Resumable /\ route.intent \in Actions /\ Marked(route.intent)
               /\ UNCHANGED <<problem, model>>
  <1>1. op.pc = "bootstrap" /\ EndsAt("idle") /\ UNCHANGED <<file, receipts, touched, original, counts>>
    BY Ends DEF Bootstrap, store, ghosts
  <1>2. Resumable => Managed
    BY DEF Resumable, Managed, Unmanaged, Operator
  <1>3. CASE MarkCurrentRequired /\ Resumable /\ UNCHANGED <<problem, model>>
    <2>1. route.intent \in Actions
      BY <1>2, <1>3 DEF JInv, IInv, BoundIsCommitted, Resumable, Blocked
    <2>. QED BY <1>1, <1>3, <2>1, Marks DEF MarkCurrentRequired, JInv
  <1>4. CASE MarkDrift /\ Resumable /\ UNCHANGED <<intents, problem, model>>
    BY <1>1, <1>4 DEF MarkDrift, JInv, IInv, Shape
  <1>5. CASE ~Resumable /\ UNCHANGED <<route, intents, problem, model>>
    BY <1>1, <1>5
  <1>6. CASE /\ Resumable /\ UNCHANGED <<route, intents>>
             /\ \/ model' = "running" /\ UNCHANGED problem
                \/ RecordProblem /\ UNCHANGED model
    BY <1>1, <1>6 DEF RecordProblem
  <1>. QED BY <1>3, <1>4, <1>5, <1>6 DEF Bootstrap, store

LEMMA StartDoes ==
  ASSUME JInv, Start
  PROVE  /\ op.pc = "down" /\ op'.pc = "startup" /\ KeepsOp
         /\ UNCHANGED <<file, route, intents, receipts, problem, model, touched, original, counts>>
  BY Goes DEF Start, store, ghosts, JInv

LEMMA CrashDoes ==
  ASSUME JInv, Crash
  PROVE  /\ EndsAt("down") /\ model' = "none" /\ Count("crashes")
         /\ UNCHANGED <<file, route, intents, receipts, problem, touched, original>>
  BY EndsElsewhere DEF Crash, store, ghosts

(* The file after an edit by the operator.                                  *)
LEMMA EditsDo ==
  ASSUME JInv, EditOwned \/ EditUnrelated
  PROVE  /\ counts.edits < MaxEdits /\ Count("edits") /\ file' \in Files
         /\ UNCHANGED <<route, intents, receipts, problem, model, op, original>>
         /\ \/ file'.owned.mode = "none" /\ touched' = TRUE
            \/ file'.owned = file.owned /\ touched' = touched
  <1>1. counts.edits + 1 \in 0 .. MaxEdits /\ file \in Files /\ counts.edits < MaxEdits
    BY BoundsAreNumbers DEF JInv, Typed, RestTyped, FileTyped, EditOwned, EditUnrelated
  <1>2. CASE EditOwned
    <2>1. Operator(counts.edits + 1) \in Owned /\ Operator(counts.edits + 1).mode = "none"
      BY <1>1, OwnedValues
    <2>2. file' = [file EXCEPT !.owned = Operator(counts.edits + 1)]
        BY <1>2 DEF EditOwned
    <2>3. file' \in Files /\ file'.owned = Operator(counts.edits + 1)
      BY <1>1, <2>1, <2>2, FileValues
    <2>. QED BY <1>1, <1>2, <2>1, <2>3 DEF EditOwned, store
  <1>3. CASE EditUnrelated
    <2>1. file' = [file EXCEPT !.unrelated = counts.edits + 1] BY <1>3 DEF EditUnrelated
    <2>2. file' \in Files /\ file'.owned = file.owned BY <1>1, <2>1, FileValues
    <2>. QED BY <1>1, <1>3, <2>2 DEF EditUnrelated, store, ghosts
  <1>. QED BY <1>2, <1>3

LEMMA ForeignDoes ==
  ASSUME JInv, Foreign
  PROVE  /\ SameRoute /\ Count("foreign")
         /\ UNCHANGED <<file, intents, receipts, problem, model, op, touched, original>>
  BY DEF Foreign, SameRoute, ghosts, JInv, IInv, Shape

(* Every step keeps every part of the invariant, the types first.           *)
LEMMA FileTypedHolds == ASSUME JInv, [Next]_vars PROVE FileTyped'
  <1>1. CASE UNCHANGED file BY <1>1 DEF JInv, Typed, FileTyped
  <1>2. ASSUME NEW a \in Actions, Request(a) PROVE UNCHANGED file
    BY <1>2, RequestDoes
  <1>3. CASE Preflight \/ Candidate \/ InsertIntent \/ Verify \/ Commit \/ Handoff \/
           HandoffFailed \/ Settle \/ Require \/ Start \/ NextPending \/ SettleStartup \/
           RequireStartup \/ Bootstrap \/ Crash \/ ModelDies \/ Foreign \/ UNCHANGED vars
    BY <1>1, <1>3, PreflightDoes, CandidateDoes, InsertIntentDoes, VerifyDoes,
       CommitDoes, HandoffDoes, HandoffFailedDoes, SettleDoes, RequireDoes, StartDoes,
       NextPendingDoes, SettleStartupDoes, RequireStartupDoes, BootstrapDoes, CrashDoes,
       ForeignDoes
       DEF ModelDies, vars, store, ghosts
  <1>4. CASE Apply
    BY <1>4, ApplyDoes DEF JInv, Typed, FileTyped, OpTyped
  <1>5. CASE Restore
    BY <1>5, RestoreDoes DEF JInv, Typed, FileTyped, OpTyped
  <1>6. CASE Reconcile
    BY <1>6, ReconcileDoes DEF JInv, Typed, FileTyped, OpTyped
  <1>7. CASE EditOwned \/ EditUnrelated
    BY <1>7, EditsDo DEF JInv, Typed, FileTyped, OpTyped
  <1>. QED
      BY <1>1, <1>2, <1>3, <1>4, <1>5, <1>6, <1>7
         DEF Next, Activating, Starting, Environment

LEMMA RouteTypedHolds == ASSUME JInv, [Next]_vars PROVE RouteTyped'
  <1>1. CASE UNCHANGED route BY <1>1 DEF JInv, Typed, RouteTyped
  <1>2. ASSUME NEW a \in Actions, Request(a) PROVE UNCHANGED route
    BY <1>2, RequestDoes
  <1>3. CASE Candidate \/ InsertIntent \/ Apply \/ Verify \/ Handoff \/ Restore \/ Settle \/
           Start \/ NextPending \/ Reconcile \/ SettleStartup \/ Crash \/ EditOwned \/
           EditUnrelated \/ ModelDies \/ UNCHANGED vars
    BY <1>1, <1>3, CandidateDoes, InsertIntentDoes, ApplyDoes, VerifyDoes, HandoffDoes,
       RestoreDoes, SettleDoes, StartDoes, NextPendingDoes, ReconcileDoes,
       SettleStartupDoes, CrashDoes, EditsDo
       DEF ModelDies, vars, store, ghosts
  <1>4. CASE Preflight
    BY <1>4, PreflightDoes, ActingIsAction
       DEF JInv, Typed, RouteTyped, OpTyped, Marked, Acting, Open
  <1>5. CASE Commit
    BY <1>5, CommitDoes, ActingIsAction
       DEF JInv, Typed, RouteTyped, OpTyped, Acting, Open
  <1>6. CASE HandoffFailed
    BY <1>6, HandoffFailedDoes, ActingIsAction
       DEF JInv, Typed, RouteTyped, OpTyped, Marked, Acting, Open
  <1>7. CASE Require
    BY <1>7, RequireDoes, ActingIsAction
       DEF JInv, Typed, RouteTyped, OpTyped, Marked, Acting, Open
  <1>8. CASE RequireStartup
    BY <1>8, RequireStartupDoes, ActingIsAction
       DEF JInv, Typed, RouteTyped, OpTyped, Marked, Acting, Open
  <1>9. CASE Bootstrap
    BY <1>9, BootstrapDoes, ActingIsAction
       DEF JInv, Typed, RouteTyped, OpTyped, Marked, Acting, Open
  <1>10. CASE Foreign
    BY <1>10, ForeignDoes, ActingIsAction
       DEF JInv, Typed, RouteTyped, OpTyped, SameRoute, Acting, Open
  <1>. QED
      BY <1>1, <1>2, <1>3, <1>4, <1>5, <1>6, <1>7, <1>8, <1>9, <1>10
         DEF Next, Activating, Starting, Environment

LEMMA IntentsTypedHolds == ASSUME JInv, [Next]_vars PROVE IntentsTyped'
  <1>1. CASE UNCHANGED intents BY <1>1 DEF JInv, Typed, IntentsTyped
  <1>2. ASSUME NEW a \in Actions, Request(a) PROVE UNCHANGED intents
    BY <1>2, RequestDoes
  <1>3. CASE Candidate \/ Apply \/ Verify \/ Handoff \/ Restore \/ Start \/ NextPending \/
           Reconcile \/ Crash \/ EditOwned \/ EditUnrelated \/ ModelDies \/ Foreign \/ UNCHANGED
           vars
    BY <1>1, <1>3, CandidateDoes, ApplyDoes, VerifyDoes, HandoffDoes, RestoreDoes,
       StartDoes, NextPendingDoes, ReconcileDoes, CrashDoes, EditsDo, ForeignDoes
       DEF ModelDies, vars, store, ghosts
  <1>4. CASE Preflight
    BY <1>4, PreflightDoes, ActingIsAction
       DEF JInv, Typed, IntentsTyped, OpTyped, Marked, Acting, Open, Bound, Managed,
           IInv, BoundIsCommitted, GateIsOpen, Gated, Blocked
  <1>5. CASE InsertIntent
    BY <1>5, InsertIntentDoes, ActingIsAction
       DEF JInv, Typed, IntentsTyped, OpTyped, Acting, Open, Bound, Managed, IInv,
           BoundIsCommitted, GateIsOpen, Gated, Blocked
  <1>6. CASE Commit
    BY <1>6, CommitDoes, ActingIsAction
       DEF JInv, Typed, IntentsTyped, OpTyped, CommittedBefore, Acting, Open, Bound,
           Managed, IInv, BoundIsCommitted, GateIsOpen, Gated, Blocked
  <1>7. CASE HandoffFailed
    BY <1>7, HandoffFailedDoes, ActingIsAction
       DEF JInv, Typed, IntentsTyped, OpTyped, Marked, Acting, Open, Bound, Managed,
           IInv, BoundIsCommitted, GateIsOpen, Gated, Blocked
  <1>8. CASE Settle
    BY <1>8, SettleDoes, ActingIsAction
       DEF JInv, Typed, IntentsTyped, OpTyped, RolledBack, Acting, Open, Bound, Managed,
           IInv, BoundIsCommitted, GateIsOpen, Gated, Blocked
  <1>9. CASE Require
    BY <1>9, RequireDoes, ActingIsAction
       DEF JInv, Typed, IntentsTyped, OpTyped, Marked, Acting, Open, Bound, Managed,
           IInv, BoundIsCommitted, GateIsOpen, Gated, Blocked
  <1>10. CASE SettleStartup
    BY <1>10, SettleStartupDoes, ActingIsAction
       DEF JInv, Typed, IntentsTyped, OpTyped, RolledBack, Acting, Open, Bound, Managed,
           IInv, BoundIsCommitted, GateIsOpen, Gated, Blocked
  <1>11. CASE RequireStartup
    BY <1>11, RequireStartupDoes, ActingIsAction
       DEF JInv, Typed, IntentsTyped, OpTyped, Marked, Acting, Open, Bound, Managed,
           IInv, BoundIsCommitted, GateIsOpen, Gated, Blocked
  <1>12. CASE Bootstrap
    BY <1>12, BootstrapDoes, ActingIsAction
       DEF JInv, Typed, IntentsTyped, OpTyped, Marked, Acting, Open, Bound, Managed,
           IInv, BoundIsCommitted, GateIsOpen, Gated, Blocked
  <1>. QED
      BY <1>1, <1>2, <1>3, <1>4, <1>5, <1>6, <1>7, <1>8, <1>9, <1>10, <1>11, <1>12
         DEF Next, Activating, Starting, Environment

LEMMA ReceiptsTypedHolds == ASSUME JInv, [Next]_vars PROVE ReceiptsTyped'
  <1>1. CASE UNCHANGED <<intents, receipts>> BY <1>1 DEF JInv, Typed, ReceiptsTyped
  <1>2. ASSUME NEW a \in Actions, Request(a) PROVE UNCHANGED <<intents, receipts>>
    BY <1>2, RequestDoes
  <1>3. CASE Candidate \/ Apply \/ Verify \/ Handoff \/ Restore \/ Start \/ NextPending \/
           Reconcile \/ Crash \/ EditOwned \/ EditUnrelated \/ ModelDies \/ Foreign \/ UNCHANGED
           vars
    BY <1>1, <1>3, CandidateDoes, ApplyDoes, VerifyDoes, HandoffDoes, RestoreDoes,
       StartDoes, NextPendingDoes, ReconcileDoes, CrashDoes, EditsDo, ForeignDoes
       DEF ModelDies, vars, store, ghosts
  <1>4. CASE Preflight
    BY <1>4, PreflightDoes, OpenIsOpen, ActingIsAction
       DEF JInv, Typed, IntentsTyped, ReceiptsTyped, Marked, Open, Acting
  <1>5. CASE InsertIntent
    BY <1>5, InsertIntentDoes, OpenIsOpen, ActingIsAction
       DEF JInv, Typed, IntentsTyped, ReceiptsTyped, Open, Acting
  <1>6. CASE Commit
    BY <1>6, CommitDoes, OpenIsOpen, ActingIsAction
       DEF JInv, Typed, IntentsTyped, ReceiptsTyped, Open, Acting
  <1>7. CASE HandoffFailed
    BY <1>7, HandoffFailedDoes, OpenIsOpen, ActingIsAction
       DEF JInv, Typed, IntentsTyped, ReceiptsTyped, Marked, Open, Acting
  <1>8. CASE Settle
    BY <1>8, SettleDoes, OpenIsOpen, ActingIsAction
       DEF JInv, Typed, IntentsTyped, ReceiptsTyped, RolledBack, Open, Acting
  <1>9. CASE Require
    BY <1>9, RequireDoes, OpenIsOpen, ActingIsAction
       DEF JInv, Typed, IntentsTyped, ReceiptsTyped, Marked, Open, Acting
  <1>10. CASE SettleStartup
    BY <1>10, SettleStartupDoes, OpenIsOpen, ActingIsAction
       DEF JInv, Typed, IntentsTyped, ReceiptsTyped, RolledBack, Open, Acting
  <1>11. CASE RequireStartup
    BY <1>11, RequireStartupDoes, OpenIsOpen, ActingIsAction
       DEF JInv, Typed, IntentsTyped, ReceiptsTyped, Marked, Open, Acting
  <1>12. CASE Bootstrap
    BY <1>12, BootstrapDoes, OpenIsOpen, ActingIsAction
       DEF JInv, Typed, IntentsTyped, ReceiptsTyped, Marked, Open, Acting
  <1>. QED
      BY <1>1, <1>2, <1>3, <1>4, <1>5, <1>6, <1>7, <1>8, <1>9, <1>10, <1>11, <1>12
         DEF Next, Activating, Starting, Environment

LEMMA OpTypedHolds == ASSUME JInv, [Next]_vars PROVE OpTyped'
  <1>1. ASSUME NEW a \in Actions, Request(a) PROVE OpTyped'
    BY <1>1, RequestDoes, OwnedValues, NoActionIsNone
       DEF JInv, Typed, FileTyped, IntentsTyped, OpTyped, Steps
  <1>2. CASE Preflight
    BY <1>2, PreflightDoes, OwnedValues, NoActionIsNone
       DEF JInv, Typed, FileTyped, IntentsTyped, OpTyped, Steps, EndsAt
  <1>3. CASE Candidate
    BY <1>3, CandidateDoes, OwnedValues, NoActionIsNone
       DEF JInv, Typed, FileTyped, IntentsTyped, OpTyped, Steps, EndsAt
  <1>4. CASE InsertIntent
    BY <1>4, InsertIntentDoes, OwnedValues, NoActionIsNone
       DEF JInv, Typed, FileTyped, IntentsTyped, OpTyped, Steps, KeepsOp, EndsAt
  <1>5. CASE Apply
    BY <1>5, ApplyDoes, OwnedValues, NoActionIsNone
       DEF JInv, Typed, FileTyped, IntentsTyped, OpTyped, Steps, KeepsOp
  <1>6. CASE Verify
    BY <1>6, VerifyDoes, OwnedValues, NoActionIsNone
       DEF JInv, Typed, FileTyped, IntentsTyped, OpTyped, Steps, KeepsOp
  <1>7. CASE Commit
    BY <1>7, CommitDoes, OwnedValues, NoActionIsNone
       DEF JInv, Typed, FileTyped, IntentsTyped, OpTyped, Steps, KeepsOp
  <1>8. CASE Handoff
    BY <1>8, HandoffDoes, OwnedValues, NoActionIsNone
       DEF JInv, Typed, FileTyped, IntentsTyped, OpTyped, Steps, EndsAt
  <1>9. CASE HandoffFailed
    BY <1>9, HandoffFailedDoes, OwnedValues, NoActionIsNone
       DEF JInv, Typed, FileTyped, IntentsTyped, OpTyped, Steps, EndsAt
  <1>10. CASE Restore
    BY <1>10, RestoreDoes, OwnedValues, NoActionIsNone
       DEF JInv, Typed, FileTyped, IntentsTyped, OpTyped, Steps, KeepsOp
  <1>11. CASE Settle
    BY <1>11, SettleDoes, OwnedValues, NoActionIsNone
       DEF JInv, Typed, FileTyped, IntentsTyped, OpTyped, Steps, KeepsOp, EndsAt
  <1>12. CASE Require
    BY <1>12, RequireDoes, OwnedValues, NoActionIsNone
       DEF JInv, Typed, FileTyped, IntentsTyped, OpTyped, Steps, EndsAt
  <1>13. CASE Start
    BY <1>13, StartDoes, OwnedValues, NoActionIsNone
       DEF JInv, Typed, FileTyped, IntentsTyped, OpTyped, Steps, KeepsOp
  <1>14. CASE NextPending
    BY <1>14, NextPendingDoes, OwnedValues, NoActionIsNone
       DEF JInv, Typed, FileTyped, IntentsTyped, OpTyped, Steps, KeepsOp, Pending
  <1>15. CASE Reconcile
    BY <1>15, ReconcileDoes, OwnedValues, NoActionIsNone
       DEF JInv, Typed, FileTyped, IntentsTyped, OpTyped, Steps, KeepsOp
  <1>16. CASE SettleStartup
    BY <1>16, SettleStartupDoes, OwnedValues, NoActionIsNone
       DEF JInv, Typed, FileTyped, IntentsTyped, OpTyped, Steps, EndsAt
  <1>17. CASE RequireStartup
    BY <1>17, RequireStartupDoes, OwnedValues, NoActionIsNone
       DEF JInv, Typed, FileTyped, IntentsTyped, OpTyped, Steps, EndsAt
  <1>18. CASE Bootstrap
    BY <1>18, BootstrapDoes, OwnedValues, NoActionIsNone
       DEF JInv, Typed, FileTyped, IntentsTyped, OpTyped, Steps, EndsAt
  <1>19. CASE Crash
    BY <1>19, CrashDoes, OwnedValues, NoActionIsNone
       DEF JInv, Typed, FileTyped, IntentsTyped, OpTyped, Steps, EndsAt
  <1>20. CASE EditOwned \/ EditUnrelated
    BY <1>20, EditsDo, OwnedValues, NoActionIsNone
       DEF JInv, Typed, FileTyped, IntentsTyped, OpTyped, Steps
  <1>21. CASE ModelDies
    BY <1>21, OwnedValues, NoActionIsNone
       DEF JInv, Typed, FileTyped, IntentsTyped, OpTyped, Steps, ModelDies, store,
           ghosts
  <1>22. CASE Foreign
    BY <1>22, ForeignDoes, OwnedValues, NoActionIsNone
       DEF JInv, Typed, FileTyped, IntentsTyped, OpTyped, Steps
  <1>23. CASE UNCHANGED vars
      BY <1>23 DEF vars, JInv, Typed, FileTyped, IntentsTyped, OpTyped, Steps
  <1>. QED
      BY <1>1, <1>2, <1>3, <1>4, <1>5, <1>6, <1>7, <1>8, <1>9, <1>10, <1>11, <1>12,
         <1>13, <1>14, <1>15, <1>16, <1>17, <1>18, <1>19, <1>20, <1>21, <1>22, <1>23
         DEF Next, Activating, Starting, Environment

LEMMA RestTypedHolds == ASSUME JInv, [Next]_vars PROVE RestTyped'
  <1>1. ASSUME NEW a \in Actions, Request(a) PROVE RestTyped'
    BY <1>1, RequestDoes, Faults, Counts
       DEF JInv, Typed, RestTyped, OpTyped, FileTyped, Files
  <1>2. CASE Preflight
    BY <1>2, PreflightDoes, Faults, Counts
       DEF JInv, Typed, RestTyped, OpTyped, FileTyped, Files
  <1>3. CASE Candidate
    BY <1>3, CandidateDoes, Faults, Counts
       DEF JInv, Typed, RestTyped, OpTyped, FileTyped, Files
  <1>4. CASE InsertIntent
    BY <1>4, InsertIntentDoes, Faults, Counts
       DEF JInv, Typed, RestTyped, OpTyped, FileTyped, Files
  <1>5. CASE Apply
    BY <1>5, ApplyDoes, Faults, Counts
       DEF JInv, Typed, RestTyped, OpTyped, FileTyped, Files
  <1>6. CASE Verify
    BY <1>6, VerifyDoes, Faults, Counts
       DEF JInv, Typed, RestTyped, OpTyped, FileTyped, Files
  <1>7. CASE Commit
    BY <1>7, CommitDoes, Faults, Counts
       DEF JInv, Typed, RestTyped, OpTyped, FileTyped, Files
  <1>8. CASE Handoff
    BY <1>8, HandoffDoes, Faults, Counts
       DEF JInv, Typed, RestTyped, OpTyped, FileTyped, Files
  <1>9. CASE HandoffFailed
    BY <1>9, HandoffFailedDoes, Faults, Counts
       DEF JInv, Typed, RestTyped, OpTyped, FileTyped, Files
  <1>10. CASE Restore
    BY <1>10, RestoreDoes, Faults, Counts
       DEF JInv, Typed, RestTyped, OpTyped, FileTyped, Files
  <1>11. CASE Settle
    BY <1>11, SettleDoes, Faults, Counts
       DEF JInv, Typed, RestTyped, OpTyped, FileTyped, Files
  <1>12. CASE Require
    BY <1>12, RequireDoes, Faults, Counts
       DEF JInv, Typed, RestTyped, OpTyped, FileTyped, Files
  <1>13. CASE Start
    BY <1>13, StartDoes, Faults, Counts
       DEF JInv, Typed, RestTyped, OpTyped, FileTyped, Files
  <1>14. CASE NextPending
    BY <1>14, NextPendingDoes, Faults, Counts
       DEF JInv, Typed, RestTyped, OpTyped, FileTyped, Files
  <1>15. CASE Reconcile
    BY <1>15, ReconcileDoes, Faults, Counts
       DEF JInv, Typed, RestTyped, OpTyped, FileTyped, Files
  <1>16. CASE SettleStartup
    BY <1>16, SettleStartupDoes, Faults, Counts
       DEF JInv, Typed, RestTyped, OpTyped, FileTyped, Files
  <1>17. CASE RequireStartup
    BY <1>17, RequireStartupDoes, Faults, Counts
       DEF JInv, Typed, RestTyped, OpTyped, FileTyped, Files
  <1>18. CASE Bootstrap
    BY <1>18, BootstrapDoes, Faults, Counts
       DEF JInv, Typed, RestTyped, OpTyped, FileTyped, Files
  <1>19. CASE Crash
    BY <1>19, CrashDoes, Faults, Counts
       DEF JInv, Typed, RestTyped, OpTyped, FileTyped, Files
  <1>20. CASE EditOwned \/ EditUnrelated
    BY <1>20, EditsDo, Faults, Counts
       DEF JInv, Typed, RestTyped, OpTyped, FileTyped, Files
  <1>21. CASE ModelDies
    BY <1>21, Faults, Counts
       DEF JInv, Typed, RestTyped, OpTyped, FileTyped, Files, ModelDies, store, ghosts
  <1>22. CASE Foreign
    BY <1>22, ForeignDoes, Faults, Counts
       DEF JInv, Typed, RestTyped, OpTyped, FileTyped, Files
  <1>23. CASE UNCHANGED vars
      BY <1>23 DEF vars, JInv, Typed, RestTyped, OpTyped, FileTyped, Files
  <1>. QED
      BY <1>1, <1>2, <1>3, <1>4, <1>5, <1>6, <1>7, <1>8, <1>9, <1>10, <1>11, <1>12,
         <1>13, <1>14, <1>15, <1>16, <1>17, <1>18, <1>19, <1>20, <1>21, <1>22, <1>23
         DEF Next, Activating, Starting, Environment

(* An activation starts past the check that its Target is not blocked, and  *)
(* what blocks a Target ends the operation that holds the gate.             *)
LEMMA GateIsOpenHolds == ASSUME JInv, [Next]_vars PROVE GateIsOpen'
  <1>1. ASSUME NEW a \in Actions, Request(a) PROVE GateIsOpen'
    BY <1>1, RequestDoes DEF JInv, GateIsOpen, Gated, Blocked
  <1>2. CASE Preflight
    BY <1>2, PreflightDoes DEF JInv, GateIsOpen, Gated, Blocked, EndsAt
  <1>3. CASE Candidate
    BY <1>3, CandidateDoes DEF JInv, GateIsOpen, Gated, Blocked, EndsAt
  <1>4. CASE InsertIntent
    BY <1>4, InsertIntentDoes DEF JInv, GateIsOpen, Gated, Blocked, KeepsOp, EndsAt
  <1>5. CASE Apply
    BY <1>5, ApplyDoes DEF JInv, GateIsOpen, Gated, Blocked, KeepsOp
  <1>6. CASE Verify
    BY <1>6, VerifyDoes DEF JInv, GateIsOpen, Gated, Blocked, KeepsOp
  <1>7. CASE Commit
    BY <1>7, CommitDoes DEF JInv, GateIsOpen, Gated, Blocked, KeepsOp
  <1>8. CASE Handoff
    BY <1>8, HandoffDoes DEF JInv, GateIsOpen, Gated, Blocked, EndsAt
  <1>9. CASE HandoffFailed
    BY <1>9, HandoffFailedDoes DEF JInv, GateIsOpen, Gated, Blocked, EndsAt
  <1>10. CASE Restore
    BY <1>10, RestoreDoes DEF JInv, GateIsOpen, Gated, Blocked, KeepsOp
  <1>11. CASE Settle
    BY <1>11, SettleDoes DEF JInv, GateIsOpen, Gated, Blocked, KeepsOp, EndsAt
  <1>12. CASE Require
    BY <1>12, RequireDoes DEF JInv, GateIsOpen, Gated, Blocked, EndsAt
  <1>13. CASE Start
    BY <1>13, StartDoes DEF JInv, GateIsOpen, Gated, Blocked, KeepsOp
  <1>14. CASE NextPending
    BY <1>14, NextPendingDoes DEF JInv, GateIsOpen, Gated, Blocked, KeepsOp
  <1>15. CASE Reconcile
    BY <1>15, ReconcileDoes DEF JInv, GateIsOpen, Gated, Blocked, KeepsOp
  <1>16. CASE SettleStartup
    BY <1>16, SettleStartupDoes DEF JInv, GateIsOpen, Gated, Blocked, EndsAt
  <1>17. CASE RequireStartup
    BY <1>17, RequireStartupDoes DEF JInv, GateIsOpen, Gated, Blocked, EndsAt
  <1>18. CASE Bootstrap
    BY <1>18, BootstrapDoes DEF JInv, GateIsOpen, Gated, Blocked, EndsAt
  <1>19. CASE Crash
    BY <1>19, CrashDoes DEF JInv, GateIsOpen, Gated, Blocked, EndsAt
  <1>20. CASE EditOwned \/ EditUnrelated
    BY <1>20, EditsDo DEF JInv, GateIsOpen, Gated, Blocked
  <1>21. CASE ModelDies
    BY <1>21 DEF JInv, GateIsOpen, Gated, Blocked, ModelDies, store, ghosts
  <1>22. CASE Foreign
    BY <1>22, ForeignDoes DEF JInv, GateIsOpen, Gated, Blocked, SameRoute
  <1>23. CASE UNCHANGED vars BY <1>23 DEF vars, JInv, GateIsOpen, Gated, Blocked
  <1>. QED
      BY <1>1, <1>2, <1>3, <1>4, <1>5, <1>6, <1>7, <1>8, <1>9, <1>10, <1>11, <1>12,
         <1>13, <1>14, <1>15, <1>16, <1>17, <1>18, <1>19, <1>20, <1>21, <1>22, <1>23
         DEF Next, Activating, Starting, Environment

(* The modes.                                                               *)
LEMMA TouchIsKnownHolds == ASSUME JInv, [Next]_vars PROVE TouchIsKnown'
  <1>1. CASE UNCHANGED <<file, touched>> BY <1>1 DEF JInv, Known, TouchIsKnown
  <1>2. ASSUME NEW a \in Actions, Request(a) PROVE UNCHANGED <<file, touched>>
    BY <1>2, RequestDoes
  <1>3. CASE Preflight \/ Candidate \/ InsertIntent \/ Verify \/ Commit \/ Handoff \/
           HandoffFailed \/ Settle \/ Require \/ Start \/ NextPending \/ SettleStartup \/
           RequireStartup \/ Bootstrap \/ Crash \/ ModelDies \/ Foreign \/ UNCHANGED vars
    BY <1>1, <1>3, PreflightDoes, CandidateDoes, InsertIntentDoes, VerifyDoes,
       CommitDoes, HandoffDoes, HandoffFailedDoes, SettleDoes, RequireDoes, StartDoes,
       NextPendingDoes, SettleStartupDoes, RequireStartupDoes, BootstrapDoes, CrashDoes,
       ForeignDoes
       DEF ModelDies, vars, store, ghosts
  <1>4. CASE Apply
    BY <1>4, ApplyDoes
       DEF JInv, Typed, RestTyped, Known, TouchIsKnown, OpIsKnown, Modes, Acting, Open
  <1>5. CASE Restore
    BY <1>5, RestoreDoes
       DEF JInv, Typed, RestTyped, Known, TouchIsKnown, OpIsKnown, Modes, Acting, Open
  <1>6. CASE Reconcile
    BY <1>6, ReconcileDoes
       DEF JInv, Typed, RestTyped, Known, TouchIsKnown, OpIsKnown, Modes, Acting, Open
  <1>7. CASE EditOwned \/ EditUnrelated
    BY <1>7, EditsDo
       DEF JInv, Typed, RestTyped, Known, TouchIsKnown, OpIsKnown, Modes, Acting, Open
  <1>. QED
      BY <1>1, <1>2, <1>3, <1>4, <1>5, <1>6, <1>7
         DEF Next, Activating, Starting, Environment

LEMMA CommitIsKnownHolds == ASSUME JInv, [Next]_vars PROVE CommitIsKnown'
  <1>1. CASE UNCHANGED route BY <1>1 DEF JInv, Known, CommitIsKnown, Managed
  <1>2. ASSUME NEW a \in Actions, Request(a) PROVE UNCHANGED route
    BY <1>2, RequestDoes
  <1>3. CASE Candidate \/ InsertIntent \/ Apply \/ Verify \/ Handoff \/ Restore \/ Settle \/
           Start \/ NextPending \/ Reconcile \/ SettleStartup \/ Crash \/ EditOwned \/
           EditUnrelated \/ ModelDies \/ UNCHANGED vars
    BY <1>1, <1>3, CandidateDoes, InsertIntentDoes, ApplyDoes, VerifyDoes, HandoffDoes,
       RestoreDoes, SettleDoes, StartDoes, NextPendingDoes, ReconcileDoes,
       SettleStartupDoes, CrashDoes, EditsDo
       DEF ModelDies, vars, store, ghosts
  <1>4. CASE Preflight
    BY <1>4, PreflightDoes
       DEF JInv, Known, CommitIsKnown, OpIsKnown, Managed, Marked, Acting, Open
  <1>5. CASE Commit
    BY <1>5, CommitDoes DEF JInv, Known, CommitIsKnown, OpIsKnown, Managed, Acting, Open
  <1>6. CASE HandoffFailed
    BY <1>6, HandoffFailedDoes
       DEF JInv, Known, CommitIsKnown, OpIsKnown, Managed, Marked, Acting, Open
  <1>7. CASE Require
    BY <1>7, RequireDoes
       DEF JInv, Known, CommitIsKnown, OpIsKnown, Managed, Marked, Acting, Open
  <1>8. CASE RequireStartup
    BY <1>8, RequireStartupDoes
       DEF JInv, Known, CommitIsKnown, OpIsKnown, Managed, Marked, Acting, Open
  <1>9. CASE Bootstrap
    BY <1>9, BootstrapDoes
       DEF JInv, Known, CommitIsKnown, OpIsKnown, Managed, Marked, Acting, Open
  <1>10. CASE Foreign
    BY <1>10, ForeignDoes
       DEF JInv, Known, CommitIsKnown, OpIsKnown, Managed, SameRoute, Acting, Open
  <1>. QED
      BY <1>1, <1>2, <1>3, <1>4, <1>5, <1>6, <1>7, <1>8, <1>9, <1>10
         DEF Next, Activating, Starting, Environment

LEMMA IntentIsKnownHolds == ASSUME JInv, [Next]_vars PROVE IntentIsKnown'
  <1>1. CASE UNCHANGED intents BY <1>1 DEF JInv, Known, IntentIsKnown
  <1>2. ASSUME NEW a \in Actions, Request(a) PROVE UNCHANGED intents
    BY <1>2, RequestDoes
  <1>3. CASE Candidate \/ Apply \/ Verify \/ Handoff \/ Restore \/ Start \/ NextPending \/
           Reconcile \/ Crash \/ EditOwned \/ EditUnrelated \/ ModelDies \/ Foreign \/ UNCHANGED
           vars
    BY <1>1, <1>3, CandidateDoes, ApplyDoes, VerifyDoes, HandoffDoes, RestoreDoes,
       StartDoes, NextPendingDoes, ReconcileDoes, CrashDoes, EditsDo, ForeignDoes
       DEF ModelDies, vars, store, ghosts
  <1>4. CASE Preflight
    BY <1>4, PreflightDoes, ActingIsAction
       DEF JInv, Known, IntentIsKnown, OpIsKnown, Marked, Acting, Open
  <1>5. CASE InsertIntent
    BY <1>5, InsertIntentDoes, ActingIsAction
       DEF JInv, Known, IntentIsKnown, OpIsKnown, Acting, Open
  <1>6. CASE Commit
    BY <1>6, CommitDoes, ActingIsAction
       DEF JInv, Known, IntentIsKnown, OpIsKnown, Acting, Open
  <1>7. CASE HandoffFailed
    BY <1>7, HandoffFailedDoes, ActingIsAction
       DEF JInv, Known, IntentIsKnown, OpIsKnown, Marked, Acting, Open
  <1>8. CASE Settle
    BY <1>8, SettleDoes, ActingIsAction
       DEF JInv, Known, IntentIsKnown, OpIsKnown, RolledBack, Acting, Open
  <1>9. CASE Require
    BY <1>9, RequireDoes, ActingIsAction
       DEF JInv, Known, IntentIsKnown, OpIsKnown, Marked, Acting, Open
  <1>10. CASE SettleStartup
    BY <1>10, SettleStartupDoes, ActingIsAction
       DEF JInv, Known, IntentIsKnown, OpIsKnown, RolledBack, Acting, Open
  <1>11. CASE RequireStartup
    BY <1>11, RequireStartupDoes, ActingIsAction
       DEF JInv, Known, IntentIsKnown, OpIsKnown, Marked, Acting, Open
  <1>12. CASE Bootstrap
    BY <1>12, BootstrapDoes, ActingIsAction
       DEF JInv, Known, IntentIsKnown, OpIsKnown, Marked, Acting, Open
  <1>. QED
      BY <1>1, <1>2, <1>3, <1>4, <1>5, <1>6, <1>7, <1>8, <1>9, <1>10, <1>11, <1>12
         DEF Next, Activating, Starting, Environment

LEMMA OpIsKnownHolds == ASSUME JInv, [Next]_vars PROVE OpIsKnown'
  <1>1. ASSUME NEW a \in Actions, Request(a) PROVE OpIsKnown'
    BY <1>1, RequestDoes, ActionsAreActivations
       DEF JInv, Known, IntentIsKnown, OpIsKnown, Acting, Open, Modes
  <1>2. CASE Preflight
    BY <1>2, PreflightDoes, ActionsAreActivations
       DEF JInv, Known, IntentIsKnown, OpIsKnown, EndsAt, Acting, Open, Modes
  <1>3. CASE Candidate
    BY <1>3, CandidateDoes, ActionsAreActivations
       DEF JInv, Known, IntentIsKnown, OpIsKnown, EndsAt, Acting, Open, Modes
  <1>4. CASE InsertIntent
    BY <1>4, InsertIntentDoes, ActionsAreActivations
       DEF JInv, Known, IntentIsKnown, OpIsKnown, KeepsOp, EndsAt, Acting, Open, Modes
  <1>5. CASE Apply
    BY <1>5, ApplyDoes, ActionsAreActivations
       DEF JInv, Known, IntentIsKnown, OpIsKnown, KeepsOp, Acting, Open, Modes
  <1>6. CASE Verify
    BY <1>6, VerifyDoes, ActionsAreActivations
       DEF JInv, Known, IntentIsKnown, OpIsKnown, KeepsOp, Acting, Open, Modes
  <1>7. CASE Commit
    BY <1>7, CommitDoes, ActionsAreActivations
       DEF JInv, Known, IntentIsKnown, OpIsKnown, KeepsOp, Acting, Open, Modes
  <1>8. CASE Handoff
    BY <1>8, HandoffDoes, ActionsAreActivations
       DEF JInv, Known, IntentIsKnown, OpIsKnown, EndsAt, Acting, Open, Modes
  <1>9. CASE HandoffFailed
    BY <1>9, HandoffFailedDoes, ActionsAreActivations
       DEF JInv, Known, IntentIsKnown, OpIsKnown, EndsAt, Acting, Open, Modes
  <1>10. CASE Restore
    BY <1>10, RestoreDoes, ActionsAreActivations
       DEF JInv, Known, IntentIsKnown, OpIsKnown, KeepsOp, Acting, Open, Modes
  <1>11. CASE Settle
    BY <1>11, SettleDoes, ActionsAreActivations
       DEF JInv, Known, IntentIsKnown, OpIsKnown, KeepsOp, EndsAt, Acting, Open, Modes
  <1>12. CASE Require
    BY <1>12, RequireDoes, ActionsAreActivations
       DEF JInv, Known, IntentIsKnown, OpIsKnown, EndsAt, Acting, Open, Modes
  <1>13. CASE Start
    BY <1>13, StartDoes, ActionsAreActivations
       DEF JInv, Known, IntentIsKnown, OpIsKnown, KeepsOp, Acting, Open, Modes
  <1>14. CASE NextPending
    BY <1>14, NextPendingDoes, ActionsAreActivations
       DEF JInv, Known, IntentIsKnown, OpIsKnown, KeepsOp, Acting, Open, Pending, Modes
  <1>15. CASE Reconcile
    BY <1>15, ReconcileDoes, ActionsAreActivations
       DEF JInv, Known, IntentIsKnown, OpIsKnown, KeepsOp, Acting, Open, Modes
  <1>16. CASE SettleStartup
    BY <1>16, SettleStartupDoes, ActionsAreActivations
       DEF JInv, Known, IntentIsKnown, OpIsKnown, EndsAt, Acting, Open, Modes
  <1>17. CASE RequireStartup
    BY <1>17, RequireStartupDoes, ActionsAreActivations
       DEF JInv, Known, IntentIsKnown, OpIsKnown, EndsAt, Acting, Open, Modes
  <1>18. CASE Bootstrap
    BY <1>18, BootstrapDoes, ActionsAreActivations
       DEF JInv, Known, IntentIsKnown, OpIsKnown, EndsAt, Acting, Open, Modes
  <1>19. CASE Crash
    BY <1>19, CrashDoes, ActionsAreActivations
       DEF JInv, Known, IntentIsKnown, OpIsKnown, EndsAt, Acting, Open, Modes
  <1>20. CASE EditOwned \/ EditUnrelated
    BY <1>20, EditsDo, ActionsAreActivations
       DEF JInv, Known, IntentIsKnown, OpIsKnown, Acting, Open, Modes
  <1>21. CASE ModelDies
    BY <1>21, ActionsAreActivations
       DEF JInv, Known, IntentIsKnown, OpIsKnown, Acting, Open, Modes, ModelDies, store,
           ghosts
  <1>22. CASE Foreign
    BY <1>22, ForeignDoes, ActionsAreActivations
       DEF JInv, Known, IntentIsKnown, OpIsKnown, SameRoute, Acting, Open, Modes
  <1>23. CASE UNCHANGED vars
      BY <1>23 DEF vars, JInv, Known, IntentIsKnown, OpIsKnown, Acting, Open, Modes
  <1>. QED
      BY <1>1, <1>2, <1>3, <1>4, <1>5, <1>6, <1>7, <1>8, <1>9, <1>10, <1>11, <1>12,
         <1>13, <1>14, <1>15, <1>16, <1>17, <1>18, <1>19, <1>20, <1>21, <1>22, <1>23
         DEF Next, Activating, Starting, Environment

(* What an operation holds, at the steps between its intent and its end: it  *)
(* has the one pending intent, and no other step has any.                   *)
LEMMA InHand ==
  ASSUME JInv, counts.unsettled = 0
  PROVE  /\ op.pc \in Open =>
              /\ op.action \in Actions /\ Pends(op.action) /\ ~Blocked
              /\ \A a \in Actions : Pends(a) => a = op.action
              /\ intents[op.action].before = op.before
              /\ intents[op.action].desired = op.desired
              /\ IsCommitted(op.before.owned)
         /\ op.pc \notin Open \cup {"down", "startup"} => \A a \in Actions : ~Pends(a)
         /\ \A a \in Actions : Pends(a) => op.pc \in Open \cup {"down", "startup"} /\ ~Blocked
         /\ \A a, b \in Actions : Pends(a) /\ Pends(b) => a = b
  <1>1. /\ \A a, b \in Actions : Pends(a) /\ Pends(b) => a = b
        /\ \A a \in Actions : Pends(a) => op.pc \in Open \cup {"down", "startup"} /\ ~Blocked
        /\ op.pc \in Open => /\ intents[op.action].before = op.before
                              /\ intents[op.action].desired = op.desired
    BY DEF JInv, Journal, OnePending
  <1>2. op.pc \in Open => op.action \in Actions /\ Pends(op.action)
      BY OpenIsOpen DEF Pends
  <1>3. op.pc \in Open => IsCommitted(op.before.owned)
    BY <1>1, <1>2 DEF JInv, Journal, BeforesAreCommitted
  <1>. QED BY <1>1, <1>2, <1>3

(* A failed write there is counted.                                          *)
LEMMA NoFault ==
  ASSUME JInv, counts.unsettled = 0, counts'.unsettled = 0, StoreFault
  PROVE  op.pc \notin {"require", "settleStartup", "requireStartup"}
  BY Faults DEF JInv, Typed, RestTyped, LeavesPending

LEMMA Journalled == ASSUME JInv PROVE WritesAreJournalled
  <1>1. CASE Blocked BY <1>1 DEF JInv, Journal, BlockedIsJournalled, WritesAreJournalled
  <1>2. CASE ~Blocked
    <2>1. file.owned \in Owned BY FileValues DEF JInv, Typed, FileTyped
    <2>. QED
        BY <1>2, <2>1, OwnedValues
           DEF JInv, Journal, FileIsKnown, Known, TouchIsKnown, IsCommitted, Pends,
               WritesAreJournalled
  <1>. QED BY <1>1, <1>2

LEMMA MarkedIsJournalled ==
  ASSUME JInv, NEW a \in Actions, Marked(a), file' = file, counts.unsettled = 0
  PROVE  WritesAreJournalled'
  <1>1. WritesAreJournalled BY Journalled
  <1>2. CASE file.owned \in {route.desired} \cup OperatorValues
    BY <1>2 DEF WritesAreJournalled, Marked
  <1>3. CASE \E b \in Actions : /\ intents[b].state \in {"pending", "required"}
                              /\ file.owned \in {intents[b].desired, intents[b].before.owned}
    <2>1. PICK b \in Actions : /\ intents[b].state \in {"pending", "required"}
                              /\ file.owned \in {intents[b].desired, intents[b].before.owned}
      BY <1>3
    <2>2. /\ intents'[b].state \in {"pending", "required"}
          /\ file'.owned \in {intents'[b].desired, intents'[b].before.owned}
      BY <2>1 DEF Marked
    <2>. QED BY <2>2 DEF WritesAreJournalled
  <1>. QED BY <1>1, <1>2, <1>3 DEF WritesAreJournalled

(* A Target is blocked by marking the intent that accounts for its file.    *)
LEMMA BlockedIsJournalledHolds ==
  ASSUME JInv, [Next]_vars, counts'.unsettled = 0, counts.unsettled = 0
  PROVE  BlockedIsJournalled'
  <1>1. ASSUME NEW a \in Actions, Request(a) PROVE BlockedIsJournalled'
    BY <1>1, RequestDoes, InHand, Journalled, OwnedValues
       DEF JInv, BlockedIsJournalled, WritesAreJournalled, GateIsOpen, Gated, Blocked,
           Pends, Open, Typed, FileTyped, Files
  <1>2. CASE Preflight
    BY <1>2, PreflightDoes, MarkedIsJournalled, ActingIsAction, InHand, Journalled,
       OwnedValues
       DEF JInv, BlockedIsJournalled, WritesAreJournalled, GateIsOpen, Gated, Blocked,
           Marked, Pends, Open, Typed, FileTyped, Files, Acting
  <1>3. CASE Candidate
    BY <1>3, CandidateDoes, InHand, Journalled, OwnedValues
       DEF JInv, BlockedIsJournalled, WritesAreJournalled, GateIsOpen, Gated, Blocked,
           Pends, Open, Typed, FileTyped, Files
  <1>4. CASE InsertIntent
    BY <1>4, InsertIntentDoes, InHand, Journalled, OwnedValues
       DEF JInv, BlockedIsJournalled, WritesAreJournalled, GateIsOpen, Gated, Blocked,
           Pends, Open, Typed, FileTyped, Files
  <1>5. CASE Apply
    BY <1>5, ApplyDoes, InHand, Journalled, OwnedValues
       DEF JInv, BlockedIsJournalled, WritesAreJournalled, GateIsOpen, Gated, Blocked,
           Pends, Open, Typed, FileTyped, Files
  <1>6. CASE Verify
    BY <1>6, VerifyDoes, InHand, Journalled, OwnedValues
       DEF JInv, BlockedIsJournalled, WritesAreJournalled, GateIsOpen, Gated, Blocked,
           Pends, Open, Typed, FileTyped, Files
  <1>7. CASE Commit
    BY <1>7, CommitDoes, InHand, Journalled, OwnedValues
       DEF JInv, BlockedIsJournalled, WritesAreJournalled, GateIsOpen, Gated, Blocked,
           Pends, Open, Typed, FileTyped, Files
  <1>8. CASE Handoff
    BY <1>8, HandoffDoes, InHand, Journalled, OwnedValues
       DEF JInv, BlockedIsJournalled, WritesAreJournalled, GateIsOpen, Gated, Blocked,
           Pends, Open, Typed, FileTyped, Files
  <1>9. CASE HandoffFailed
    BY <1>9, HandoffFailedDoes, MarkedIsJournalled, ActingIsAction, InHand, Journalled,
       OwnedValues
       DEF JInv, BlockedIsJournalled, WritesAreJournalled, GateIsOpen, Gated, Blocked,
           Marked, Pends, Open, Typed, FileTyped, Files, Acting
  <1>10. CASE Restore
    BY <1>10, RestoreDoes, InHand, Journalled, OwnedValues
       DEF JInv, BlockedIsJournalled, WritesAreJournalled, GateIsOpen, Gated, Blocked,
           Pends, Open, Typed, FileTyped, Files
  <1>11. CASE Settle
    BY <1>11, SettleDoes, InHand, Journalled, OwnedValues
       DEF JInv, BlockedIsJournalled, WritesAreJournalled, GateIsOpen, Gated, Blocked,
           RolledBack, Pends, Open, Typed, FileTyped, Files
  <1>12. CASE Require
    BY <1>12, RequireDoes, NoFault, MarkedIsJournalled, ActingIsAction, InHand,
       Journalled, OwnedValues
       DEF JInv, BlockedIsJournalled, WritesAreJournalled, GateIsOpen, Gated, Blocked,
           Marked, Pends, Open, Typed, FileTyped, Files, Acting
  <1>13. CASE Start
    BY <1>13, StartDoes, InHand, Journalled, OwnedValues
       DEF JInv, BlockedIsJournalled, WritesAreJournalled, GateIsOpen, Gated, Blocked,
           Pends, Open, Typed, FileTyped, Files
  <1>14. CASE NextPending
    BY <1>14, NextPendingDoes, InHand, Journalled, OwnedValues
       DEF JInv, BlockedIsJournalled, WritesAreJournalled, GateIsOpen, Gated, Blocked,
           Pends, Open, Typed, FileTyped, Files
  <1>15. CASE Reconcile
    BY <1>15, ReconcileDoes, InHand, Journalled, OwnedValues
       DEF JInv, BlockedIsJournalled, WritesAreJournalled, GateIsOpen, Gated, Blocked,
           Pends, Open, Typed, FileTyped, Files
  <1>16. CASE SettleStartup
    BY <1>16, SettleStartupDoes, NoFault, InHand, Journalled, OwnedValues
       DEF JInv, BlockedIsJournalled, WritesAreJournalled, GateIsOpen, Gated, Blocked,
           RolledBack, Pends, Open, Typed, FileTyped, Files
  <1>17. CASE RequireStartup
    BY <1>17, RequireStartupDoes, NoFault, MarkedIsJournalled, ActingIsAction, InHand,
       Journalled, OwnedValues
       DEF JInv, BlockedIsJournalled, WritesAreJournalled, GateIsOpen, Gated, Blocked,
           Marked, Pends, Open, Typed, FileTyped, Files, Acting
  <1>18. CASE Bootstrap
    BY <1>18, BootstrapDoes, MarkedIsJournalled, ActingIsAction, InHand, Journalled,
       OwnedValues
       DEF JInv, BlockedIsJournalled, WritesAreJournalled, GateIsOpen, Gated, Blocked,
           Marked, Pends, Open, Typed, FileTyped, Files, Acting
  <1>19. CASE Crash
    BY <1>19, CrashDoes, InHand, Journalled, OwnedValues
       DEF JInv, BlockedIsJournalled, WritesAreJournalled, GateIsOpen, Gated, Blocked,
           Pends, Open, Typed, FileTyped, Files
  <1>20. CASE EditOwned \/ EditUnrelated
    BY <1>20, EditsDo, InHand, Journalled, OwnedValues
       DEF JInv, BlockedIsJournalled, WritesAreJournalled, GateIsOpen, Gated, Blocked,
           Pends, Open, Typed, FileTyped, Files
  <1>21. CASE ModelDies
    BY <1>21, InHand, Journalled, OwnedValues
       DEF JInv, BlockedIsJournalled, WritesAreJournalled, GateIsOpen, Gated, Blocked,
           Pends, Open, Typed, FileTyped, Files, ModelDies, store, ghosts
  <1>22. CASE Foreign
    BY <1>22, ForeignDoes, InHand, Journalled, OwnedValues
       DEF JInv, BlockedIsJournalled, WritesAreJournalled, GateIsOpen, Gated, Blocked,
           SameRoute, Pends, Open, Typed, FileTyped, Files
  <1>23. CASE UNCHANGED vars
      BY <1>23, InHand, Journalled, OwnedValues
         DEF vars, JInv, BlockedIsJournalled, WritesAreJournalled, GateIsOpen, Gated,
             Blocked, Pends, Open, Typed, FileTyped, Files
  <1>. QED
      BY <1>1, <1>2, <1>3, <1>4, <1>5, <1>6, <1>7, <1>8, <1>9, <1>10, <1>11, <1>12,
         <1>13, <1>14, <1>15, <1>16, <1>17, <1>18, <1>19, <1>20, <1>21, <1>22, <1>23
         DEF Next, Activating, Starting, Environment

(* One activation at a time, and the start settles what the last left.      *)
LEMMA OnePendingHolds ==
  ASSUME JInv, [Next]_vars, counts'.unsettled = 0, counts.unsettled = 0
  PROVE  OnePending'
  <1>1. ASSUME NEW a \in Actions, Request(a) PROVE OnePending'
    BY <1>1, RequestDoes, InHand DEF OnePending, Pends, Blocked, Open
  <1>2. CASE Preflight
    BY <1>2, PreflightDoes, ActingIsAction, InHand
       DEF OnePending, Pends, Blocked, EndsAt, Marked, Open, Acting
  <1>3. CASE Candidate
    BY <1>3, CandidateDoes, InHand DEF OnePending, Pends, Blocked, EndsAt, Open
  <1>4. CASE InsertIntent
    <2>1. op.action \in Actions /\ ~Blocked /\ op.pc = "intent" /\ \A a \in Actions : ~Pends(a)
      BY <1>4, InsertIntentDoes, ActingIsAction, InHand
         DEF JInv, GateIsOpen, Gated, Acting, Open
    <2>2. ~Blocked' BY <1>4, <2>1, InsertIntentDoes DEF Blocked
    <2>3. CASE UNCHANGED intents /\ EndsAt("idle")
      BY <2>1, <2>2, <2>3 DEF OnePending, Pends, EndsAt, Open
    <2>4. CASE ~(UNCHANGED intents /\ EndsAt("idle"))
      BY <1>4, <2>1, <2>2, <2>4, InsertIntentDoes DEF OnePending, Pends, KeepsOp, Open
    <2>. QED BY <2>3, <2>4
  <1>5. CASE Apply
    BY <1>5, ApplyDoes, InHand DEF OnePending, Pends, Blocked, KeepsOp, Open
  <1>6. CASE Verify
    BY <1>6, VerifyDoes, InHand DEF OnePending, Pends, Blocked, KeepsOp, Open
  <1>7. CASE Commit
    BY <1>7, CommitDoes, InHand DEF OnePending, Pends, Blocked, KeepsOp, Open
  <1>8. CASE Handoff
    BY <1>8, HandoffDoes, InHand DEF OnePending, Pends, Blocked, EndsAt, Open
  <1>9. CASE HandoffFailed
    BY <1>9, HandoffFailedDoes, ActingIsAction, InHand
       DEF OnePending, Pends, Blocked, EndsAt, Marked, Open, Acting
  <1>10. CASE Restore
    BY <1>10, RestoreDoes, InHand DEF OnePending, Pends, Blocked, KeepsOp, Open
  <1>11. CASE Settle
    BY <1>11, SettleDoes, InHand
       DEF OnePending, Pends, Blocked, KeepsOp, EndsAt, RolledBack, Open
  <1>12. CASE Require
    <2>1. op.pc = "require" /\ op'.pc = "idle" /\ Marked(op.action)
      BY <1>12, RequireDoes, NoFault DEF EndsAt
    <2>2. \A a \in Actions : Pends(a) => a = op.action BY <2>1, InHand DEF Open
    <2>3. \A a \in Actions : ~Pends(a)' BY <2>1, <2>2 DEF Pends, Marked
    <2>. QED BY <2>1, <2>3 DEF OnePending, Open
  <1>13. CASE Start
    BY <1>13, StartDoes, InHand DEF OnePending, Pends, Blocked, KeepsOp, Open
  <1>14. CASE NextPending
    BY <1>14, NextPendingDoes, InHand
       DEF OnePending, Pends, Pending, Blocked, KeepsOp, Open
  <1>15. CASE Reconcile
    BY <1>15, ReconcileDoes, InHand DEF OnePending, Pends, Blocked, KeepsOp, Open
  <1>16. CASE SettleStartup
    BY <1>16, SettleStartupDoes, NoFault, InHand
       DEF OnePending, Pends, Blocked, EndsAt, RolledBack, Open
  <1>17. CASE RequireStartup
    <2>1. op.pc = "requireStartup" /\ op'.pc = "bootstrap" /\ Marked(op.action)
      BY <1>17, RequireStartupDoes, NoFault DEF EndsAt
    <2>2. \A a \in Actions : Pends(a) => a = op.action BY <2>1, InHand DEF Open
    <2>3. \A a \in Actions : ~Pends(a)' BY <2>1, <2>2 DEF Pends, Marked
    <2>. QED BY <2>1, <2>3 DEF OnePending, Open
  <1>18. CASE Bootstrap
    BY <1>18, BootstrapDoes, InHand
       DEF OnePending, Pends, Blocked, EndsAt, Marked, Open, Resumable
  <1>19. CASE Crash
    BY <1>19, CrashDoes, InHand DEF OnePending, Pends, Blocked, EndsAt, Open
  <1>20. CASE EditOwned \/ EditUnrelated
    BY <1>20, EditsDo, InHand DEF OnePending, Pends, Blocked, Open
  <1>21. CASE ModelDies
    BY <1>21, InHand DEF OnePending, Pends, Blocked, Open, ModelDies, store, ghosts
  <1>22. CASE Foreign
    BY <1>22, ForeignDoes, InHand DEF OnePending, Pends, Blocked, SameRoute, Open
  <1>23. CASE UNCHANGED vars BY <1>23, InHand DEF vars, OnePending, Pends, Blocked, Open
  <1>. QED
      BY <1>1, <1>2, <1>3, <1>4, <1>5, <1>6, <1>7, <1>8, <1>9, <1>10, <1>11, <1>12,
         <1>13, <1>14, <1>15, <1>16, <1>17, <1>18, <1>19, <1>20, <1>21, <1>22, <1>23
         DEF Next, Activating, Starting, Environment

(* A preflight reads the file as committed, and a commit settles the intent *)
(* that was pending.                                                        *)
LEMMA BeforesAreCommittedHolds ==
  ASSUME JInv, [Next]_vars, counts'.unsettled = 0, counts.unsettled = 0
  PROVE  BeforesAreCommitted'
  <1>1. ASSUME NEW a \in Actions, Request(a) PROVE BeforesAreCommitted'
    BY <1>1, RequestDoes, InHand
       DEF JInv, Typed, RestTyped, Journal, BeforesAreCommitted, FileIsKnown, Known,
           TouchIsKnown, IsCommitted, Managed, Pends, Blocked, Open, Away
  <1>2. CASE Preflight
    BY <1>2, PreflightDoes, InHand
       DEF JInv, Typed, RestTyped, Journal, BeforesAreCommitted, FileIsKnown, Known,
           TouchIsKnown, IsCommitted, Managed, Pends, Blocked, EndsAt, Marked, Open,
           Away
  <1>3. CASE Candidate
    BY <1>3, CandidateDoes, InHand
       DEF JInv, Typed, RestTyped, Journal, BeforesAreCommitted, FileIsKnown, Known,
           TouchIsKnown, IsCommitted, Managed, Pends, Blocked, EndsAt, Open, Away
  <1>4. CASE InsertIntent
    <2>1. op.pc = "intent" /\ route' = route BY <1>4, InsertIntentDoes
    <2>2. ASSUME ~Blocked' PROVE BeforesAreCommitted'
      <3>1. ~Blocked BY <2>1, <2>2 DEF Blocked
      <3>2. /\ IsCommitted(op.before.owned)
            /\ \A a \in Actions : Pends(a) => IsCommitted(intents[a].before.owned)
        BY <2>1, <3>1 DEF JInv, Journal, BeforesAreCommitted
      <3>3. ASSUME NEW a \in Actions, Pends(a)' PROVE IsCommitted(intents[a].before.owned)'
        <4>1. intents'[a].before = op.before \/ (Pends(a) /\ intents'[a] = intents[a])
          BY <1>4, <3>3, InsertIntentDoes DEF Pends
        <4>. QED BY <2>1, <3>2, <4>1 DEF IsCommitted, Managed
      <3>4. op'.pc \in {"apply", "idle"} BY <1>4, InsertIntentDoes DEF EndsAt
      <3>. QED BY <3>3, <3>4 DEF BeforesAreCommitted
    <2>. QED BY <2>2 DEF BeforesAreCommitted
  <1>5. CASE Apply
    BY <1>5, ApplyDoes, InHand
       DEF JInv, Typed, RestTyped, Journal, BeforesAreCommitted, FileIsKnown, Known,
           TouchIsKnown, IsCommitted, Managed, Pends, Blocked, KeepsOp, Open, Away
  <1>6. CASE Verify
    BY <1>6, VerifyDoes, InHand
       DEF JInv, Typed, RestTyped, Journal, BeforesAreCommitted, FileIsKnown, Known,
           TouchIsKnown, IsCommitted, Managed, Pends, Blocked, KeepsOp, Open, Away
  <1>7. CASE Commit
    BY <1>7, CommitDoes, InHand
       DEF JInv, Typed, RestTyped, Journal, BeforesAreCommitted, FileIsKnown, Known,
           TouchIsKnown, IsCommitted, Managed, Pends, Blocked, KeepsOp, Open, Away
  <1>8. CASE Handoff
    BY <1>8, HandoffDoes, InHand
       DEF JInv, Typed, RestTyped, Journal, BeforesAreCommitted, FileIsKnown, Known,
           TouchIsKnown, IsCommitted, Managed, Pends, Blocked, EndsAt, Open, Away
  <1>9. CASE HandoffFailed
    BY <1>9, HandoffFailedDoes, InHand
       DEF JInv, Typed, RestTyped, Journal, BeforesAreCommitted, FileIsKnown, Known,
           TouchIsKnown, IsCommitted, Managed, Pends, Blocked, EndsAt, Marked, Open,
           Away
  <1>10. CASE Restore
    BY <1>10, RestoreDoes, InHand
       DEF JInv, Typed, RestTyped, Journal, BeforesAreCommitted, FileIsKnown, Known,
           TouchIsKnown, IsCommitted, Managed, Pends, Blocked, KeepsOp, Open, Away
  <1>11. CASE Settle
    <2>1. op.pc = "settle" /\ route' = route BY <1>11, SettleDoes
    <2>2. ASSUME ~Blocked' PROVE BeforesAreCommitted'
      <3>1. ~Blocked BY <2>1, <2>2 DEF Blocked
      <3>2. \A a \in Actions : Pends(a) => IsCommitted(intents[a].before.owned)
        BY <2>1, <3>1 DEF JInv, Journal, BeforesAreCommitted
      <3>3. ASSUME NEW a \in Actions, Pends(a)' PROVE IsCommitted(intents[a].before.owned)'
        <4>1. Pends(a) /\ intents'[a] = intents[a]
          BY <1>11, <3>3, SettleDoes DEF Pends, RolledBack
        <4>. QED BY <2>1, <3>2, <4>1 DEF IsCommitted, Managed
      <3>4. op'.pc \in {"require", "idle"} BY <1>11, SettleDoes DEF EndsAt
      <3>. QED BY <3>3, <3>4 DEF BeforesAreCommitted
    <2>. QED BY <2>2 DEF BeforesAreCommitted
  <1>12. CASE Require
    BY <1>12, RequireDoes, NoFault, InHand
       DEF JInv, Typed, RestTyped, Journal, BeforesAreCommitted, FileIsKnown, Known,
           TouchIsKnown, IsCommitted, Managed, Pends, Blocked, EndsAt, Marked, Open,
           Away
  <1>13. CASE Start
    BY <1>13, StartDoes, InHand
       DEF JInv, Typed, RestTyped, Journal, BeforesAreCommitted, FileIsKnown, Known,
           TouchIsKnown, IsCommitted, Managed, Pends, Blocked, KeepsOp, Open, Away
  <1>14. CASE NextPending
    BY <1>14, NextPendingDoes, InHand
       DEF JInv, Typed, RestTyped, Journal, BeforesAreCommitted, FileIsKnown, Known,
           TouchIsKnown, IsCommitted, Managed, Pends, Pending, Blocked, KeepsOp, Open,
           Away
  <1>15. CASE Reconcile
    BY <1>15, ReconcileDoes, InHand
       DEF JInv, Typed, RestTyped, Journal, BeforesAreCommitted, FileIsKnown, Known,
           TouchIsKnown, IsCommitted, Managed, Pends, Blocked, KeepsOp, Open, Away
  <1>16. CASE SettleStartup
    <2>1. op.pc = "settleStartup" /\ route' = route BY <1>16, SettleStartupDoes
    <2>2. ASSUME ~Blocked' PROVE BeforesAreCommitted'
      <3>1. ~Blocked BY <2>1, <2>2 DEF Blocked
      <3>2. \A a \in Actions : Pends(a) => IsCommitted(intents[a].before.owned)
        BY <2>1, <3>1 DEF JInv, Journal, BeforesAreCommitted
      <3>3. ASSUME NEW a \in Actions, Pends(a)' PROVE IsCommitted(intents[a].before.owned)'
        <4>1. Pends(a) /\ intents'[a] = intents[a]
          BY <1>16, <3>3, SettleStartupDoes DEF Pends, RolledBack
        <4>. QED BY <2>1, <3>2, <4>1 DEF IsCommitted, Managed
      <3>4. op'.pc \in {"startup", "bootstrap"} BY <1>16, SettleStartupDoes DEF EndsAt
      <3>. QED BY <3>3, <3>4 DEF BeforesAreCommitted
    <2>. QED BY <2>2 DEF BeforesAreCommitted
  <1>17. CASE RequireStartup
    BY <1>17, RequireStartupDoes, NoFault, InHand
       DEF JInv, Typed, RestTyped, Journal, BeforesAreCommitted, FileIsKnown, Known,
           TouchIsKnown, IsCommitted, Managed, Pends, Blocked, EndsAt, Marked, Open,
           Away
  <1>18. CASE Bootstrap
    BY <1>18, BootstrapDoes, InHand
       DEF JInv, Typed, RestTyped, Journal, BeforesAreCommitted, FileIsKnown, Known,
           TouchIsKnown, IsCommitted, Managed, Pends, Blocked, EndsAt, Marked, Open,
           Away
  <1>19. CASE Crash
    BY <1>19, CrashDoes, InHand
       DEF JInv, Typed, RestTyped, Journal, BeforesAreCommitted, FileIsKnown, Known,
           TouchIsKnown, IsCommitted, Managed, Pends, Blocked, EndsAt, Open, Away
  <1>20. CASE EditOwned \/ EditUnrelated
    BY <1>20, EditsDo, InHand
       DEF JInv, Typed, RestTyped, Journal, BeforesAreCommitted, FileIsKnown, Known,
           TouchIsKnown, IsCommitted, Managed, Pends, Blocked, Open, Away
  <1>21. CASE ModelDies
    BY <1>21, InHand
       DEF JInv, Typed, RestTyped, Journal, BeforesAreCommitted, FileIsKnown, Known,
           TouchIsKnown, IsCommitted, Managed, Pends, Blocked, Open, Away, ModelDies,
           store, ghosts
  <1>22. CASE Foreign
    BY <1>22, ForeignDoes, InHand
       DEF JInv, Typed, RestTyped, Journal, BeforesAreCommitted, FileIsKnown, Known,
           TouchIsKnown, IsCommitted, Managed, Pends, Blocked, SameRoute, Open, Away
  <1>23. CASE UNCHANGED vars
      BY <1>23, InHand
         DEF vars, JInv, Typed, RestTyped, Journal, BeforesAreCommitted, FileIsKnown,
             Known, TouchIsKnown, IsCommitted, Managed, Pends, Blocked, Open, Away
  <1>. QED
      BY <1>1, <1>2, <1>3, <1>4, <1>5, <1>6, <1>7, <1>8, <1>9, <1>10, <1>11, <1>12,
         <1>13, <1>14, <1>15, <1>16, <1>17, <1>18, <1>19, <1>20, <1>21, <1>22, <1>23
         DEF Next, Activating, Starting, Environment

(* The file is written between an intent and its settling only.             *)
LEMMA FileIsKnownHolds ==
  ASSUME JInv, [Next]_vars, counts'.unsettled = 0, counts.unsettled = 0
  PROVE  FileIsKnown'
  <1>1. ASSUME NEW a \in Actions, Request(a) PROVE FileIsKnown'
    BY <1>1, RequestDoes, InHand
       DEF JInv, Journal, FileIsKnown, Verified, IsCommitted, Managed, Pends, Blocked,
           Open, Away
  <1>2. CASE Preflight
    BY <1>2, PreflightDoes, InHand
       DEF JInv, Journal, FileIsKnown, Verified, IsCommitted, Managed, Pends, Blocked,
           EndsAt, Marked, Open, Away
  <1>3. CASE Candidate
    BY <1>3, CandidateDoes, InHand
       DEF JInv, Journal, FileIsKnown, Verified, IsCommitted, Managed, Pends, Blocked,
           EndsAt, Open, Away
  <1>4. CASE InsertIntent
    BY <1>4, InsertIntentDoes, InHand
       DEF JInv, Journal, FileIsKnown, Verified, IsCommitted, Managed, Pends, Blocked,
           KeepsOp, EndsAt, Open, Away
  <1>5. CASE Apply
    BY <1>5, ApplyDoes, InHand
       DEF JInv, Journal, FileIsKnown, Verified, IsCommitted, Managed, Pends, Blocked,
           KeepsOp, Open, Away
  <1>6. CASE Verify
    BY <1>6, VerifyDoes, InHand
       DEF JInv, Journal, FileIsKnown, Verified, IsCommitted, Managed, Pends, Blocked,
           KeepsOp, Open, Away
  <1>7. CASE Commit
    BY <1>7, CommitDoes, InHand
       DEF JInv, Journal, FileIsKnown, Verified, IsCommitted, Managed, Pends, Blocked,
           KeepsOp, Open, Away, Known, OpIsKnown, Acting, Unmanaged, Operator, Modes
  <1>8. CASE Handoff
    BY <1>8, HandoffDoes, InHand
       DEF JInv, Journal, FileIsKnown, Verified, IsCommitted, Managed, Pends, Blocked,
           EndsAt, Open, Away
  <1>9. CASE HandoffFailed
    BY <1>9, HandoffFailedDoes, InHand
       DEF JInv, Journal, FileIsKnown, Verified, IsCommitted, Managed, Pends, Blocked,
           EndsAt, Marked, Open, Away
  <1>10. CASE Restore
    BY <1>10, RestoreDoes, InHand
       DEF JInv, Journal, FileIsKnown, Verified, IsCommitted, Managed, Pends, Blocked,
           KeepsOp, Open, Away
  <1>11. CASE Settle
    BY <1>11, SettleDoes, InHand
       DEF JInv, Journal, FileIsKnown, Verified, IsCommitted, Managed, Pends, Blocked,
           KeepsOp, EndsAt, RolledBack, Open, Away
  <1>12. CASE Require
    BY <1>12, RequireDoes, NoFault, InHand
       DEF JInv, Journal, FileIsKnown, Verified, IsCommitted, Managed, Pends, Blocked,
           EndsAt, Marked, Open, Away
  <1>13. CASE Start
    BY <1>13, StartDoes, InHand
       DEF JInv, Journal, FileIsKnown, Verified, IsCommitted, Managed, Pends, Blocked,
           KeepsOp, Open, Away
  <1>14. CASE NextPending
    BY <1>14, NextPendingDoes, InHand
       DEF JInv, Journal, FileIsKnown, Verified, IsCommitted, Managed, Pends, Blocked,
           KeepsOp, Open, Away, Pending
  <1>15. CASE Reconcile
    BY <1>15, ReconcileDoes, InHand
       DEF JInv, Journal, FileIsKnown, Verified, IsCommitted, Managed, Pends, Blocked,
           KeepsOp, Open, Away
  <1>16. CASE SettleStartup
    BY <1>16, SettleStartupDoes, NoFault, InHand
       DEF JInv, Journal, FileIsKnown, Verified, IsCommitted, Managed, Pends, Blocked,
           EndsAt, RolledBack, Open, Away
  <1>17. CASE RequireStartup
    BY <1>17, RequireStartupDoes, NoFault, InHand
       DEF JInv, Journal, FileIsKnown, Verified, IsCommitted, Managed, Pends, Blocked,
           EndsAt, Marked, Open, Away
  <1>18. CASE Bootstrap
    BY <1>18, BootstrapDoes, InHand
       DEF JInv, Journal, FileIsKnown, Verified, IsCommitted, Managed, Pends, Blocked,
           EndsAt, Marked, Open, Away
  <1>19. CASE Crash
    BY <1>19, CrashDoes, InHand
       DEF JInv, Journal, FileIsKnown, Verified, IsCommitted, Managed, Pends, Blocked,
           EndsAt, Open, Away
  <1>20. CASE EditOwned \/ EditUnrelated
    BY <1>20, EditsDo, InHand
       DEF JInv, Journal, FileIsKnown, Verified, IsCommitted, Managed, Pends, Blocked,
           Open, Away
  <1>21. CASE ModelDies
    BY <1>21, InHand
       DEF JInv, Journal, FileIsKnown, Verified, IsCommitted, Managed, Pends, Blocked,
           Open, Away, ModelDies, store, ghosts
  <1>22. CASE Foreign
    BY <1>22, ForeignDoes, InHand
       DEF JInv, Journal, FileIsKnown, Verified, IsCommitted, Managed, Pends, Blocked,
           SameRoute, Open, Away
  <1>23. CASE UNCHANGED vars
      BY <1>23, InHand
         DEF vars, JInv, Journal, FileIsKnown, Verified, IsCommitted, Managed, Pends,
             Blocked, Open, Away
  <1>. QED
      BY <1>1, <1>2, <1>3, <1>4, <1>5, <1>6, <1>7, <1>8, <1>9, <1>10, <1>11, <1>12,
         <1>13, <1>14, <1>15, <1>16, <1>17, <1>18, <1>19, <1>20, <1>21, <1>22, <1>23
         DEF Next, Activating, Starting, Environment

(* An edit between the verification and the commit is seen as touched.      *)
LEMMA VerifiedHolds ==
  ASSUME JInv, [Next]_vars, counts'.unsettled = 0, counts.unsettled = 0
  PROVE  Verified'
  <1>1. ASSUME NEW a \in Actions, Request(a) PROVE Verified'
    BY <1>1, RequestDoes DEF JInv, Typed, RestTyped, Journal, Verified
  <1>2. CASE Preflight
    BY <1>2, PreflightDoes DEF JInv, Typed, RestTyped, Journal, Verified, EndsAt
  <1>3. CASE Candidate
    BY <1>3, CandidateDoes DEF JInv, Typed, RestTyped, Journal, Verified, EndsAt
  <1>4. CASE InsertIntent
    BY <1>4, InsertIntentDoes
       DEF JInv, Typed, RestTyped, Journal, Verified, KeepsOp, EndsAt
  <1>5. CASE Apply
    BY <1>5, ApplyDoes DEF JInv, Typed, RestTyped, Journal, Verified, KeepsOp
  <1>6. CASE Verify
    BY <1>6, VerifyDoes DEF JInv, Typed, RestTyped, Journal, Verified, KeepsOp
  <1>7. CASE Commit
    BY <1>7, CommitDoes DEF JInv, Typed, RestTyped, Journal, Verified, KeepsOp
  <1>8. CASE Handoff
    BY <1>8, HandoffDoes DEF JInv, Typed, RestTyped, Journal, Verified, EndsAt
  <1>9. CASE HandoffFailed
    BY <1>9, HandoffFailedDoes DEF JInv, Typed, RestTyped, Journal, Verified, EndsAt
  <1>10. CASE Restore
    BY <1>10, RestoreDoes DEF JInv, Typed, RestTyped, Journal, Verified, KeepsOp
  <1>11. CASE Settle
    BY <1>11, SettleDoes DEF JInv, Typed, RestTyped, Journal, Verified, KeepsOp, EndsAt
  <1>12. CASE Require
    BY <1>12, RequireDoes, NoFault DEF JInv, Typed, RestTyped, Journal, Verified, EndsAt
  <1>13. CASE Start
    BY <1>13, StartDoes DEF JInv, Typed, RestTyped, Journal, Verified, KeepsOp
  <1>14. CASE NextPending
    BY <1>14, NextPendingDoes DEF JInv, Typed, RestTyped, Journal, Verified, KeepsOp
  <1>15. CASE Reconcile
    BY <1>15, ReconcileDoes DEF JInv, Typed, RestTyped, Journal, Verified, KeepsOp
  <1>16. CASE SettleStartup
    BY <1>16, SettleStartupDoes, NoFault
       DEF JInv, Typed, RestTyped, Journal, Verified, EndsAt
  <1>17. CASE RequireStartup
    BY <1>17, RequireStartupDoes, NoFault
       DEF JInv, Typed, RestTyped, Journal, Verified, EndsAt
  <1>18. CASE Bootstrap
    BY <1>18, BootstrapDoes DEF JInv, Typed, RestTyped, Journal, Verified, EndsAt
  <1>19. CASE Crash
    BY <1>19, CrashDoes DEF JInv, Typed, RestTyped, Journal, Verified, EndsAt
  <1>20. CASE EditOwned \/ EditUnrelated
    BY <1>20, EditsDo DEF JInv, Typed, RestTyped, Journal, Verified
  <1>21. CASE ModelDies
    BY <1>21 DEF JInv, Typed, RestTyped, Journal, Verified, ModelDies, store, ghosts
  <1>22. CASE Foreign
    BY <1>22, ForeignDoes DEF JInv, Typed, RestTyped, Journal, Verified
  <1>23. CASE UNCHANGED vars
      BY <1>23 DEF vars, JInv, Typed, RestTyped, Journal, Verified
  <1>. QED
      BY <1>1, <1>2, <1>3, <1>4, <1>5, <1>6, <1>7, <1>8, <1>9, <1>10, <1>11, <1>12,
         <1>13, <1>14, <1>15, <1>16, <1>17, <1>18, <1>19, <1>20, <1>21, <1>22, <1>23
         DEF Next, Activating, Starting, Environment

(* An intent left pending stays counted.                                    *)
LEMMA UnsettledStays ==
  ASSUME JInv, [Next]_vars, counts'.unsettled = 0
  PROVE  counts.unsettled = 0
  <1>1. counts' = counts => counts.unsettled = 0 OBVIOUS
  <1>2. StoreFault => counts.unsettled = 0
    BY Faults DEF JInv, Typed, RestTyped
  <1>3. ASSUME NEW a \in Actions, Request(a) PROVE counts.unsettled = 0
    BY <1>3, RequestDoes, Counts DEF JInv, Typed
  <1>4. CASE Crash BY <1>4, CrashDoes, Counts DEF JInv, Typed
  <1>5. CASE EditOwned \/ EditUnrelated BY <1>5, EditsDo, Counts DEF JInv, Typed
  <1>6. CASE Foreign BY <1>6, ForeignDoes, Counts DEF JInv, Typed
  <1>7. CASE ModelDies BY <1>1, <1>7 DEF ModelDies
  <1>8. CASE Activating
    BY <1>1, <1>2, <1>8, PreflightDoes, CandidateDoes, InsertIntentDoes, ApplyDoes,
       VerifyDoes, CommitDoes, HandoffDoes, HandoffFailedDoes, RestoreDoes, SettleDoes,
       RequireDoes
       DEF Activating
  <1>9. CASE Starting
    BY <1>1, <1>2, <1>9, StartDoes, NextPendingDoes, ReconcileDoes, SettleStartupDoes,
       RequireStartupDoes, BootstrapDoes
       DEF Starting
  <1>10. CASE UNCHANGED vars BY <1>1, <1>10 DEF vars
  <1>. QED BY <1>3, <1>4, <1>5, <1>6, <1>7, <1>8, <1>9, <1>10 DEF Next, Environment

LEMMA FaultIsCounted == ASSUME JInv, StoreFault PROVE counts'.faults # 0
  <1>1. counts.faults \in Nat BY DEF JInv, Typed, RestTyped
  <1>. QED BY <1>1, Faults DEF JInv, Typed

(* A commit to a takeover takes a candidate or finds a route; one that      *)
(* cannot hand over settles as a fault or blocks.                           *)
LEMMA ServedHolds ==
  ASSUME JInv, [Next]_vars
  PROVE  Served'
  <1>1. ASSUME NEW a \in Actions, Request(a) PROVE Served'
    BY <1>1, RequestDoes, Faults, Counts
       DEF JInv, Typed, RestTyped, RouteTyped, Served, Unserved, Known, OpIsKnown,
           Blocked, GateIsOpen, Gated
  <1>2. CASE Preflight
    BY <1>2, PreflightDoes, FaultIsCounted
       DEF JInv, Typed, RestTyped, RouteTyped, Served, Unserved, Known, OpIsKnown,
           Blocked, GateIsOpen, Gated, EndsAt, Marked
  <1>3. CASE Candidate
    BY <1>3, CandidateDoes, Faults, Counts
       DEF JInv, Typed, RestTyped, RouteTyped, Served, Unserved, Known, OpIsKnown,
           Blocked, GateIsOpen, Gated, EndsAt
  <1>4. CASE InsertIntent
    BY <1>4, InsertIntentDoes, Faults, Counts
       DEF JInv, Typed, RestTyped, RouteTyped, Served, Unserved, Known, OpIsKnown,
           Blocked, GateIsOpen, Gated, KeepsOp, EndsAt
  <1>5. CASE Apply
    BY <1>5, ApplyDoes, Faults, Counts
       DEF JInv, Typed, RestTyped, RouteTyped, Served, Unserved, Known, OpIsKnown,
           Blocked, GateIsOpen, Gated, KeepsOp
  <1>6. CASE Verify
    BY <1>6, VerifyDoes, Faults, Counts
       DEF JInv, Typed, RestTyped, RouteTyped, Served, Unserved, Known, OpIsKnown,
           Blocked, GateIsOpen, Gated, KeepsOp
  <1>7. CASE Commit
    BY <1>7, CommitDoes, Faults, Counts
       DEF JInv, Typed, RestTyped, RouteTyped, Served, Unserved, Known, OpIsKnown,
           Blocked, GateIsOpen, Gated, KeepsOp
  <1>8. CASE Handoff
    BY <1>8, HandoffDoes, Faults, Counts
       DEF JInv, Typed, RestTyped, RouteTyped, Served, Unserved, Known, OpIsKnown,
           Blocked, GateIsOpen, Gated, EndsAt
  <1>9. CASE HandoffFailed
    BY <1>9, HandoffFailedDoes, FaultIsCounted
       DEF JInv, Typed, RestTyped, RouteTyped, Served, Unserved, Known, OpIsKnown,
           Blocked, GateIsOpen, Gated, EndsAt, Marked
  <1>10. CASE Restore
    BY <1>10, RestoreDoes, Faults, Counts
       DEF JInv, Typed, RestTyped, RouteTyped, Served, Unserved, Known, OpIsKnown,
           Blocked, GateIsOpen, Gated, KeepsOp
  <1>11. CASE Settle
    BY <1>11, SettleDoes, Faults, Counts
       DEF JInv, Typed, RestTyped, RouteTyped, Served, Unserved, Known, OpIsKnown,
           Blocked, GateIsOpen, Gated, KeepsOp, EndsAt
  <1>12. CASE Require
    BY <1>12, RequireDoes, FaultIsCounted
       DEF JInv, Typed, RestTyped, RouteTyped, Served, Unserved, Known, OpIsKnown,
           Blocked, GateIsOpen, Gated, EndsAt, Marked
  <1>13. CASE Start
    BY <1>13, StartDoes, Faults, Counts
       DEF JInv, Typed, RestTyped, RouteTyped, Served, Unserved, Known, OpIsKnown,
           Blocked, GateIsOpen, Gated, KeepsOp
  <1>14. CASE NextPending
    BY <1>14, NextPendingDoes, Faults, Counts
       DEF JInv, Typed, RestTyped, RouteTyped, Served, Unserved, Known, OpIsKnown,
           Blocked, GateIsOpen, Gated, KeepsOp
  <1>15. CASE Reconcile
    BY <1>15, ReconcileDoes, Faults, Counts
       DEF JInv, Typed, RestTyped, RouteTyped, Served, Unserved, Known, OpIsKnown,
           Blocked, GateIsOpen, Gated, KeepsOp
  <1>16. CASE SettleStartup
    BY <1>16, SettleStartupDoes, Faults, Counts
       DEF JInv, Typed, RestTyped, RouteTyped, Served, Unserved, Known, OpIsKnown,
           Blocked, GateIsOpen, Gated, EndsAt
  <1>17. CASE RequireStartup
    BY <1>17, RequireStartupDoes, Faults, Counts
       DEF JInv, Typed, RestTyped, RouteTyped, Served, Unserved, Known, OpIsKnown,
           Blocked, GateIsOpen, Gated, EndsAt, Marked
  <1>18. CASE Bootstrap
    BY <1>18, BootstrapDoes, Faults, Counts
       DEF JInv, Typed, RestTyped, RouteTyped, Served, Unserved, Known, OpIsKnown,
           Blocked, GateIsOpen, Gated, EndsAt, Marked, Resumable
  <1>19. CASE Crash
    BY <1>19, CrashDoes, Faults, Counts
       DEF JInv, Typed, RestTyped, RouteTyped, Served, Unserved, Known, OpIsKnown,
           Blocked, GateIsOpen, Gated, EndsAt
  <1>20. CASE EditOwned \/ EditUnrelated
    BY <1>20, EditsDo, Faults, Counts
       DEF JInv, Typed, RestTyped, RouteTyped, Served, Unserved, Known, OpIsKnown,
           Blocked, GateIsOpen, Gated
  <1>21. CASE ModelDies
    BY <1>21, Faults, Counts
       DEF JInv, Typed, RestTyped, RouteTyped, Served, Unserved, Known, OpIsKnown,
           Blocked, GateIsOpen, Gated, ModelDies, store, ghosts
  <1>22. CASE Foreign
    BY <1>22, ForeignDoes, Faults, Counts
       DEF JInv, Typed, RestTyped, RouteTyped, Served, Unserved, Known, OpIsKnown,
           Blocked, GateIsOpen, Gated, SameRoute
  <1>23. CASE UNCHANGED vars
      BY <1>23
         DEF vars, JInv, Typed, RestTyped, RouteTyped, Served, Unserved, Known,
             OpIsKnown, Blocked, GateIsOpen, Gated
  <1>. QED
      BY <1>1, <1>2, <1>3, <1>4, <1>5, <1>6, <1>7, <1>8, <1>9, <1>10, <1>11, <1>12,
         <1>13, <1>14, <1>15, <1>16, <1>17, <1>18, <1>19, <1>20, <1>21, <1>22, <1>23
         DEF Next, Activating, Starting, Environment

LEMMA InitHolds == Init => JInv
  <1>. SUFFICES ASSUME Init PROVE JInv OBVIOUS
  <1>1. IInv BY Initially
  <1>2. FileTyped /\ RouteTyped /\ IntentsTyped /\ ReceiptsTyped
    BY OwnedValues
       DEF Init, FileTyped, RouteTyped, IntentsTyped, ReceiptsTyped, NoIntent
  <1>3. OpTyped BY OwnedValues DEF Init, OpTyped, Idle, Steps
  <1>4. RestTyped
    <2>1. 0 \in 0 .. MaxAttempts /\ 0 \in 0 .. MaxEdits BY BoundsAreNumbers
    <2>2. counts \in [attempts : 0 .. MaxAttempts, edits : 0 .. MaxEdits, crashes : Nat,
                      faults : Nat, unsettled : Nat, foreign : Nat]
      BY <2>1 DEF Init
    <2>. QED BY <2>2, OwnedValues DEF Init, RestTyped
  <1>5. GateIsOpen /\ Known
    BY OwnedValues
       DEF Init, GateIsOpen, Gated, Known, TouchIsKnown, CommitIsKnown, IntentIsKnown,
           OpIsKnown, Managed, NoIntent, Idle, Acting, Open
  <1>6. Journal
    BY OwnedValues
       DEF Init, Journal, OnePending, BeforesAreCommitted, FileIsKnown, Verified,
           BlockedIsJournalled, IsCommitted, Managed, Pends, Blocked, NoIntent, Idle,
           Blank, Open
  <1>7. Served BY OwnedValues DEF Init, Served, Idle
  <1>. QED BY <1>1, <1>2, <1>3, <1>4, <1>5, <1>6, <1>7 DEF JInv, Typed

LEMMA NextHolds == ASSUME JInv, [Next]_vars PROVE JInv'
  <1>1. IInv' BY NextKeeps DEF JInv
  <1>2. Typed'
    BY FileTypedHolds, RouteTypedHolds, IntentsTypedHolds, ReceiptsTypedHolds,
       OpTypedHolds, RestTypedHolds
       DEF Typed
  <1>3. Known'
    BY TouchIsKnownHolds, CommitIsKnownHolds, IntentIsKnownHolds, OpIsKnownHolds
       DEF Known
  <1>4. Journal'
    BY UnsettledStays, OnePendingHolds, BeforesAreCommittedHolds, FileIsKnownHolds,
       VerifiedHolds, BlockedIsJournalledHolds
       DEF Journal
  <1>. QED BY <1>1, <1>2, <1>3, <1>4, GateIsOpenHolds, ServedHolds DEF JInv

(* Whatever of Muxvia's the file holds is committed or accounted for by a   *)
(* stored intent; at rest the file is the committed one, and a committed    *)
(* takeover has its model route.                                            *)
THEOREM FileStaysAccountedFor == Spec => []FileIsAccountedFor
  <1>1. JInv => FileIsAccountedFor
    <2>. SUFFICES ASSUME JInv PROVE FileIsAccountedFor OBVIOUS
    <2>1. TypeOK
      BY DEF JInv, Typed, FileTyped, RouteTyped, IntentsTyped, ReceiptsTyped, OpTyped, RestTyped, TypeOK
    <2>2. RestIsCommitted
      BY DEF JInv, Journal, FileIsKnown, IsCommitted, Away, RestIsCommitted, AtRest
    <2>3. TakeoverIsServed BY DEF JInv, Served, Unserved, TakeoverIsServed, AtRest
    <2>. QED BY <2>1, <2>2, <2>3, Journalled DEF FileIsAccountedFor
  <1>. QED BY <1>1, InitHolds, NextHolds, PTL DEF Spec

(* No step of Muxvia's, be it an activation, its rollback or a start of the *)
(* service, writes over an edit of the operator's that it has not read.     *)
THEOREM EditsStayKept == Spec => EditsAreKept
  <1>1. JInv /\ [Next]_vars => [touched /\ ~touched' => file = op.before]_vars
    <2>. SUFFICES ASSUME JInv, [Next]_vars, touched, ~touched' PROVE file = op.before OBVIOUS
    <2>1. touched' # touched OBVIOUS
    <2>2. file.owned.mode = "none" /\ (op.pc \in Acting => file.owned # op.desired)
      BY DEF JInv, Known, TouchIsKnown, OpIsKnown, Modes
    <2>3. ~UNCHANGED vars BY <2>1 DEF vars
    <2>4. CASE Activating
      BY <2>1, <2>2, <2>4, PreflightDoes, CandidateDoes, InsertIntentDoes, ApplyDoes, VerifyDoes,
         CommitDoes, HandoffDoes, HandoffFailedDoes, RestoreDoes, SettleDoes, RequireDoes
         DEF Activating, Acting, Open
    <2>5. CASE Starting
      BY <2>1, <2>2, <2>5, StartDoes, NextPendingDoes, ReconcileDoes, SettleStartupDoes,
         RequireStartupDoes, BootstrapDoes
         DEF Starting, Acting, Open
    <2>6. ASSUME NEW a \in Actions PROVE ~Request(a) BY <2>1, RequestDoes
    <2>7. ~Environment
      BY <2>1, CrashDoes, EditsDo, ForeignDoes DEF Environment, ModelDies, ghosts
    <2>. QED BY <2>3, <2>4, <2>5, <2>6, <2>7 DEF Next
  <1>. QED BY <1>1, InitHolds, NextHolds, PTL DEF Spec, EditsAreKept

=============================================================================
