----------------------------- MODULE Activation -----------------------------
(***************************************************************************)
(* Activating a Provider for one Target: its configuration file and the    *)
(* store change together although nothing makes them one transaction.      *)
(* The intent to write is stored first, with what the file held before;    *)
(* the file is written and read back; then the store commits the route,    *)
(* and what is left unfinished by a failure or a crash is undone from the  *)
(* intent, by the activation itself or by the next start of the service.   *)
(***************************************************************************)
EXTENDS Naturals, FiniteSets

CONSTANTS
  Targets,          \* the Targets considered: "codex", "claude"
  Actions,          \* the commands clients send: records [id, provider, mode]
  MaxAttempts,      \* bound: activations begun
  MaxEdits,         \* bound: edits the operator makes to the file
  MaxCrashes,       \* bound: times the service is killed
  MaxStoreFaults,   \* bound: writes of the recovery state that fail
  FaultySteps       \* the steps whose write may fail

ASSUME TargetsAreKnown == Targets \subseteq {"codex", "claude"}
ASSUME ActionsAreActivations == \A a \in Actions : a.mode \in {"direct", "takeover"}
ASSUME BoundsAreNumbers == {MaxAttempts, MaxEdits} \subseteq Nat

(* The values of the fields Muxvia owns: those of an activation, with the   *)
(* port and credential of its route, or those the operator wrote.           *)
Configured(action, key) == [provider |-> action.provider, mode |-> action.mode, key |-> key]
Operator(n) == [provider |-> "operator", mode |-> "none", key |-> n]
OperatorValues == {Operator(n) : n \in 0 .. MaxEdits}
Owned ==
  [provider : {a.provider : a \in Actions}, mode : {"direct", "takeover"}, key : 0 .. MaxAttempts]
    \cup OperatorValues
Files == [owned : Owned, unrelated : 0 .. MaxEdits]

NoAction == [id |-> 0, provider |-> "operator", mode |-> "none"]
Unmanaged == Operator(0)

VARIABLES
  file,     \* the configuration file: its owned fields, and all the others
  route,    \* the Target, its committed route, intent, recovery state and drift
  intents,  \* action -> its row of activation_recovery
  receipts, \* actions with a row of action_receipts
  problem,  \* a startup problem is recorded
  model,    \* the model server's slot: "none", "running" or "dead"
  op,       \* what holds the Target's gate, and its next step
  touched,  \* the operator wrote the owned fields after Muxvia did
  original, \* the owned fields when the Target became managed
  counts    \* attempts, edits, crashes, store faults, intents left unsettled
            \* by them, changes past the gate

store == <<route, intents, receipts, problem>>
ghosts == <<touched, original>>
vars == <<file, route, intents, receipts, problem, model, op, touched, original, counts>>

Steps == {"idle", "preflight", "candidate", "intent", "apply", "verify", "commit", "handoff",
          "handoffFailed", "restore", "settle", "require", "down", "startup", "reconcile",
          "settleStartup", "requireStartup", "bootstrap"}

Blank == [owned |-> Unmanaged, unrelated |-> 0]
NoIntent == [state |-> "none", before |-> Blank, desired |-> Unmanaged, row |-> 0]
Idle == [pc |-> "idle", action |-> NoAction, before |-> Blank, desired |-> Unmanaged,
         candidate |-> FALSE, revision |-> 0]

TypeOK ==
  /\ file \in Files
  /\ route.target \in Targets
  /\ route.desired \in Owned /\ route.intent \in Actions \cup {NoAction}
  /\ {route.required, route.drift, problem, touched} \subseteq BOOLEAN
  /\ \A a \in Actions :
       /\ intents[a].state \in {"none", "pending", "committed", "rolledBack", "required"}
       /\ intents[a].before \in Files /\ intents[a].desired \in Owned
  /\ receipts \subseteq {a \in Actions : intents[a].state \in {"committed", "required"}}
  /\ model \in {"none", "running", "dead"}
  /\ op.pc \in Steps /\ op.action \in Actions \cup {NoAction}
  /\ op.before \in Files /\ op.desired \in Owned
  /\ op.candidate => op.pc \in {"intent", "apply", "verify", "commit", "handoff", "restore",
                                "settle", "require"}
  /\ original \in Owned

Init ==
  /\ file = Blank
  /\ \E t \in Targets :
       route = [target |-> t, desired |-> Unmanaged, intent |-> NoAction,
                required |-> FALSE, drift |-> FALSE, revision |-> 0]
  /\ intents = [a \in Actions |-> NoIntent]
  /\ receipts = {} /\ problem = FALSE
  /\ model = "none" /\ op = Idle
  /\ touched = FALSE /\ original = Unmanaged
  /\ counts = [attempts |-> 0, edits |-> 0, crashes |-> 0, faults |-> 0,
               unsettled |-> 0, foreign |-> 0]

Count(kind) == counts' = [counts EXCEPT ![kind] = @ + 1]
Goto(step) == op' = [op EXCEPT !.pc = step]
End == op' = Idle
Target == route.target
Managed == route.desired # Unmanaged
Bound == intents[route.intent]

-----------------------------------------------------------------------------
(* Receipt, recovery state, drift, revision and mode are looked at before   *)
(* anything is done; a command refused there changes nothing.  A takeover   *)
(* keeps the port and credential of the route it replaces.                  *)
Request(a) ==
  /\ op.pc = "idle" /\ counts.attempts < MaxAttempts
  /\ a \notin receipts /\ ~route.required /\ ~route.drift
  /\ a.mode = "direct" => route.desired.mode # "takeover"
  /\ LET key == CASE a.mode = "direct" -> 0
                  [] route.desired.mode = "takeover" -> route.desired.key
                  [] OTHER -> counts.attempts + 1 IN
     op' = [Idle EXCEPT !.pc = "preflight", !.action = a, !.desired = Configured(a, key),
                        !.revision = route.revision]
  /\ Count("attempts")
  /\ UNCHANGED <<file, store, model, ghosts>>

MarkRequired(a) ==
  /\ intents' = [intents EXCEPT ![a].state = "required"]
  /\ route' = [route EXCEPT !.required = TRUE, !.intent = a]

(* Of a committed activation: the intent the route is bound to.             *)
MarkCurrentRequired == MarkRequired(route.intent)
MarkDrift == route' = [route EXCEPT !.drift = TRUE]

(* A write of the recovery state that fails; at the last three steps it     *)
(* leaves an intent pending that the service has done with.                 *)
LeavesPending == op.pc \in {"require", "settleStartup", "requireStartup"}
StoreFault ==
  /\ op.pc \in FaultySteps /\ counts.faults < MaxStoreFaults
  /\ counts' = [counts EXCEPT !.faults = @ + 1,
                              !.unsettled = @ + IF LeavesPending THEN 1 ELSE 0]
StoreFails == StoreFault /\ UNCHANGED store

(* What the file must hold for a write to go ahead: Codex tells its own     *)
(* fields only, Claude the operator's too.                                  *)
AsCommitted ==
  /\ file.owned = route.desired
  /\ Target = "claude" => file.unrelated = Bound.before.unrelated

(* A Claude file that is not the committed one is marked, a Codex one only  *)
(* refused.                                                                 *)
Preflight ==
  /\ op.pc = "preflight"
  /\ \/ /\ IF Managed THEN AsCommitted ELSE Target = "codex" => file.owned.mode = "none"
        /\ op' = [op EXCEPT !.before = file,
                            !.pc = IF op.action.mode = "takeover" THEN "candidate" ELSE "intent"]
        /\ UNCHANGED <<store, counts>>
     \/ /\ Target = "claude" /\ Managed /\ ~AsCommitted /\ End
        /\ \/ MarkCurrentRequired /\ UNCHANGED <<receipts, problem, counts>>
           \/ StoreFails
     \/ /\ Target = "codex" /\ End
        /\ IF Managed THEN ~AsCommitted ELSE file.owned.mode # "none"
        /\ UNCHANGED <<store, counts>>
  /\ UNCHANGED <<file, model, ghosts>>

(* ensure_model_candidate: a running server serves the new route as well.   *)
Candidate ==
  /\ op.pc = "candidate"
  /\ \/ model = "running" /\ Goto("intent")
     \/ model = "none" /\ op' = [op EXCEPT !.pc = "intent", !.candidate = TRUE]
     \/ model # "running" /\ End
  /\ UNCHANGED <<file, store, model, ghosts, counts>>

Rows == {intents[a].row : a \in Actions}

(* A row is replaced only if its action was rolled back.                    *)
InsertIntent ==
  /\ op.pc = "intent"
  /\ \/ /\ Target = "claude" => file = op.before
        /\ intents[op.action].state \in {"none", "rolledBack"}
        /\ intents' = [intents EXCEPT ![op.action] =
             [state |-> "pending", before |-> op.before, desired |-> op.desired,
              row |-> IF @.row # 0 THEN @.row ELSE Cardinality(Rows)]]
        /\ Goto("apply")
     \/ End /\ UNCHANGED intents
  /\ UNCHANGED <<file, route, receipts, problem, model, ghosts, counts>>

(* atomic_apply: the write is refused if the file is not the one that was   *)
(* read, and may fail with the new file in place.                           *)
Apply ==
  /\ op.pc = "apply"
  /\ \/ /\ file = op.before
        /\ file' = [file EXCEPT !.owned = op.desired] /\ touched' = FALSE
        /\ Goto("verify") \/ Goto("restore")
     \/ Goto("restore") /\ UNCHANGED <<file, touched>>
  /\ UNCHANGED <<store, model, original, counts>>

Verify ==
  /\ op.pc = "verify"
  /\ Goto(IF file = [owned |-> op.desired, unrelated |-> op.before.unrelated]
          THEN "commit" ELSE "restore")
  /\ UNCHANGED <<file, store, model, ghosts, counts>>

(* Slip: every activation records what it read itself. *)
OwnBefore == op.before

(* The payload bound to the route: Codex hands on what the file held before *)
(* Muxvia first wrote it, Claude records what this activation read.         *)
CommittedBefore == IF Target = "codex" /\ Managed THEN Bound.before ELSE op.before

Commit ==
  /\ op.pc = "commit"
  /\ \/ /\ op.action \notin receipts /\ ~route.required /\ route.revision = op.revision
        /\ route' = [route EXCEPT !.desired = op.desired, !.intent = op.action,
                                  !.revision = @ + 1]
        /\ intents' = [intents EXCEPT ![op.action].state = "committed",
                                      ![op.action].before = CommittedBefore]
        /\ receipts' = receipts \cup {op.action}
        /\ original' = IF Managed THEN original ELSE op.before.owned
        /\ Goto("handoff")
     \/ /\ Goto(IF op.action \notin receipts /\ route.required THEN "require" ELSE "restore")
        /\ UNCHANGED <<route, intents, receipts, original>>
  /\ UNCHANGED <<file, problem, model, touched, counts>>

Handoff ==
  /\ op.pc = "handoff"
  /\ \/ model' = (IF op.candidate THEN "running" ELSE model) /\ End
     \/ op.candidate /\ model' = "none" /\ op' = [op EXCEPT !.pc = "handoffFailed",
                                                            !.candidate = FALSE]
  /\ UNCHANGED <<file, store, ghosts, counts>>

(* committed_handoff_recovery: the commit stands, its recovery is required. *)
HandoffFailed ==
  /\ op.pc = "handoffFailed" /\ End
  /\ \/ MarkRequired(op.action) /\ UNCHANGED <<receipts, problem, counts>>
     \/ StoreFails
  /\ UNCHANGED <<file, model, ghosts>>

(* Slip: the owned fields are put back whatever they hold. *)
RestoreAlways ==
  /\ op.pc = "restore"
  /\ file' = [file EXCEPT !.owned = op.before.owned] /\ touched' = FALSE
  /\ Goto("settle")
  /\ UNCHANGED <<store, model, original, counts>>

(* restore_or_confirm_before: a file that holds neither what was read nor   *)
(* what was written is left to its operator.                                *)
Restore ==
  /\ op.pc = "restore"
  /\ \/ file = op.before /\ Goto("settle") /\ UNCHANGED <<file, touched>>
     \/ /\ file # op.before /\ file.owned = op.desired
        /\ file' = [file EXCEPT !.owned = op.before.owned] /\ touched' = FALSE
        /\ \/ file.unrelated = op.before.unrelated /\ Goto("settle")
           \/ Goto("require")
     \/ file # op.before /\ Goto("require") /\ UNCHANGED <<file, touched>>
  /\ UNCHANGED <<store, model, original, counts>>

Settle ==
  /\ op.pc = "settle"
  /\ \/ /\ intents' = [intents EXCEPT ![op.action].state = "rolledBack"] /\ End
        /\ UNCHANGED <<route, receipts, problem, counts>>
     \/ StoreFails /\ Goto("require")
  /\ UNCHANGED <<file, model, ghosts>>

(* mark_required: writes are blocked and the model route stops.             *)
Require ==
  /\ op.pc = "require" /\ End
  /\ \/ MarkRequired(op.action) /\ UNCHANGED <<receipts, problem, counts>>
     \/ StoreFails
  /\ model' = "none"
  /\ UNCHANGED <<file, ghosts>>

-----------------------------------------------------------------------------
(* Slip: the service serves at once. *)
StartServing ==
  /\ op.pc = "down" /\ End
  /\ UNCHANGED <<file, store, model, ghosts, counts>>

(* The service starts: every pending intent is settled, oldest row first,   *)
(* and then the model route of a committed takeover resumes.                *)
Start ==
  /\ op.pc = "down" /\ Goto("startup")
  /\ UNCHANGED <<file, store, model, ghosts, counts>>

Pending == {a \in Actions : intents[a].state = "pending"}
Blocked == route.required \/ route.drift

(* A startup problem is cleared by a start that settles every intent.       *)
ClearProblem == problem' = (problem /\ Blocked)
RecordProblem == problem' = TRUE

NextPending ==
  /\ op.pc = "startup"
  /\ IF Pending = {}
     THEN Goto("bootstrap") /\ ClearProblem
     ELSE /\ \E a \in Pending :
               /\ \A b \in Pending : intents[a].row <= intents[b].row
               /\ op' = [op EXCEPT !.pc = "reconcile", !.action = a,
                         !.before = intents[a].before, !.desired = intents[a].desired]
          /\ UNCHANGED problem
  /\ UNCHANGED <<file, route, intents, receipts, model, ghosts, counts>>

(* Slip: a file that holds what was desired is left so. *)
ReconcileDesired ==
  /\ op.pc = "reconcile" /\ Goto("settleStartup")
  /\ file = op.before \/ file.owned = op.desired
  /\ UNCHANGED <<file, store, model, ghosts, counts>>

(* reconcile_one: before is confirmed, desired is put back to before, and   *)
(* any third state needs recovery.                                          *)
Reconcile ==
  /\ op.pc = "reconcile"
  /\ \/ file = op.before /\ Goto("settleStartup") /\ UNCHANGED <<file, touched>>
     \/ /\ file # op.before
        /\ file = [owned |-> op.desired, unrelated |-> op.before.unrelated]
        /\ file' = op.before /\ touched' = FALSE
        /\ Goto("settleStartup") \/ Goto("requireStartup")
     \/ file # op.before /\ Goto("requireStartup") /\ UNCHANGED <<file, touched>>
  /\ UNCHANGED <<store, model, original, counts>>

(* A reconciliation that fails is a startup problem unless writes are       *)
(* blocked already.                                                         *)
StartupFault ==
  /\ StoreFault /\ op' = [Idle EXCEPT !.pc = "bootstrap"]
  /\ IF Blocked THEN UNCHANGED problem ELSE RecordProblem
  /\ UNCHANGED <<route, intents, receipts>>

SettleStartup ==
  /\ op.pc = "settleStartup"
  /\ \/ /\ intents' = [intents EXCEPT ![op.action].state = "rolledBack"]
        /\ op' = [Idle EXCEPT !.pc = "startup"]
        /\ UNCHANGED <<route, receipts, problem, counts>>
     \/ StartupFault
  /\ UNCHANGED <<file, model, ghosts>>

RequireStartup ==
  /\ op.pc = "requireStartup"
  /\ \/ MarkRequired(op.action) /\ op' = [Idle EXCEPT !.pc = "bootstrap"]
        /\ UNCHANGED <<receipts, problem, counts>>
     \/ StartupFault
  /\ UNCHANGED <<file, model, ghosts>>

Resumable == ~problem /\ ~Blocked /\ route.desired.mode = "takeover"

(* bootstrap_committed_takeover_for: it resumes only over the file that was *)
(* committed.                                                               *)
Bootstrap ==
  /\ op.pc = "bootstrap"
  /\ \/ ~Resumable /\ End /\ UNCHANGED <<store, model, counts>>
     \/ /\ Resumable /\ AsCommitted /\ End
        /\ \/ model' = "running" /\ UNCHANGED problem
           \/ RecordProblem /\ UNCHANGED model
        /\ UNCHANGED <<route, intents, receipts, counts>>
     \/ /\ Resumable /\ file.owned # route.desired /\ End
        /\ MarkDrift
        /\ UNCHANGED <<intents, receipts, problem, model, counts>>
     \/ /\ Resumable /\ file.owned = route.desired /\ ~AsCommitted /\ End
        /\ MarkCurrentRequired
        /\ UNCHANGED <<receipts, problem, model, counts>>
  /\ UNCHANGED <<file, ghosts>>

-----------------------------------------------------------------------------
Crash ==
  /\ op.pc # "down" /\ counts.crashes < MaxCrashes
  /\ op' = [Idle EXCEPT !.pc = "down"] /\ model' = "none"
  /\ Count("crashes")
  /\ UNCHANGED <<file, store, ghosts>>

EditOwned ==
  /\ counts.edits < MaxEdits
  /\ file' = [file EXCEPT !.owned = Operator(counts.edits + 1)] /\ touched' = TRUE
  /\ Count("edits")
  /\ UNCHANGED <<store, model, op, original>>

EditUnrelated ==
  /\ counts.edits < MaxEdits
  /\ file' = [file EXCEPT !.unrelated = counts.edits + 1]
  /\ Count("edits")
  /\ UNCHANGED <<store, model, op, ghosts>>

(* The model server's task fails.                                           *)
ModelDies ==
  /\ model = "running" /\ model' = "dead"
  /\ UNCHANGED <<file, store, op, ghosts, counts>>

(* The revision advances without the gate, as the import of a provider makes *)
(* it (ProviderCatalog, ConfirmImport).                                     *)
Foreign ==
  /\ op.pc = "commit" /\ counts.foreign = 0
  /\ route' = [route EXCEPT !.revision = @ + 1]
  /\ Count("foreign")
  /\ UNCHANGED <<file, intents, receipts, problem, model, op, ghosts>>

Activating ==
  \/ Preflight \/ Candidate \/ InsertIntent \/ Apply \/ Verify \/ Commit \/ Handoff
  \/ HandoffFailed \/ Restore \/ Settle \/ Require

Starting ==
  Start \/ NextPending \/ Reconcile \/ SettleStartup \/ RequireStartup \/ Bootstrap

Environment == Crash \/ EditOwned \/ EditUnrelated \/ ModelDies \/ Foreign

Next == (\E a \in Actions : Request(a)) \/ Activating \/ Starting \/ Environment

Spec == Init /\ [][Next]_vars

(* An activation that holds the gate and a start of the service go on; the  *)
(* service is started again after it was killed.                            *)
FairSpec == Spec /\ WF_vars(Activating) /\ WF_vars(Starting)

-----------------------------------------------------------------------------
(* Whenever the file holds values of Muxvia's that are not the committed    *)
(* ones, also between any two steps and after a crash there, a stored       *)
(* intent that is not settled accounts for them.  (An intent left pending   *)
(* is another matter: it may be undone over what was committed after it.)   *)
WritesAreJournalled ==
  counts.unsettled = 0 =>
    \/ file.owned \in {route.desired} \cup OperatorValues
    \/ \E a \in Actions : /\ intents[a].state \in {"pending", "required"}
                          /\ file.owned \in {intents[a].desired, intents[a].before.owned}

(* At rest, with no recovery, drift or startup problem to report and no     *)
(* intent to settle, the file is the committed one, unless the operator has *)
(* changed it since.                                                        *)
AtRest ==
  op.pc = "idle" /\ ~Blocked /\ ~problem /\ Pending = {} /\ counts.unsettled = 0

RestIsCommitted ==
  AtRest /\ ~touched =>
    IF Managed THEN file.owned = route.desired ELSE file.owned.mode = "none"

(* A committed takeover has its model route, dead or alive.                 *)
TakeoverIsServed ==
  AtRest /\ route.desired.mode = "takeover" /\ counts.faults = 0 => model # "none"

(* Nothing of Muxvia's is in the file that neither a commit nor a journalled *)
(* intent stands for, and what is committed is served.                      *)
FileIsAccountedFor ==
  TypeOK /\ WritesAreJournalled /\ RestIsCommitted /\ TakeoverIsServed

(* Muxvia writes over fields the operator has edited only if it read that   *)
(* very edit: a rollback or a start of the service never undoes one.        *)
EditsAreKept ==
  [][touched /\ ~touched' => file = op.before]_vars

(* "Restore reconstructs the pre-Muxvia state from the bound recovery       *)
(* payload": the payload holds it for as long as the Target is managed.     *)
OriginalIsBound ==
  Managed /\ ~route.required => Bound.before.owned = original

CodexOriginalIsBound == Target = "codex" => OriginalIsBound

(* Every intent is settled in the end, committed, rolled back or marked,    *)
(* unless the store has refused to record that.                             *)
IntentsSettle ==
  \A a \in Actions :
    intents[a].state = "pending" ~> intents[a].state # "pending" \/ counts.unsettled > 0
=============================================================================
