--------------------------- MODULE Reconciliation ---------------------------
(***************************************************************************)
(* Reconciling one managed Target: a client is shown what adopting,        *)
(* reapplying or restoring its configuration would do, and applies it with *)
(* the token it was shown.  Previews are registered outside the Target's   *)
(* gate; applying takes the gate and the strategy's registration lock,     *)
(* observes again, reserves the model server, journals, writes, commits.   *)
(* Disable Takeover is a restore that drains: it answers at its commit and *)
(* keeps the gate until the server is gone.  The journal of activations    *)
(* covers the same file; a start settles this one first.                   *)
(***************************************************************************)
EXTENDS Naturals, FiniteSets

CONSTANTS
  Targets,        \* the Targets considered: "codex", "claude"
  MaxPreviews,    \* bound: previews, each a session of its own whose token is its number
  MaxWrites,      \* bound: activations
  MaxEdits,       \* bound: edits of the operator
  MaxCrashes,     \* bound: times the service is killed
  MaxStoreFaults, \* bound: recovery states that cannot be stored
  MaxRequests     \* bound: requests in the model server

ASSUME ReconciliationAssumption ==
  {MaxPreviews, MaxWrites, MaxEdits, MaxCrashes, MaxStoreFaults, MaxRequests} \subseteq Nat

Strategies == {"adopt", "reapply", "restore"}
(* The values of the owned fields: the operator's, then Muxvia's.           *)
Muxvia(n) == MaxEdits + 1 + n
Owned == 0 .. MaxEdits \cup {Muxvia(n) : n \in 0 .. MaxWrites}
Files == [owned : Owned, unrelated : 0 .. MaxEdits]
Blank == [owned |-> 0, unrelated |-> 0]

VARIABLES
  file,    \* the configuration file
  route,   \* the Target's committed route and its bound Recovery Snapshot
  tokens,  \* strategy -> the observation registered for it
  clients, \* preview -> where its session is with it
  intents, \* token -> row of reconciliation_intents
  act,     \* the row of activation_recovery that may be pending
  model,   \* the model server: in its slot, reserved, draining or gone
  active,  \* requests in it
  op,      \* what holds the Target's gate
  skipped, \* ghost: the last start passed a committed takeover over
  shown,   \* ghost: strategy -> the token last shown for it
  counts   \* of what is bounded, and of the intents left pending by a fault

store == <<route, intents, act>>
server == <<model, active, skipped>>
previews == <<tokens, clients, shown>>
vars == <<file, route, tokens, clients, intents, act, model, active, op, skipped, shown, counts>>

Observed == [id : 0 .. MaxPreviews, seen : Files, revision : Nat]
NoToken == [id |-> 0, seen |-> Blank, revision |-> 0]
Clients == 1 .. MaxPreviews
NoClient == [pc |-> "idle", strategy |-> "adopt", rec |-> NoToken, previous |-> NoToken,
             disables |-> FALSE]
Over == [NoClient EXCEPT !.pc = "over"]
NoIntent == [state |-> "none", before |-> Blank, desired |-> 0, union |-> FALSE]
(* The material of a row that is settled is never read again.               *)
Settled(state) == [NoIntent EXCEPT !.state = state]
Idle == [pc |-> "idle", strategy |-> "adopt", rec |-> NoToken, drains |-> FALSE,
         before |-> Blank, desired |-> 0]

ApplySteps == {"lock", "validate", "reserve", "intent", "write", "commit", "stop",
               "markStop", "rollback", "settle", "mark"}
ActivationSteps == {"actWrite", "actCommit", "actUndo", "actMark"}
Steps == {"idle", "complete", "markComplete", "down", "recover", "actRecover", "bootstrap"}
           \cup ApplySteps \cup ActivationSteps

TypeOK ==
  /\ file \in Files
  /\ route.target \in Targets /\ route.desired \in Owned /\ route.before \in Files
  /\ {route.managed, route.takeover, route.required, route.drift} \subseteq BOOLEAN
  /\ tokens \in [Strategies -> Observed]
  /\ \A c \in Clients :
       /\ clients[c].pc \in {"idle", "registered", "shown", "over"}
       /\ {clients[c].rec, clients[c].previous} \subseteq Observed
  /\ \A n \in DOMAIN intents :
       intents[n].state \in {"none", "pending", "committed", "rolledBack", "required"}
  /\ act.state \in {"none", "pending"}
  /\ model \in {"none", "serving", "reserved", "draining"} /\ active \in 0 .. MaxRequests
  /\ op.pc \in Steps /\ op.rec \in Observed

(* The Target is managed, directly or taken over, and its file is the       *)
(* committed one.                                                           *)
Init ==
  /\ \E t \in Targets, takeover \in BOOLEAN :
       /\ route = [target |-> t, managed |-> TRUE, desired |-> Muxvia(0), before |-> Blank,
                   takeover |-> takeover, required |-> FALSE, drift |-> FALSE, revision |-> 1]
       /\ model = IF takeover THEN "serving" ELSE "none"
  /\ file = [owned |-> Muxvia(0), unrelated |-> 0]
  /\ tokens = [s \in Strategies |-> NoToken]
  /\ clients = [c \in Clients |-> NoClient]
  /\ intents = [c \in Clients |-> NoIntent] /\ act = NoIntent
  /\ active = 0 /\ op = Idle /\ skipped = FALSE
  /\ shown = [s \in Strategies |-> 0]
  /\ counts = [writes |-> 0, edits |-> 0, crashes |-> 0, faults |-> 0,
               unsettled |-> 0]

Up == op.pc \notin {"down", "recover", "actRecover", "bootstrap"}
Goto(step) == op' = [op EXCEPT !.pc = step]
End == op' = Idle
Count(kind) == counts' = [counts EXCEPT ![kind] = @ + 1]
Locked(s) ==
  \/ \E c \in Clients : clients[c].pc = "registered" /\ clients[c].strategy = s
  \/ op.pc \in ApplySteps \ {"lock"} /\ op.strategy = s

-----------------------------------------------------------------------------
(* observe_cancellable: file and route as they are now; what is seen may be *)
(* stale when it is registered, as it may be when it is applied.  A preview *)
(* that is cancelled or dismissed is one that takes no further step.        *)
Observation(c) == [id |-> c, seen |-> file, revision |-> route.revision]
Begins(c) ==
  /\ Up /\ clients[c].pc = "idle" /\ route.managed
  /\ \A d \in 1 .. c - 1 : clients[d].pc # "idle"

(* preview_registered_cancellable: the lock is held until the response is   *)
(* written.                                                                 *)
Preview(c, s) ==
  /\ Begins(c) /\ ~Locked(s)
  /\ tokens' = [tokens EXCEPT ![s] = Observation(c)]
  /\ clients' = [clients EXCEPT ![c] =
       [pc |-> "registered", strategy |-> s, rec |-> Observation(c), previous |-> tokens[s],
        disables |-> FALSE]]
  /\ UNCHANGED <<file, store, server, op, shown, counts>>

(* disable_takeover registers a restore of its own and lets the lock go.    *)
Disable(c) ==
  /\ Begins(c) /\ ~Locked("restore")
  /\ tokens' = [tokens EXCEPT !["restore"] = Observation(c)]
  /\ shown' = [shown EXCEPT !["restore"] = c]
  /\ clients' = [clients EXCEPT ![c] =
       [NoClient EXCEPT !.pc = "shown", !.strategy = "restore", !.rec = Observation(c),
                        !.disables = TRUE]]
  /\ UNCHANGED <<file, store, server, op, counts>>

Deliver(c) ==
  /\ clients[c].pc = "registered"
  /\ clients' = [clients EXCEPT ![c].pc = "shown"]
  /\ shown' = [shown EXCEPT ![clients[c].strategy] = clients[c].rec.id]
  /\ UNCHANGED <<file, store, tokens, server, op, counts>>

(* rollback_preview: the response could not be written.                     *)
RollbackPreview(c) ==
  LET s == clients[c].strategy IN
  /\ clients[c].pc = "registered"
  /\ tokens' = [tokens EXCEPT ![s] = IF @.id = clients[c].rec.id THEN clients[c].previous ELSE @]
  /\ clients' = [clients EXCEPT ![c] = Over]
  /\ UNCHANGED <<file, store, server, op, shown, counts>>

-----------------------------------------------------------------------------
(* apply_result: gate, then registration lock; a route that needs recovery  *)
(* is refused, a drifted one is what this is for.                           *)
Apply(c) ==
  /\ op.pc = "idle" /\ clients[c].pc = "shown"
  /\ op' = [Idle EXCEPT !.pc = "lock", !.strategy = clients[c].strategy,
                        !.rec = clients[c].rec, !.drains = clients[c].disables]
  /\ clients' = [clients EXCEPT ![c] = Over]
  /\ UNCHANGED <<file, store, tokens, server, shown, counts>>

Lock ==
  /\ op.pc = "lock" /\ ~Locked(op.strategy)
  /\ IF route.required THEN End ELSE Goto("validate")
  /\ UNCHANGED <<file, store, previews, server, counts>>

Refuse(steps) == op.pc \in steps /\ End

(* validate_preview: the token is the registered one, and observing again   *)
(* gives the same.                                                          *)
AsShown ==
  /\ tokens[op.strategy] = op.rec
  /\ file = op.rec.seen /\ route.revision = op.rec.revision /\ route.managed

(* A takeover is not adopted while the file still points to it.             *)
Adoptable == op.strategy = "adopt" /\ route.takeover => file.owned # route.desired

Desired ==
  CASE op.strategy = "adopt" -> file.owned
    [] op.strategy = "reapply" -> route.desired
    [] op.strategy = "restore" -> route.before.owned

Validate ==
  /\ op.pc = "validate"
  /\ \/ /\ AsShown /\ Adoptable
        /\ op' = [op EXCEPT !.pc = "reserve", !.before = op.rec.seen, !.desired = Desired]
     \/ Refuse({"validate"})
  /\ UNCHANGED <<file, store, previews, server, counts>>

LeavesTakeover == op.strategy = "restore" \/ (op.strategy = "adopt" /\ route.takeover)

(* Slip: the server is taken from its slot whatever it is doing. *)
ReserveBusy ==
  /\ op.pc = "reserve" /\ Goto("intent")
  /\ model' = IF LeavesTakeover /\ model = "serving" THEN "reserved" ELSE model
  /\ UNCHANGED <<file, store, previews, active, skipped, counts>>

(* reserve_if_idle and, to disable a takeover, reserve_draining.            *)
Reserve ==
  /\ op.pc = "reserve"
  /\ \/ (~LeavesTakeover \/ model = "none") /\ Goto("intent") /\ UNCHANGED model
     \/ LeavesTakeover /\ model = "serving" /\ op.drains /\ model' = "draining" /\ Goto("intent")
     \/ /\ LeavesTakeover /\ model = "serving" /\ ~op.drains
        /\ IF active = 0 THEN model' = "reserved" /\ Goto("intent")
                         ELSE End /\ UNCHANGED model
  /\ UNCHANGED <<file, store, previews, active, skipped, counts>>

(* restore_runtime: the server goes back into its slot and admits again.    *)
GiveBack == model' = IF model \in {"reserved", "draining"} THEN "serving" ELSE model

Union == route.target = "codex" /\ op.strategy = "restore"

InsertIntent ==
  /\ op.pc = "intent"
  /\ \/ /\ intents' = [intents EXCEPT ![op.rec.id] =
             [state |-> "pending", before |-> op.before, desired |-> op.desired, union |-> Union]]
        /\ Goto("write") /\ UNCHANGED model
     \/ End /\ GiveBack /\ UNCHANGED intents
  /\ UNCHANGED <<file, route, act, previews, active, skipped, counts>>

(* Slip: the file is written over whatever it holds by now. *)
WriteOver ==
  /\ op.pc = "write"
  /\ file' = [file EXCEPT !.owned = op.desired]
  /\ Goto("commit")
  /\ UNCHANGED <<store, previews, server, counts>>

(* atomic_apply, only over what was observed, and verify; they may fail     *)
(* with the new file in place or without it.                                *)
Write ==
  /\ op.pc = "write"
  /\ \/ /\ file = op.before
        /\ file' = [file EXCEPT !.owned = op.desired]
        /\ Goto("commit") \/ Goto("rollback")
     \/ Goto("rollback") /\ UNCHANGED file
  /\ UNCHANGED <<store, previews, server, counts>>

(* What a later restore puts back: the fields from before Muxvia; for       *)
(* Claude beside the latest of the others.                                  *)
Refreshed ==
  [owned |-> route.before.owned,
   unrelated |-> IF route.target = "claude" THEN op.before.unrelated ELSE route.before.unrelated]

Advanced == [route EXCEPT !.desired = op.desired, !.drift = FALSE, !.revision = @ + 1]
Adopted == [Advanced EXCEPT !.before = Refreshed, !.takeover = FALSE]
Reapplied == [Advanced EXCEPT !.before = Refreshed]
Restored == [Advanced EXCEPT !.managed = FALSE, !.takeover = FALSE]

Consumed == [tokens EXCEPT ![op.strategy] = IF @.id = op.rec.id THEN NoToken ELSE @]
ConsumeToken ==
  /\ tokens' = Consumed
  /\ shown' = [s \in Strategies |-> IF shown[s] = op.rec.id THEN 0 ELSE shown[s]]

(* commit_reconciliation, one transaction; a failure rolls the file back.   *)
Commit ==
  /\ op.pc = "commit"
  /\ \/ /\ route.revision = op.rec.revision
        /\ route' = CASE op.strategy = "adopt" -> Adopted
                      [] op.strategy = "reapply" -> Reapplied
                      [] op.strategy = "restore" -> Restored
        /\ intents' = [intents EXCEPT ![op.rec.id] = Settled("committed")]
        /\ IF op.drains THEN ConsumeToken /\ Goto("complete")
                        ELSE Goto("stop") /\ UNCHANGED <<tokens, shown>>
     \/ Goto("rollback") /\ UNCHANGED <<route, intents, tokens, shown>>
  /\ UNCHANGED <<file, act, clients, server, counts>>

(* shutdown_runtime of an idle server; if that fails the commit stands and  *)
(* recovery is required.                                                    *)
Stop ==
  /\ op.pc = "stop"
  /\ model' = IF model = "reserved" THEN "none" ELSE model
  /\ \/ ConsumeToken /\ End
     \/ model = "reserved" /\ Goto("markStop") /\ UNCHANGED <<tokens, shown>>
  /\ UNCHANGED <<file, store, clients, active, skipped, counts>>

(* complete_disable_takeover, spawned after the answer, under the gate.     *)
Complete ==
  /\ op.pc = "complete" /\ (model = "draining" => active = 0)
  /\ model' = "none"
  /\ End \/ (model = "draining" /\ Goto("markComplete"))
  /\ UNCHANGED <<file, store, previews, active, skipped, counts>>

StoreFails == counts.faults < MaxStoreFaults /\ Count("faults") /\ UNCHANGED store

(* mark_committed_reconciliation_recovery_required.                         *)
MarkCommitted ==
  /\ op.pc \in {"markStop", "markComplete"} /\ End
  /\ \/ /\ intents' = [intents EXCEPT ![op.rec.id] = Settled("required")]
        /\ route' = [route EXCEPT !.required = TRUE]
        /\ IF op.pc = "markStop" THEN ConsumeToken ELSE UNCHANGED <<tokens, shown>>
        /\ UNCHANGED <<act, counts>>
     \/ StoreFails /\ UNCHANGED <<tokens, shown>>
  /\ UNCHANGED <<file, clients, server>>

(* Restore what was observed, or confirm it; a restored union of a Codex    *)
(* file is not touched when the operator wrote beside it.                   *)
PutBack(intent, done, failed) ==
  \/ file = intent.before /\ done /\ UNCHANGED file
  \/ /\ file # intent.before /\ file.owned = intent.desired
     /\ intent.union => file.unrelated = intent.before.unrelated
     /\ file' = [file EXCEPT !.owned = intent.before.owned]
     /\ \/ file.unrelated = intent.before.unrelated /\ done
        \/ failed
  \/ file # intent.before /\ failed /\ UNCHANGED file

Rollback ==
  /\ op.pc = "rollback"
  /\ PutBack(intents[op.rec.id], Goto("settle"), Goto("mark"))
  /\ UNCHANGED <<store, previews, server, counts>>

Settle ==
  /\ op.pc = "settle"
  /\ \/ intents' = [intents EXCEPT ![op.rec.id] = Settled("rolledBack")] /\ End /\ GiveBack
        /\ UNCHANGED <<route, act, counts>>
     \/ StoreFails /\ Goto("mark") /\ UNCHANGED model
  /\ UNCHANGED <<file, previews, active, skipped>>

(* The intent stays pending when this fails too.                            *)
Mark ==
  /\ op.pc = "mark" /\ End /\ GiveBack
  /\ \/ /\ intents' = [intents EXCEPT ![op.rec.id] = Settled("required")]
        /\ route' = [route EXCEPT !.required = TRUE]
        /\ ConsumeToken /\ UNCHANGED <<act, counts>>
     \/ /\ counts.faults < MaxStoreFaults
        /\ counts' = [counts EXCEPT !.faults = @ + 1, !.unsettled = @ + 1]
        /\ UNCHANGED <<store, tokens, shown>>
  /\ UNCHANGED <<file, clients, active, skipped>>

-----------------------------------------------------------------------------
(* An ordinary write asks ensure_write_allowed first, which marks a drift;  *)
(* then the activation (module Activation) in its durable steps, the intent *)
(* first.  An unmanaged Codex file that holds Muxvia's fields is refused.   *)
Activate ==
  /\ op.pc = "idle" /\ counts.writes < MaxWrites /\ ~route.required /\ ~route.drift
  /\ ~route.managed /\ route.target = "codex" => file.owned < Muxvia(0)
  /\ IF route.managed /\ file.owned # route.desired
     THEN route' = [route EXCEPT !.drift = TRUE] /\ UNCHANGED <<act, op>>
     ELSE /\ op' = [Idle EXCEPT !.pc = "actWrite", !.before = file,
                                !.desired = Muxvia(counts.writes + 1)]
          /\ act' = [state |-> "pending", before |-> file, desired |-> op'.desired,
                     union |-> FALSE]
          /\ UNCHANGED route
  /\ Count("writes")
  /\ UNCHANGED <<file, tokens, clients, intents, server, shown>>

ActWrite ==
  /\ op.pc = "actWrite"
  /\ \/ /\ file = op.before
        /\ file' = [file EXCEPT !.owned = op.desired]
        /\ Goto("actCommit") \/ Goto("actUndo")
     \/ Goto("actUndo") /\ UNCHANGED file
  /\ UNCHANGED <<store, previews, server, counts>>

(* Codex hands on what was there before Muxvia.                             *)
ActCommit ==
  /\ op.pc = "actCommit"
  /\ \/ \E takeover \in {TRUE, route.takeover} :
          /\ route' = [route EXCEPT !.managed = TRUE, !.desired = op.desired,
                         !.takeover = takeover, !.revision = @ + 1,
                         !.before = IF route.managed /\ route.target = "codex" THEN @
                                    ELSE op.before]
          /\ act' = NoIntent /\ End
          /\ model' = IF takeover THEN "serving" ELSE model
          /\ skipped' = FALSE
     \/ Goto("actUndo") /\ UNCHANGED <<route, act, model, skipped>>
  /\ UNCHANGED <<file, intents, previews, active, counts>>

ActUndo ==
  /\ op.pc = "actUndo"
  /\ PutBack(act, act' = NoIntent /\ End, Goto("actMark") /\ UNCHANGED act)
  /\ UNCHANGED <<route, intents, previews, server, counts>>

ActMark ==
  /\ op.pc = "actMark" /\ End
  /\ act' = NoIntent /\ route' = [route EXCEPT !.required = TRUE]
  /\ model' = "none" /\ active' = 0
  /\ UNCHANGED <<file, intents, previews, skipped, counts>>

-----------------------------------------------------------------------------
Start ==
  /\ op.pc = "down" /\ Goto("recover")
  /\ UNCHANGED <<file, store, previews, server, counts>>

Pending == {n \in DOMAIN intents : intents[n].state = "pending"}

(* recover_pending_intents, row by row.                                     *)
Recover ==
  /\ op.pc = "recover"
  /\ \/ Pending = {} /\ Goto("actRecover") /\ UNCHANGED <<file, route, intents>>
     \/ \E n \in Pending :
          /\ UNCHANGED op
          /\ PutBack(intents[n],
                     intents' = [intents EXCEPT ![n] = Settled("rolledBack")] /\ UNCHANGED route,
                     /\ intents' = [intents EXCEPT ![n] = Settled("required")]
                     /\ route' = [route EXCEPT !.required = TRUE])
  /\ UNCHANGED <<act, previews, server, counts>>

(* reconcile_pending of the activation's journal.                           *)
ActRecover ==
  /\ op.pc = "actRecover"
  /\ \/ act.state = "none" /\ Goto("bootstrap") /\ UNCHANGED <<file, route, act>>
     \/ /\ act.state = "pending" /\ act' = NoIntent /\ UNCHANGED op
        /\ PutBack(act, UNCHANGED route, route' = [route EXCEPT !.required = TRUE])
  /\ UNCHANGED <<intents, previews, server, counts>>

(* bootstrap_committed_takeover_for: a committed takeover resumes if its    *)
(* file is the committed one and its port can be bound.                     *)
Bootstrap ==
  /\ op.pc = "bootstrap" /\ End
  /\ \/ route.managed /\ route.takeover /\ file.owned = route.desired
        /\ ~route.required /\ ~route.drift
        /\ model' = "serving" /\ skipped' = FALSE /\ UNCHANGED route
     \/ /\ skipped' = (route.managed /\ route.takeover) /\ UNCHANGED model
        /\ \/ UNCHANGED route
           \/ /\ skipped' /\ ~route.required /\ file.owned # route.desired
              /\ route' = [route EXCEPT !.drift = TRUE]
           \/ /\ skipped' /\ ~route.required /\ ~route.drift /\ route.target = "claude"
              /\ file.owned = route.desired /\ file.unrelated # route.before.unrelated
              /\ route' = [route EXCEPT !.required = TRUE]
  /\ UNCHANGED <<file, intents, act, previews, active, counts>>

(* The service is killed: tokens, sessions and the server are memory.       *)
Crash ==
  /\ Up /\ counts.crashes < MaxCrashes /\ Count("crashes")
  /\ op' = [Idle EXCEPT !.pc = "down"]
  /\ tokens' = [s \in Strategies |-> NoToken]
  /\ clients' = [c \in Clients |-> IF clients[c].pc = "idle" THEN NoClient ELSE Over]
  /\ shown' = [s \in Strategies |-> 0]
  /\ model' = "none" /\ active' = 0 /\ UNCHANGED skipped
  /\ UNCHANGED <<file, store>>

(* Slip: a server that drains still admits. *)
BeginWhileDraining ==
  /\ model \in {"serving", "draining"} /\ active < MaxRequests /\ active' = active + 1
  /\ UNCHANGED <<file, store, previews, model, skipped, op, counts>>

BeginRequest ==
  /\ model = "serving" /\ active < MaxRequests /\ active' = active + 1
  /\ UNCHANGED <<file, store, previews, model, skipped, op, counts>>

EndRequest ==
  /\ active > 0 /\ active' = active - 1
  /\ UNCHANGED <<file, store, previews, model, skipped, op, counts>>

EditOwned ==
  /\ counts.edits < MaxEdits /\ Count("edits")
  /\ file' = [file EXCEPT !.owned = counts.edits + 1]
  /\ UNCHANGED <<store, previews, server, op>>

EditUnrelated ==
  /\ counts.edits < MaxEdits /\ Count("edits")
  /\ file' = [file EXCEPT !.unrelated = counts.edits + 1]
  /\ UNCHANGED <<store, previews, server, op>>

Session(c) ==
  \/ \E s \in Strategies : Preview(c, s)
  \/ Disable(c) \/ Deliver(c) \/ RollbackPreview(c)
  \/ Apply(c)
Applying ==
  \/ Lock \/ Validate \/ Reserve \/ InsertIntent \/ Write \/ Commit \/ Stop
  \/ Complete \/ MarkCommitted \/ Rollback \/ Settle \/ Mark
Activating == ActWrite \/ ActCommit \/ ActUndo \/ ActMark
Starting == Start \/ Recover \/ ActRecover \/ Bootstrap
Operator == EditOwned \/ EditUnrelated

Next ==
  \/ \E c \in Clients : Session(c)
  \/ Applying \/ Activate \/ Activating \/ Starting \/ Crash
  \/ BeginRequest \/ EndRequest \/ Operator

Spec == Init /\ [][Next]_vars

(* The task at the gate is polled, requests end, a response is written or   *)
(* fails, and a service that was killed is started again.                   *)
Fairness ==
  /\ WF_vars(Applying \/ Activating \/ Starting) /\ WF_vars(EndRequest)
  /\ \A c \in Clients : WF_vars(Deliver(c) \/ RollbackPreview(c))
FairSpec == Spec /\ Fairness

-----------------------------------------------------------------------------
(* A preview whose response is lost does not cost the client the token it   *)
(* was shown before: what is registered is what was last shown.             *)
TokenIsLatestShown == \A s \in Strategies : ~Locked(s) => tokens[s].id = shown[s]

(* What the operator wrote into a managed file is written over only by       *)
(* applying the preview last shown, if it showed exactly that file, or once *)
(* it is adopted (ReconciliationRuntime's tokens, the compare of the write). *)
(* An intent left pending by a failed store write may undo it at any later   *)
(* start; two of them may each put back what the other one meant.            *)
Edited == 1 .. MaxEdits
Overwritten ==
  /\ counts.unsettled = 0
  /\ file'.owned # file.owned /\ file.owned \in Edited \ {route.desired, route.before.owned}
  /\ route.managed /\ ~EditOwned
ShownIsReplaced ==
  [][TokenIsLatestShown' /\ (Overwritten => op.pc = "write" /\ file = op.rec.seen)]_vars

(* With nobody at the gate, a managed file holds the committed fields       *)
(* unless the operator changed them; the server in the slot is that of a    *)
(* committed takeover, which is served unless the last start passed it      *)
(* over; no request outlives its server; and a Codex route, however often   *)
(* it was adopted, reapplied or replaced, can still be restored to what was *)
(* there before Muxvia.  An intent that could neither be settled nor marked *)
(* is left aside: it is undone at any later start.                          *)
RestIsCommitted ==
  /\ TypeOK
  /\ counts.unsettled = 0 /\ op.pc = "idle" =>
    /\ file.owned \notin Edited /\ ~route.required => file.owned = route.desired
    /\ model = "serving" => route.managed /\ route.takeover
    /\ route.managed /\ route.takeover /\ ~route.required => model = "serving" \/ skipped
    /\ model = "none" => active = 0
    /\ route.managed /\ route.target = "codex" => route.before.owned < Muxvia(0)

(* Whoever takes the gate gives it back: applying under two locks, draining *)
(* and a start over both journals end.                                      *)
GateIsReleased == op.pc # "idle" ~> op.pc = "idle"
=============================================================================
