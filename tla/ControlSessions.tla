--------------------------- MODULE ControlSessions ---------------------------
(***************************************************************************)
(* The sessions of the control server (control/server.rs).  A session      *)
(* reads one frame at a time; an action is carried through its receipt,    *)
(* its gate and its transaction before the next frame is read, while       *)
(* inspections run beside the loop.  What a session answers goes through a *)
(* bounded queue to a writer task of its own, which gives up on a client   *)
(* that does not read.  An action's identity may be sent again, on another *)
(* session or to the next service: its receipt is durable.                 *)
(*                                                                         *)
(* Frames are abstracted to what they ask and whom they answer.  Views and *)
(* their publication are TargetViews', what an action does to its Target   *)
(* or catalog is ProviderCatalog's, Activation's and Reconciliation's.     *)
(***************************************************************************)
EXTENDS Naturals, Sequences, FiniteSets

CONSTANTS
  Sessions,        \* slots for connections
  Actions,         \* identities of actions
  Kinds,           \* of sessions: Target, catalog, accounts
  Kind,            \* Actions -> the kind of session the action belongs to
  Disabling,       \* the actions that disable a takeover
  Inspections,     \* request identifiers of inspections
  Client,          \* Inspections -> the slot whose client uses the identifier
  None,
  Stop,            \* what handover and force stop ask for
  QueueCapacity,   \* frames between a session and its writer (32 in the code)
  MaxInspections,  \* inspections in flight per session (4 in the code)
  SendBound,       \* model bound on the actions sent
  ServiceBound     \* model bound on the services started

ASSUME SessionsAssumption ==
  /\ Kinds \subseteq {"target", "catalog", "accounts"}
  /\ Kind \in [Actions -> Kinds]
  /\ Client \in [Inspections -> Sessions]
  /\ Disabling \subseteq {id \in Actions : Kind[id] = "target"}
  /\ QueueCapacity \in Nat \ {0} /\ MaxInspections \in Nat
  /\ IsFiniteSet(Actions) /\ Actions \intersect Inspections = {}
  /\ None \notin Nat \union Sessions \union Actions \union Inspections \union {Stop, "idle"}
  /\ Stop \notin Actions \union Inspections \union {"idle"}

VARIABLES
  session,      \* slot -> where its task is
  outbox,       \* slot -> frames queued for its writer
  writer,       \* slot -> whether its writer runs
  inspection,   \* inspection -> its task
  completion,   \* disabling action -> its completion task
  gate,         \* the session that holds the Target's mutation gate
  reserved,     \* the session that holds the permit of the stop channel
  stopping,     \* the service was told to end: by its client, or idle
  revision,     \* durable: kind -> its management revision
  receipts,     \* durable: action -> the revision it committed
  expected,     \* the revision the client sends with the action
  told,         \* what clients were answered
  sends, services

tasks == <<session, outbox, writer, inspection, completion, gate, reserved>>

durable == <<revision, receipts>>

bounds == <<sends, services>>

vars == <<tasks, stopping, durable, expected, told, bounds>>

NoSession == [at |-> "none", opened |-> {}, job |-> None, owed |-> FALSE]

NoTask == [by |-> None, at |-> "idle"]

Init ==
  /\ session = [s \in Sessions |-> NoSession]
  /\ outbox = [s \in Sessions |-> <<>>]
  /\ writer = [s \in Sessions |-> FALSE]
  /\ inspection = [i \in Inspections |-> "none"]
  /\ completion = [id \in Disabling |-> NoTask]
  /\ gate = None
  /\ reserved = None
  /\ stopping = None
  /\ revision = [k \in Kinds |-> 0]
  /\ receipts = [id \in Actions |-> None]
  /\ expected = [id \in Actions |-> None]
  /\ told = {}
  /\ sends = 0
  /\ services = 1

At(s, places) == session[s].at \in places

(* The inspections of a session; those that ended count until its loop has  *)
(* heard of them.                                                           *)
Inspecting(s) == {i \in Inspections : Client[i] = s /\ inspection[i] # "none"}

InFlight(s) ==
  {i \in Inspecting(s) : inspection[i] \in {"running", "cancelled", "queued"}}

Completing(s) == {id \in Disabling : completion[id] = [by |-> s, at |-> "running"]}

(* The guards: what a session, an action and its completion are counted by. *)
ActiveSessions == {s \in Sessions : session[s].at # "none"}

PendingActions ==
  {s \in Sessions : session[s].job \in Actions}
    \union {id \in Disabling : completion[id].at = "running"}

(* A session has ended: when it was the last, no action is pending and no   *)
(* takeover requires the service, the service ends as well.                 *)
MayExitIdle(s) ==
  IF stopping = None /\ ActiveSessions = {s} /\ PendingActions = {}
  THEN {None, "idle"} ELSE {stopping}

-----------------------------------------------------------------------------
(* The queue of a session.                                                  *)

Room(s) == writer[s] /\ Len(outbox[s]) < QueueCapacity

Queued(s, who, what) == [outbox EXCEPT ![s] = Append(@, <<who, what>>)]

(* Leaving the loop: every inspection of the session is cancelled.          *)
Cancelled(s) ==
  [i \in Inspections |-> IF Client[i] = s /\ inspection[i] = "running"
                         THEN "cancelled" ELSE inspection[i]]

Break(s) ==
  /\ session' = [session EXCEPT ![s] = [NoSession EXCEPT !.at = "closing"]]
  /\ inspection' = Cancelled(s)

(* A frame nobody waits for: a session that cannot queue it closes.         *)
Reply(s, opened) ==
  IF Room(s)
  THEN /\ outbox' = Queued(s, None, "reply")
       /\ session' = [session EXCEPT ![s].opened = opened]
       /\ UNCHANGED inspection
  ELSE Break(s) /\ UNCHANGED outbox

(* An answer whose writing is awaited; it is lost at once without room.     *)
Ask(s, job, answer, owed) ==
  IF Room(s)
  THEN /\ outbox' = Queued(s, job, answer)
       /\ session' = [session EXCEPT ![s].at = "awaiting", ![s].job = job, ![s].owed = owed]
  ELSE /\ session' = [session EXCEPT ![s].at = "lost", ![s].job = job, ![s].owed = owed]
       /\ UNCHANGED outbox

-----------------------------------------------------------------------------
(* Connections.                                                             *)

Accept(s) ==
  /\ stopping = None
  /\ At(s, {"none"})
  /\ session' = [session EXCEPT ![s].at = "greeting"]
  /\ UNCHANGED <<outbox, writer, inspection, completion, gate, reserved,
                 stopping, durable, expected, told, bounds>>

(* A compatible Hello is acknowledged and the writer task takes over.       *)
Greet(s) ==
  /\ At(s, {"greeting"})
  /\ session' = [session EXCEPT ![s].at = "reading"]
  /\ writer' = [writer EXCEPT ![s] = TRUE]
  /\ UNCHANGED <<outbox, inspection, completion, gate, reserved,
                 stopping, durable, expected, told, bounds>>

(* The peer leaves, is another user, or sends no compatible Hello.          *)
Dismiss(s) ==
  /\ At(s, {"greeting"})
  /\ session' = [session EXCEPT ![s] = NoSession]
  /\ stopping' \in MayExitIdle(s)
  /\ UNCHANGED <<outbox, writer, inspection, completion, gate, reserved, durable, expected, told, bounds>>

(* The client leaves or a frame is unreadable: the session says so if it    *)
(* can, and closes.                                                         *)
Unreadable(s) ==
  /\ At(s, {"reading"})
  /\ Break(s)
  /\ \/ UNCHANGED outbox
     \/ Room(s) /\ outbox' = Queued(s, None, "reply")
  /\ UNCHANGED <<writer, completion, gate, reserved, stopping, durable, expected,
                 told, bounds>>

(* The service is told to end while the session waits for a frame.          *)
Interrupted(s) ==
  /\ At(s, {"reading"})
  /\ stopping # None
  /\ Break(s)
  /\ UNCHANGED <<outbox, writer, completion, gate, reserved, stopping, durable,
                 expected, told, bounds>>

-----------------------------------------------------------------------------
(* Frames a session answers at once.                                        *)

(* What is already open refuses some kinds and not others.                  *)
Refuses(opened, kind) ==
  CASE kind = "target"   -> "catalog" \in opened
    [] kind = "catalog"  -> "target" \in opened
    [] kind = "accounts" -> opened \intersect {"target", "catalog"} # {}

Open(s, kind) ==
  LET opened == session[s].opened IN
  /\ At(s, {"reading"})
  /\ kind \notin opened
  /\ Reply(s, IF Refuses(opened, kind) THEN opened ELSE opened \union {kind})
  /\ UNCHANGED <<writer, completion, gate, reserved, stopping, durable, expected,
                 told, bounds>>

Said(s) ==
  /\ At(s, {"reading"})
  /\ Reply(s, session[s].opened)
  /\ UNCHANGED <<writer, completion, gate, reserved, stopping, durable, expected,
                 told, bounds>>

(* A second Hello, an unknown or malformed operation.                       *)
Misuse(s) == Said(s)

(* Recovery backups: they run to their end before the session reads on, and *)
(* keep no receipt.                                                         *)
Operate(s) == Said(s)

(* Imports and exports of a Target's providers, likewise.                   *)
Transfer(s) == session[s].opened \intersect {"target", "catalog"} = {"target"} /\ Said(s)

(* A view that was published while the session has it open.                 *)
Push(s) == session[s].opened # {} /\ Said(s)

-----------------------------------------------------------------------------
(* Actions.                                                                 *)

Mine(s, id) ==
  /\ Kind[id] \in session[s].opened
  /\ ~Refuses(session[s].opened \ {Kind[id]}, Kind[id])

(* receipt_for: an action that was carried out once is answered from it.    *)
Receipted(id) == receipts[id] # None

(* The frame is read and the receipt looked up: an action that committed is *)
(* answered from its receipt, without gate or transaction.                  *)
Act(s, id) ==
  /\ At(s, {"reading"})
  /\ sends < SendBound
  /\ Mine(s, id)
  /\ sends' = sends + 1
  /\ expected' = [expected EXCEPT ![id] = IF @ = None THEN revision[Kind[id]] ELSE @]
  /\ IF Receipted(id)
     THEN Ask(s, id, "done", FALSE)
     ELSE /\ session' = [session EXCEPT
               ![s].job = id,
               ![s].at = IF Kind[id] = "target" THEN "locking" ELSE "deciding"]
          /\ UNCHANGED outbox
  /\ UNCHANGED <<writer, inspection, completion, gate, reserved,
                 stopping, durable, told, services>>

Lock(s) ==
  /\ At(s, {"locking"})
  /\ gate = None
  /\ gate' = s
  /\ session' = [session EXCEPT ![s].at = "deciding"]
  /\ UNCHANGED <<outbox, writer, inspection, completion, reserved,
                 stopping, durable, expected, told, bounds>>

(* Slip: only the look before the gate asks for the receipt. *)
VerdictOnce(id) ==
  IF expected[id] # revision[Kind[id]] THEN "stale" ELSE "applied"

(* The transaction looks for the receipt again before the revision.         *)
Verdict(id) ==
  IF Receipted(id) THEN "replayed"
  ELSE IF expected[id] # revision[Kind[id]] THEN "stale" ELSE "applied"

(* The change, the revision and the receipt are one transaction.            *)
Commit(id) ==
  /\ revision' = [revision EXCEPT ![Kind[id]] = @ + 1]
  /\ receipts' = [receipts EXCEPT ![id] = revision[Kind[id]] + 1]

(* One transaction, or a refusal: the write is not allowed, the declaration *)
(* not valid.  The gate is given back before the answer is queued; an       *)
(* applied disable owes its completion.                                     *)
Decide(s) ==
  LET id == session[s].job IN
  /\ At(s, {"deciding"})
  /\ gate' = IF gate = s THEN None ELSE gate
  /\ \/ /\ Verdict(id) = "applied"
        /\ Commit(id)
        /\ Ask(s, id, "done", id \in Disabling)
     \/ /\ Verdict(id) = "replayed"
        /\ Ask(s, id, "done", FALSE)
        /\ UNCHANGED durable
     \/ /\ Verdict(id) = "stale"
        /\ Ask(s, id, "stale", FALSE)
        /\ UNCHANGED durable
     \/ /\ Ask(s, id, "refused", FALSE)
        /\ UNCHANGED durable
  /\ UNCHANGED <<writer, inspection, completion, reserved,
                 stopping, expected, told, bounds>>

(* Slip: what a disable owes is started only when its answer was written. *)
SettleDelivered(s) ==
  /\ At(s, {"written", "lost"})
  /\ session[s].job \in Actions
  /\ completion' = IF session[s].owed /\ At(s, {"written"})
                   THEN [completion EXCEPT
                          ![session[s].job] = [by |-> s, at |-> "running"]]
                   ELSE completion
  /\ Break(s)
  /\ UNCHANGED <<outbox, writer, gate, reserved, stopping, durable, expected, told,
                 bounds>>

(* Written or lost, what a disable owes is started; only then does a        *)
(* session whose answer was lost close, or one that could not publish.      *)
Settle(s) ==
  /\ At(s, {"written", "lost"})
  /\ session[s].job \in Actions
  /\ completion' = IF session[s].owed
                   THEN [completion EXCEPT
                          ![session[s].job] = [by |-> s, at |-> "running"]]
                   ELSE completion
  /\ \/ /\ At(s, {"written"})
        /\ session' = [session EXCEPT ![s] =
             [NoSession EXCEPT !.at = "reading", !.opened = session[s].opened]]
        /\ UNCHANGED inspection
     \/ Break(s)
  /\ UNCHANGED <<outbox, writer, gate, reserved, stopping, durable, expected, told,
                 bounds>>

(* The completion has shut its model server down, or could not.             *)
Complete(id) ==
  /\ completion[id].at = "running"
  /\ completion' = [completion EXCEPT ![id].at = "done"]
  /\ UNCHANGED <<session, outbox, writer, inspection, gate, reserved,
                 stopping, durable, expected, told, bounds>>

(* Its session hears of it; one that could not publish closes the session.  *)
Reaped(s, id) ==
  /\ At(s, {"reading"})
  /\ completion[id] = [by |-> s, at |-> "done"]
  /\ completion' = [completion EXCEPT ![id] = [by |-> None, at |-> "done"]]
  /\ \/ UNCHANGED <<session, inspection>>
     \/ Break(s)
  /\ UNCHANGED <<outbox, writer, gate, reserved, stopping, durable, expected, told,
                 bounds>>

-----------------------------------------------------------------------------
(* Handover and force stop: a channel with room for one (the code has one   *)
(* of each kind, used alike).  Another is refused until it was received.    *)

AskStop(s) ==
  /\ At(s, {"reading"})
  /\ IF reserved # None \/ stopping # None
     THEN /\ Reply(s, session[s].opened)
          /\ UNCHANGED reserved
     ELSE /\ reserved' = s
          /\ Ask(s, Stop, "accepted", FALSE)
          /\ UNCHANGED inspection
  /\ UNCHANGED <<writer, completion, gate, stopping, durable, expected, told, bounds>>

(* The permit is used when the client was answered and given back when not. *)
SendStop(s) ==
  /\ At(s, {"written", "lost"})
  /\ session[s].job = Stop
  /\ stopping' = IF At(s, {"written"}) THEN Stop ELSE stopping
  /\ reserved' = None
  /\ Break(s)
  /\ UNCHANGED <<outbox, writer, completion, gate, durable, expected, told, bounds>>

-----------------------------------------------------------------------------
(* Inspections, a task each.                                                *)

Inspect(s, i) ==
  /\ At(s, {"reading"})
  /\ session[s].opened # {}
  /\ Client[i] = s /\ inspection[i] = "none"
  /\ IF Cardinality(Inspecting(s)) >= MaxInspections
     THEN Reply(s, session[s].opened)
     ELSE /\ inspection' = [inspection EXCEPT ![i] = "running"]
          /\ UNCHANGED <<session, outbox>>
  /\ UNCHANGED <<writer, completion, gate, reserved, stopping, durable, expected,
                 told, bounds>>

(* A request identifier that is in progress is asked again.                 *)
InspectAgain(s, i) ==
  /\ At(s, {"reading"})
  /\ i \in Inspecting(s)
  /\ Break(s)
  /\ outbox' = IF Room(s) THEN Queued(s, None, "reply") ELSE outbox
  /\ UNCHANGED <<writer, completion, gate, reserved, stopping, durable, expected,
                 told, bounds>>

Cancel(s, i) ==
  /\ At(s, {"reading"})
  /\ Client[i] = s /\ inspection[i] = "running"
  /\ inspection' = [inspection EXCEPT ![i] = "cancelled"]
  /\ UNCHANGED <<session, outbox, writer, completion, gate, reserved, stopping,
                 durable, expected, told, bounds>>

(* An inspection queues its answer and awaits its writing,                  *)
Answer(i) ==
  LET s == Client[i] IN
  /\ inspection[i] = "running"
  /\ \/ /\ Room(s)
        /\ outbox' = Queued(s, i, "inspected")
        /\ inspection' = [inspection EXCEPT ![i] = "queued"]
     \/ /\ ~Room(s)
        /\ inspection' = [inspection EXCEPT ![i] = "failed"]
        /\ UNCHANGED outbox

(* and one that was cancelled first ends without a word.                    *)
Silence(i) ==
  /\ inspection[i] = "cancelled"
  /\ inspection' = [inspection EXCEPT ![i] = "over"]
  /\ UNCHANGED outbox

Finish(i) ==
  /\ Answer(i) \/ Silence(i)
  /\ UNCHANGED <<session, writer, completion, gate, reserved, stopping, durable,
                 expected, told, bounds>>

(* The loop hears of an inspection that ended; one whose answer could not   *)
(* be written closes the session.                                           *)
Reap(s, i) ==
  /\ At(s, {"reading"})
  /\ Client[i] = s
  /\ \/ /\ inspection[i] = "over"
        /\ inspection' = [inspection EXCEPT ![i] = "none"]
        /\ UNCHANGED session
     \/ /\ inspection[i] = "failed"
        /\ Break(s)
  /\ UNCHANGED <<outbox, writer, completion, gate, reserved, stopping, durable,
                 expected, told, bounds>>

-----------------------------------------------------------------------------
(* The writer task.                                                         *)

Awaits(s, who) == At(s, {"awaiting"}) /\ who = session[s].job

Write(s) ==
  LET who == Head(outbox[s])[1]
      what == Head(outbox[s])[2]
  IN
  /\ writer[s] /\ outbox[s] # <<>>
  /\ outbox' = [outbox EXCEPT ![s] = Tail(@)]
  /\ told' = IF what \in {"done", "stale", "accepted"} THEN told \union {<<who, what>>} ELSE told
  /\ session' = IF Awaits(s, who) THEN [session EXCEPT ![s].at = "written"] ELSE session
  /\ inspection' = IF who \in Inspections
                   THEN [inspection EXCEPT ![who] = "over"] ELSE inspection
  /\ UNCHANGED <<writer, completion, gate, reserved, stopping, durable, expected, bounds>>

(* The queue is gone: whoever awaits the writing of a frame learns it.      *)
Dropped(s) ==
  /\ writer' = [writer EXCEPT ![s] = FALSE]
  /\ outbox' = [outbox EXCEPT ![s] = <<>>]
  /\ inspection' = [i \in Inspections |->
       IF Client[i] = s /\ inspection[i] = "queued" THEN "failed" ELSE inspection[i]]

(* Slip: the acknowledgement of a frame outlives the queue. *)
GiveUpQuietly(s) ==
  /\ writer[s] /\ outbox[s] # <<>>
  /\ Dropped(s)
  /\ UNCHANGED <<session, completion, gate, reserved, stopping, durable, expected,
                 told, bounds>>

(* The client has left, or did not read for as long as a frame may take.    *)
GiveUp(s) ==
  /\ writer[s] /\ outbox[s] # <<>>
  /\ Dropped(s)
  /\ session' = IF At(s, {"awaiting"}) THEN [session EXCEPT ![s].at = "lost"] ELSE session
  /\ UNCHANGED <<completion, gate, reserved, stopping, durable, expected, told, bounds>>

-----------------------------------------------------------------------------
(* A session ends: completions are awaited for as long as they take,        *)
(* inspections for 250 ms before the writer is taken from them, the writer  *)
(* for 250 ms more.                                                         *)

Overdue(s) ==
  /\ At(s, {"closing"})
  /\ Completing(s) = {}
  /\ InFlight(s) # {} /\ writer[s]
  /\ Dropped(s)
  /\ UNCHANGED <<session, completion, gate, reserved, stopping, durable, expected,
                 told, bounds>>

(* Nothing of a session is left.                                            *)
Gone(s) ==
  /\ session' = [session EXCEPT ![s] = NoSession]
  /\ outbox' = [outbox EXCEPT ![s] = <<>>]
  /\ writer' = [writer EXCEPT ![s] = FALSE]
  /\ inspection' = [i \in Inspections |->
       IF Client[i] = s THEN "none" ELSE inspection[i]]

End(s) ==
  /\ At(s, {"closing"})
  /\ Completing(s) = {} /\ InFlight(s) = {}
  /\ Gone(s)
  /\ stopping' \in MayExitIdle(s)
  /\ UNCHANGED <<completion, gate, reserved, durable, expected, told, bounds>>

(* Another service, after the last one ended or crashed: what was committed *)
(* and what clients were told stays.                                        *)
Restart ==
  /\ services < ServiceBound
  /\ services' = services + 1
  /\ session' = [s \in Sessions |-> NoSession]
  /\ outbox' = [s \in Sessions |-> <<>>]
  /\ writer' = [s \in Sessions |-> FALSE]
  /\ inspection' = [i \in Inspections |-> "none"]
  /\ completion' = [id \in Disabling |-> NoTask]
  /\ gate' = None /\ reserved' = None /\ stopping' = None
  /\ told' = {t \in told : t[1] \in Actions}
  /\ UNCHANGED <<durable, expected, sends>>

Step(s) ==
  \/ Lock(s) \/ Decide(s) \/ Settle(s) \/ SendStop(s) \/ Interrupted(s)
  \/ Overdue(s) \/ End(s)

Frames(s) ==
  \/ Accept(s) \/ Greet(s) \/ Dismiss(s) \/ Unreadable(s) \/ Misuse(s)
  \/ Operate(s) \/ Transfer(s) \/ Push(s) \/ AskStop(s)
  \/ \E kind \in Kinds : Open(s, kind)
  \/ \E id \in Actions : Act(s, id)
  \/ \E i \in Inspections : Inspect(s, i) \/ InspectAgain(s, i) \/ Cancel(s, i)

Writing(s) == Write(s) \/ GiveUp(s)

Hears(s) ==
  \/ \E id \in Disabling : Reaped(s, id)
  \/ \E i \in Inspections : Reap(s, i)

Next ==
  \/ \E s \in Sessions : Frames(s) \/ Step(s) \/ Writing(s) \/ Hears(s)
  \/ \E i \in Inspections : Finish(i)
  \/ \E id \in Disabling : Complete(id)
  \/ Restart

Spec == Init /\ [][Next]_vars

(* Clients greet or leave; tasks run; a frame is written or given up.       *)
Fairness ==
  /\ \A s \in Sessions : WF_vars(Greet(s) \/ Dismiss(s))
  /\ \A s \in Sessions : WF_vars(Step(s)) /\ WF_vars(Writing(s))
  /\ \A i \in Inspections : WF_vars(Finish(i))
  /\ \A id \in Disabling : WF_vars(Complete(id))

FairSpec == Spec /\ Fairness

-----------------------------------------------------------------------------
(* However often an action is sent, on whatever sessions and services: it   *)
(* commits at most once; a client that is told it was applied, now or       *)
(* before, can rely on its receipt; one that is told its revision is stale  *)
(* can rely on its not having been applied (apply_provider_action_for).     *)
(* And the service is only told to hand over or to stop once the client     *)
(* that asked has its answer, and the permit of a session that breaks       *)
(* before is free for the next (enqueue_written_response, permit.send).     *)
AnswersAreTrue ==
  /\ \A k \in Kinds :
       revision[k] = Cardinality({id \in Actions : Kind[id] = k /\ receipts[id] # None})
  /\ \A id \in Actions :
       /\ <<id, "done">> \in told => receipts[id] # None
       /\ <<id, "stale">> \in told => receipts[id] = None
  /\ stopping = Stop => <<Stop, "accepted">> \in told
  /\ reserved # None => session[reserved].job = Stop

(* A takeover whose disable committed is wound down by this service whether *)
(* or not the client waited for its answer, and no session ends over it     *)
(* (action_completions.spawn before the lost answer breaks the loop).       *)
DisablesComplete ==
  \A id \in Disabling :
    /\ completion[id].at = "running" => ~At(completion[id].by, {"none"})
    /\ (services = 1 /\ receipts[id] # None) =>
         \/ completion[id].at \in {"running", "done"}
         \/ \E s \in Sessions : session[s].owed /\ session[s].job = id

(* Nobody waits for ever: an action is answered or its session closes, and  *)
(* a session that closes, or whose service is told to end, ends - with a    *)
(* client that does not read, inspections in flight and completions to      *)
(* await (run_session's select loop, its drain and the bounded writer).     *)
Unsettled(s) ==
  \/ session[s].job # None
  \/ At(s, {"closing"})
  \/ stopping # None /\ ~At(s, {"none"})

SessionsSettle == \A s \in Sessions : Unsettled(s) ~> ~Unsettled(s)
=============================================================================
