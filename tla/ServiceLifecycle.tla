--------------------------- MODULE ServiceLifecycle ---------------------------
(* The lifetime of the Routing Service: the processes that compete for a      *)
(* Muxvia Home, the control server's accept loop with its idle exit, a force  *)
(* stop, a handover to another release by exec, and the Control Planes that   *)
(* connect or start the service (service/process.rs, service/handover.rs, the *)
(* lifecycle parts of control/server.rs, packages/control-plane/src/app.tsx). *)
(*                                                                            *)
(* A process holds the lock file from before it opens the store until it is   *)
(* gone; exec keeps it. The socket path names the process that bound it last. *)
(* The store and the model server are those of one Target: what the idle exit *)
(* asks about the other one are rows of the same kind.                        *)
EXTENDS Naturals, FiniteSets

CONSTANTS
  Processes,    \* service processes that can be spawned
  Clients,      \* Control Planes
  Nobody,         \* nobody
  MaxHandovers, \* bound: accepted handovers
  MaxCrashes,   \* bound: processes that are killed
  Deadlines     \* whether a Control Plane gives up at its readiness deadline

ASSUME DeadlinesAssumption == Deadlines \in BOOLEAN

(* The names the model gives to the absence of a process, to a channel that *)
(* no session holds and to the outcomes are nobody's.                       *)
ASSUME NamesAssumption ==
  /\ Nobody \notin Processes \cup {"handover", "stop", "idle"}
  /\ {"empty", "sent"} \cap Clients = {}
  /\ IsFiniteSet(Clients)

VARIABLES
  proc,         \* per process: where its run loop is
  lock,         \* the process that holds service.lock
  path,         \* the process that control.sock names
  server,       \* whether the model server of the lock's owner runs
  store,        \* of the Target: its takeover, what is reported, an unsettled intent
  loop,         \* accept loop: a session was accepted, ended sessions to reap
  channel,      \* the handover and force stop channels
  outcome,      \* what wait_for_lifecycle returned
  client,       \* per Control Plane: where it is, whether it spawned a service
  completing,   \* sessions whose disable still stops its model server
  counts        \* handovers and crashes

lifecycleVars ==
  <<proc, lock, path, server, store, loop, channel, outcome, client, completing, counts>>

FreshLoop == [accepted |-> FALSE, ended |-> 0]
FreshChannel == [handover |-> "empty", stop |-> "empty"]

(* What a Target View may report of a managed configuration: a drift and a   *)
(* required recovery block its writes, a start reports what it cannot resume. *)
Reports == {"drift", "recovery", "startup"}
Blocked == store.reports \cap {"drift", "recovery"} # {}

(* service_lifecycle_required *)
Required == store.takeover \/ store.pending \/ Blocked

Report(report) == [store EXCEPT !.reports = @ \cup {report}]
WithIntent == [store EXCEPT !.pending = TRUE]

(* What a start leaves in the store: a blocked Target stays as it is; another *)
(* is settled, found blocked, or reported as one that cannot be resumed.      *)
Recovered ==
  {s \in [takeover : {store.takeover}, reports : SUBSET Reports, pending : BOOLEAN] :
     /\ Blocked => store.reports \subseteq s.reports
     /\ s.pending => store.pending /\ s.reports # {}}

Serving(p) == proc[p] = "serving"
SessionClients == {c \in Clients : client[c].at \in {"session", "leaving"}}
QueuedClients == {c \in Clients : client[c].at = "queued"}
ClientAt(c, place) == client' = [client EXCEPT ![c].at = place]
Move(p, place) == proc' = [proc EXCEPT ![p] = place]

-----------------------------------------------------------------------------
(* Control Planes (connectOrStart). *)

Arrive(c) ==
  /\ client[c].at = "away"
  /\ ClientAt(c, "trying")
  /\ UNCHANGED <<proc, lock, path, server, store, loop, channel, outcome, completing, counts>>

Connect(c) ==
  /\ client[c].at = "trying"
  /\ path # Nobody /\ Serving(path)
  /\ ClientAt(c, "queued")
  /\ UNCHANGED <<proc, lock, path, server, store, loop, channel, outcome, completing, counts>>

(* No one listens: the Control Plane spawns the service, once, and retries. *)
SpawnService(c, p) ==
  /\ client[c].at = "trying" /\ ~client[c].spawned
  /\ ~(path # Nobody /\ Serving(path))
  /\ proc[p] = "unused"
  /\ Move(p, "acquiring")
  /\ client' = [client EXCEPT ![c].spawned = TRUE]
  /\ UNCHANGED <<lock, path, server, store, loop, channel, outcome, completing, counts>>

GiveUpWaiting(c) ==
  /\ Deadlines
  /\ client[c].at = "trying"
  /\ ClientAt(c, "over")
  /\ UNCHANGED <<proc, lock, path, server, store, loop, channel, outcome, completing, counts>>

-----------------------------------------------------------------------------
(* Sessions. *)

InSession(c) == client[c].at = "session" /\ c \notin completing

(* The Target's gate, which a disable holds until it is completed. *)
AtGate(c) == InSession(c) /\ completing = {}

(* An activation for takeover: its model server is bound before the store *)
(* commits it.                                                            *)
Activating(c) == AtGate(c) /\ ~Blocked

Enabled == [store EXCEPT !.takeover = TRUE]

(* Slip: a disable's completion does not hold the gate. *)
EnableAtOnce(c) ==
  /\ InSession(c) /\ ~Blocked
  /\ store' = Enabled
  /\ server' = TRUE
  /\ UNCHANGED <<proc, lock, path, loop, channel, outcome, client, completing, counts>>

Enable(c) ==
  /\ Activating(c)
  /\ store' = Enabled
  /\ server' = TRUE
  /\ UNCHANGED <<proc, lock, path, loop, channel, outcome, client, completing, counts>>

(* An activation that can neither commit nor be undone stops the model server *)
(* (mark_required); the store may fail to say so, and its intent stays.       *)
FailActivation(c) ==
  /\ Activating(c)
  /\ store' \in {Report("recovery"), WithIntent}
  /\ server' = FALSE
  /\ UNCHANGED <<proc, lock, path, loop, channel, outcome, client, completing, counts>>

(* A takeover that is committed when its new server turns out not to run      *)
(* (committed_handoff_recovery).                                              *)
FailHandoff(c) ==
  /\ Activating(c) /\ ~server
  /\ store' = [Enabled EXCEPT !.reports = @ \cup {"recovery"}]
  /\ UNCHANGED <<proc, lock, path, server, loop, channel, outcome, client, completing, counts>>

(* The same, when the store fails to record it. *)
LoseHandoff(c) ==
  /\ Activating(c) /\ ~server
  /\ store' = Enabled
  /\ UNCHANGED <<proc, lock, path, server, loop, channel, outcome, client, completing, counts>>

(* A write or a reconciliation that finds or leaves a Target in trouble and    *)
(* lets its server run.                                                       *)
FindTrouble(c) ==
  /\ AtGate(c)
  /\ store' \in {Report("drift"), Report("recovery"), WithIntent}
  /\ UNCHANGED <<proc, lock, path, server, loop, channel, outcome, client, completing, counts>>

(* Reapply writes the configuration anew and clears the drift; it starts no   *)
(* model server.                                                              *)
ReapplyConfiguration(c) ==
  /\ AtGate(c)
  /\ "drift" \in store.reports /\ "recovery" \notin store.reports
  /\ store' = [store EXCEPT !.reports = @ \ {"drift"}]
  /\ UNCHANGED <<proc, lock, path, server, loop, channel, outcome, client, completing, counts>>

Disabled == [store EXCEPT !.takeover = FALSE, !.reports = @ \ {"drift"}]

(* Restore and Adopt end a takeover; the idle server is stopped before the    *)
(* answer.                                                                    *)
Leave(c) ==
  /\ AtGate(c)
  /\ store.takeover /\ "recovery" \notin store.reports
  /\ store' \in {Disabled, [Disabled EXCEPT !.reports = @ \cup {"recovery"}]}
  /\ server' = FALSE
  /\ UNCHANGED <<proc, lock, path, loop, channel, outcome, client, completing, counts>>

(* A disable is answered when the store has committed it; its model server *)
(* is stopped by a completion that the session waits for.                  *)
Disable(c) ==
  /\ AtGate(c)
  /\ store.takeover /\ "recovery" \notin store.reports
  /\ store' = Disabled
  /\ completing' = {c}
  /\ UNCHANGED <<proc, lock, path, server, loop, channel, outcome, client, counts>>

(* A server that does not stop well is reported, if the store can. *)
CompleteDisable(c) ==
  /\ c \in completing
  /\ server' = FALSE
  /\ store' \in {store, Report("recovery")}
  /\ completing' = completing \ {c}
  /\ UNCHANGED <<proc, lock, path, loop, channel, outcome, client, counts>>

(* A handover or force stop reserves its channel, writes its answer, sends *)
(* and leaves; without the answer the reservation is dropped.              *)
Reserve(c, kind) ==
  /\ InSession(c)
  /\ channel[kind] = "empty"
  /\ kind = "handover" => counts.handovers < MaxHandovers
  /\ counts' = IF kind = "handover" THEN [counts EXCEPT !.handovers = @ + 1] ELSE counts
  /\ channel' = [channel EXCEPT ![kind] = c]
  /\ ClientAt(c, "leaving")
  /\ UNCHANGED <<proc, lock, path, server, store, loop, outcome, completing>>

AnswerReserved(c, kind) ==
  /\ channel[kind] = c
  /\ \E delivered \in BOOLEAN :
       channel' = [channel EXCEPT ![kind] = IF delivered THEN "sent" ELSE "empty"]
  /\ UNCHANGED <<proc, lock, path, server, store, loop, outcome, client, completing, counts>>

(* Slip: a session does not wait for its completions. *)
EndAtOnce(c) ==
  /\ client[c].at \in {"session", "leaving"}
  /\ \A kind \in DOMAIN channel : channel[kind] # c
  /\ ClientAt(c, "over")
  /\ loop' = [loop EXCEPT !.ended = @ + 1]
  /\ UNCHANGED <<proc, lock, path, server, store, channel, outcome, completing, counts>>

(* The session ends: its client left, or the server asked it to, and every *)
(* completion has been joined.                                             *)
EndSession(c) ==
  /\ client[c].at \in {"session", "leaving"}
  /\ c \notin completing
  /\ \A kind \in DOMAIN channel : channel[kind] # c
  /\ ClientAt(c, "over")
  /\ loop' = [loop EXCEPT !.ended = @ + 1]
  /\ UNCHANGED <<proc, lock, path, server, store, channel, outcome, completing, counts>>

-----------------------------------------------------------------------------
(* The process. *)

(* A second process exits with a lock collision. *)
Acquire(p) ==
  /\ proc[p] = "acquiring"
  /\ lock' = IF lock = Nobody THEN p ELSE lock
  /\ Move(p, IF lock = Nobody THEN "starting" ELSE "gone")
  /\ UNCHANGED <<path, server, store, loop, channel, outcome, client, completing, counts>>

(* Recovers, resumes a takeover about which there is nothing to report,   *)
(* replaces a stale socket and serves.                                    *)
Serve(p) ==
  /\ proc[p] = "starting"
  /\ store' \in Recovered
  /\ server' = (store'.takeover /\ store'.reports = {})
  /\ path' = p
  /\ loop' = FreshLoop
  /\ channel' = FreshChannel
  /\ outcome' = Nobody
  /\ Move(p, "serving")
  /\ UNCHANGED <<lock, client, completing, counts>>

(* A start that fails, as one whose takeover's port is taken, ends the process; *)
(* the lock goes with it. What it recovered stays.                              *)
FailToServe(p) ==
  /\ proc[p] = "starting"
  /\ counts.crashes < MaxCrashes
  /\ counts' = [counts EXCEPT !.crashes = @ + 1]
  /\ lock' = Nobody
  /\ Move(p, "gone")
  /\ store' \in Recovered \cup {store}
  /\ UNCHANGED <<path, server, loop, channel, outcome, client, completing>>

AcceptSession(p, c) ==
  /\ Serving(p)
  /\ outcome = Nobody /\ loop.ended = 0
  /\ client[c].at = "queued"
  /\ ClientAt(c, "session")
  /\ loop' = [loop EXCEPT !.accepted = TRUE]
  /\ UNCHANGED <<proc, lock, path, server, store, channel, outcome, completing, counts>>

(* should_exit_idle *)
Idle == loop.accepted /\ SessionClients = {} /\ completing = {} /\ ~Required

(* The listener is dropped with the connections no one accepted. *)
DropListener(p) ==
  /\ Move(p, "closing")
  /\ client' = [c \in Clients |->
       IF client[c].at = "queued" THEN [client[c] EXCEPT !.at = "over"] ELSE client[c]]

(* An ended session is joined before anything is accepted; the last one may *)
(* end the loop.                                                            *)
ReapSessions(p) ==
  /\ Serving(p) /\ outcome = Nobody
  /\ loop.ended > 0
  /\ loop' = [loop EXCEPT !.ended = @ - 1]
  /\ IF Idle THEN DropListener(p) ELSE UNCHANGED <<proc, client>>
  /\ UNCHANGED <<lock, path, server, store, channel, outcome, completing, counts>>

(* Slip: whichever branch is ready may be taken. *)
Unbiased(p) ==
  \/ channel.handover = "sent" /\ outcome' = "handover"
  \/ channel.stop = "sent" /\ outcome' = "stop"
  \/ proc[p] = "closed" /\ outcome' = "idle"

(* The branches of wait_for_lifecycle, in their order. *)
Biased(p) ==
  \/ channel.handover = "sent" /\ outcome' = "handover"
  \/ channel.handover # "sent" /\ channel.stop = "sent" /\ outcome' = "stop"
  \/ /\ channel.handover # "sent" /\ channel.stop # "sent"
     /\ proc[p] = "closed" /\ outcome' = "idle"

ChooseOutcome(p) ==
  /\ proc[p] \in {"serving", "closing", "closed"}
  /\ outcome = Nobody
  /\ Biased(p)
  /\ UNCHANGED <<proc, lock, path, server, store, loop, channel, client, completing, counts>>

(* request_shutdown: the accept loop takes the shutdown before anything else. *)
Shutdown(p) ==
  /\ Serving(p) /\ outcome # Nobody
  /\ DropListener(p)
  /\ UNCHANGED <<lock, path, server, store, loop, channel, outcome, completing, counts>>

(* Every session has been joined: the socket is removed, whoever it names. *)
Close(p) ==
  /\ proc[p] = "closing"
  /\ SessionClients = {}
  /\ path' = Nobody
  /\ Move(p, "closed")
  /\ UNCHANGED <<lock, server, store, loop, channel, outcome, client, completing, counts>>

(* Drains and stops the model servers, then hands over or exits. *)
StopModels(p) ==
  /\ proc[p] = "closed" /\ outcome # Nobody
  /\ server' = FALSE
  /\ Move(p, IF outcome = "handover" THEN "handing" ELSE "leaving")
  /\ UNCHANGED <<lock, path, store, loop, channel, outcome, client, completing, counts>>

(* Slip: the lock's descriptor is closed by exec. *)
ExecWithoutLock(p) ==
  /\ proc[p] = "handing"
  /\ Move(p, "starting")
  /\ lock' = Nobody
  /\ UNCHANGED <<path, server, store, loop, channel, outcome, client, completing, counts>>

(* exec: the candidate starts with the lock of this process, or it fails and *)
(* the run loop starts over; either way this process starts again.           *)
Exec(p) ==
  /\ proc[p] = "handing"
  /\ Move(p, "starting")
  /\ UNCHANGED <<lock, path, server, store, loop, channel, outcome, client, completing, counts>>

Exit(p) ==
  /\ proc[p] = "leaving"
  /\ lock' = Nobody
  /\ Move(p, "gone")
  /\ UNCHANGED <<path, server, store, loop, channel, outcome, client, completing, counts>>

(* The process is killed: the socket path stays behind, and so does the intent *)
(* of an activation or a reconciliation under way.                             *)
Crash(p) ==
  /\ proc[p] \notin {"unused", "gone"}
  /\ store' \in {store} \cup (IF lock = p /\ SessionClients # {} THEN {WithIntent} ELSE {})
  /\ counts.crashes < MaxCrashes
  /\ counts' = [counts EXCEPT !.crashes = @ + 1]
  /\ lock' = IF lock = p THEN Nobody ELSE lock
  /\ Move(p, "gone")
  /\ IF lock = p
       THEN /\ server' = FALSE
            /\ completing' = {}
            /\ channel' = FreshChannel
            /\ outcome' = Nobody
            /\ loop' = FreshLoop
            /\ client' = [c \in Clients |->
                 IF client[c].at \in {"queued", "session", "leaving"}
                   THEN [client[c] EXCEPT !.at = "over"] ELSE client[c]]
       ELSE UNCHANGED <<server, completing, channel, outcome, loop, client>>
  /\ UNCHANGED path

-----------------------------------------------------------------------------
LifecycleInit ==
  /\ proc = [p \in Processes |-> "unused"]
  /\ lock = Nobody /\ path = Nobody
  /\ server = FALSE
  /\ store \in [takeover : BOOLEAN, reports : {{}}, pending : {FALSE}]
  /\ loop = FreshLoop
  /\ channel = FreshChannel
  /\ outcome = Nobody
  /\ client = [c \in Clients |-> [at |-> "away", spawned |-> FALSE]]
  /\ completing = {}
  /\ counts = [handovers |-> 0, crashes |-> 0]

Run(p) ==
  \/ Acquire(p) \/ Serve(p) \/ ReapSessions(p) \/ ChooseOutcome(p) \/ Shutdown(p) \/ Close(p)
  \/ StopModels(p) \/ Exec(p) \/ Exit(p)
  \/ \E c \in Clients : AcceptSession(p, c)

LifecycleNext ==
  \/ \E c \in Clients :
       \/ Arrive(c) \/ Connect(c) \/ GiveUpWaiting(c)
       \/ \E p \in Processes : SpawnService(c, p)
       \/ Enable(c) \/ FailActivation(c) \/ FailHandoff(c) \/ LoseHandoff(c)
       \/ FindTrouble(c) \/ ReapplyConfiguration(c) \/ Leave(c)
       \/ Disable(c) \/ CompleteDisable(c) \/ EndSession(c)
       \/ \E kind \in {"handover", "stop"} : Reserve(c, kind) \/ AnswerReserved(c, kind)
  \/ \E p \in Processes : Run(p) \/ FailToServe(p) \/ Crash(p)

LifecycleSpec == LifecycleInit /\ [][LifecycleNext]_lifecycleVars

(* The runtime goes on with every task that can go on; a session whose server *)
(* shuts down ends; a Control Plane goes on trying.                           *)
LifecycleFairness ==
  /\ \A p \in Processes : WF_lifecycleVars(Run(p))
  /\ \A c \in Clients :
       /\ WF_lifecycleVars(CompleteDisable(c))
       /\ WF_lifecycleVars(\E kind \in {"handover", "stop"} : AnswerReserved(c, kind))
       /\ WF_lifecycleVars(EndSession(c) /\ (client[c].at = "leaving" \/ \E p \in Processes : proc[p] = "closing"))
       /\ WF_lifecycleVars(Connect(c) \/ \E p \in Processes : SpawnService(c, p))

LifecycleFairSpec == LifecycleSpec /\ LifecycleFairness

-----------------------------------------------------------------------------
States == {"unused", "acquiring", "starting", "serving", "closing", "closed",
           "handing", "leaving", "gone"}

(* Type invariant. *)
TypeOK ==
  /\ proc \in [Processes -> States]
  /\ lock \in Processes \cup {Nobody} /\ path \in Processes \cup {Nobody}
  /\ server \in BOOLEAN
  /\ store \in [takeover : BOOLEAN, reports : SUBSET Reports, pending : BOOLEAN]
  /\ loop.ended \in 0 .. Cardinality(Clients)
  /\ outcome \in {Nobody, "handover", "stop", "idle"}
  /\ client \in [Clients -> [at : {"away", "trying", "queued", "session", "leaving", "over"},
                             spawned : BOOLEAN]]
  /\ completing \subseteq Clients

(* The process that serves holds the home's lock and is the one the socket    *)
(* path names: no process that exits, starts or hands over takes the socket   *)
(* away from another (ServiceLock::acquire, remove_stale_socket and           *)
(* remove_socket_if_present, which look only at the path).                    *)
ServerIsReachable ==
  /\ TypeOK
  /\ \A p \in Processes : Serving(p) => lock = p /\ path = p

(* A committed takeover that is served by nobody, and nothing tells of it.    *)
SilentlyUnserved ==
  /\ \E p \in Processes : Serving(p)
  /\ store.takeover /\ ~server
  /\ store.reports = {} /\ ~store.pending

(* A takeover has its model server, or its view or an unsettled intent tells  *)
(* why not: after a start, a handover and an exec that failed alike, and      *)
(* whatever activations, disables and their failures do.  The code has two    *)
(* ways into a takeover that nobody serves and nothing tells of, and no third *)
(* (bootstrap_committed_takeovers, mark_required, committed_handoff_recovery, *)
(* complete_disable_takeover): a Reapply clears the drift with which the      *)
(* takeover was started without a server, and the store fails to record a     *)
(* handoff that failed.                                                       *)
TakeoversAreServed ==
  [][SilentlyUnserved' =>
       SilentlyUnserved \/ \E c \in Clients : ReapplyConfiguration(c) \/ LoseHandoff(c)]_lifecycleVars

(* A handover whose answer was written is handed over: the idle exit of the   *)
(* session that asked for it does not end the process instead                 *)
(* (wait_for_lifecycle's order).                                              *)
HandoverIsKept ==
  [][\A p \in Processes :
       proc[p] = "leaving" /\ proc'[p] = "gone" /\ outcome = "idle"
         => channel.handover # "sent"]_lifecycleVars

(* A service that nothing requires leaves: when the last session and its last *)
(* completion are over and no Control Plane comes, the process does not stay  *)
(* behind (should_exit_idle is only asked when a session is joined).          *)
IdleServiceLeaves ==
  \A p \in Processes :
    (Serving(p) /\ Idle /\ QueuedClients = {}) ~> (~Serving(p) \/ SessionClients \cup QueuedClients # {})
=============================================================================
