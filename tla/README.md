# Muxvia: models, checks and proofs

Muxvia routes the requests of two agent programs, Codex and Claude Code (the
*Targets*), to model providers. A Rust service (`crates/routing-service`) owns
the routing state and the Targets' configuration files; a TypeScript terminal
program (`packages/control-plane`) attaches to it over a control socket. This
directory holds TLA+ models of the program, TLC runs on small instances and
TLAPS proofs of what matters for every instance. Paths below are relative to
the repository; `rs/` stands for `crates/routing-service/src/`.

## 1. The system

| component | code | state it keeps | operations |
|---|---|---|---|
| Route health | `rs/model/router.rs` | one circuit per Target and provider, permits of attempts in flight; memory only, one service epoch | admit, success, failure, drop of a permit |
| Request router | `rs/model/router.rs`, `rs/model/commitment.rs`, `rs/model/messages.rs`, `rs/state/store.rs` | the pinned Route Plan and the position of each request; durable route health, Serving Provider, view sequence | pin a plan, scan its members, classify outcomes, commit a response, record observations, publish the Target View |
| Model server | `rs/model/server.rs`, `rs/model/request_recorder.rs` | the admission word (a draining bit and a count), recorder queue permits, server task | reserve idle, drain, resume, commit a shutdown, admit a request, record its end |
| Activation | `rs/service/activate.rs`, `rs/config/managed_file.rs`, `rs/state/recovery.rs`, `rs/state/store.rs`, `rs/codex/config.rs`, `rs/claude/config.rs` | Activated Snapshot, Recovery Snapshot, recovery journal, the Target's configuration file, the Target's model server | direct activation, takeover, disable takeover, switch provider, recover after a crash |
| Reconciliation | `rs/service/reconcile.rs`, `rs/service/reconciliation_adapter.rs`, `rs/state/reconciliation.rs` | observations of drift, an attempt's phase, its runtime reservation | observe, propose, apply, roll back, resume after a crash |
| Service lifecycle | `rs/service/process.rs`, `rs/service/handover.rs`, `rs/control/server.rs`, `rs/home.rs` | the service lock, connected sessions, the lifecycle request | start, idle exit, explicit shutdown, handover to a candidate binary |
| Control sessions | `rs/control/server.rs`, `rs/control/protocol.rs`, `packages/control-plane/src/control/*` | target views and their sequence, action receipts, subscribers | attach, run an action, push a view, detach, reconnect |
| Providers | `rs/state/providers.rs`, `rs/state/store.rs`, `rs/service/route_plan.rs` | declared providers, generated providers, failover draft and order | create, edit, delete, reorder, apply a route plan |
| Universal providers | `rs/state/universal_providers.rs`, `rs/service/provider_synchronization.rs` | one declaration fanned out to Targets | edit, synchronise, detach, delete |
| Subscription accounts | `rs/subscription/*`, `rs/state/subscription_accounts.rs` | refresh tokens, access leases, device authorizations | authorise, refresh, invalidate, remove |
| Subscription bridge | `rs/subscription_bridge/mod.rs` | the translation state of one stream | translate a request, translate a stream of events |
| Usage and history | `rs/request_history.rs`, `rs/native_usage.rs`, `rs/state/request_records.rs`, `rs/state/usage.rs` | request records, native scan cursors, daily rollups, prices | begin, finish, reconcile, scan, retain, price |
| Provider transfer | `rs/service/provider_transfer.rs`, `rs/state/provider_transfer.rs`, `rs/service/cc_switch_migration.rs` | an export, a parsed import and its preview | export, preview, commit, migrate |
| Recovery backup | `rs/service/recovery_backup.rs` | archive directories and their manifest | create, verify, restore |
| Store schema | `rs/state/migrations.rs` | the schema version | migrate |
| Inspectors | `rs/service/provider_inspector.rs`, `rs/*/probe.rs`, `rs/probe_process.rs` | none | discover models, check reachability, probe versions |
| Terminal interface | `packages/control-plane/src/ui/*`, `packages/control-plane/src/commands/*` | overlays, forms, selection | render, edit, dispatch commands |
| Packaging | `scripts/*`, `rs/release_bundle.rs`, `packages/control-plane/src/release-bundle.ts` | bundle manifests | build, verify, install |

### What is hard about it

* *Requests interleave.* Every `await` of a routed request (building the
  attempt, sending it, priming the response) lets other requests change the
  circuits, the plan and the view under it; a client that disconnects drops its
  handler at any of them.
* *Two durable things change together.* The store and a Target's configuration
  file are no transaction: an intent with what the file held is stored first,
  and a failure or a kill between any two steps is undone from it.
* *The operator is a second writer.* An editor saves the configuration file
  between any two system calls, through an open handle or by a rename.
* *Late things arrive.* Outcomes of attempts admitted in an earlier phase of a
  circuit, observations made under a plan that is gone, views that were
  overtaken, intents of an earlier start of the service.
* *Stopping waits for work.* A model server is stopped only when its requests
  are over, and is given back when the stop fails; a session ends only when what
  it started is over; the process leaves only when the last session has.
* *Commands come twice.* A client that lost an answer sends its action again, on
  another session or to the next process; the receipt, the revision and the gate
  decide together what it is told.
* *One thing is kept in several places.* A Universal Provider and the providers
  generated from it, the account file and its staged copy, the session logs and
  the cursors over them, a backup and the home it was taken of.

### What makes each component correct

| component | properties |
|---|---|
| Route health | a provider is excluded only on evidence and never for good; a probe slot that is taken has an owner |
| Request router | members are attempted at most once, in plan order; the answer is the one the observed outcomes explain; every attempt is one permit of the circuits |
| Target views | health does not regress; no Serving Provider without a plan; a client never goes back and misses no published view |
| Model server | a stop completes only when no request is in the server and none of its records is unstored; a client reads one attempt's response; the record says what the client saw |
| Subscription bridge | whatever the upstream sends, the client reads a well-formed stream |
| Activation | at rest file and store agree, a takeover has its model route, what Muxvia wrote is journalled, what the operator wrote is kept, what was there before Muxvia can be restored |
| Configuration files | no failure and no crash loses what the replacement displaced; a failed write leaves nothing behind |
| Reconciliation | only what was shown is replaced; two journals of one file do not undo each other; the gate is given back |
| Service lifecycle | one service per home, reachable through its socket; a takeover without its model server is told of; an answered handover happens; a service nobody needs leaves |
| Control sessions | an action commits once and its answers are true; a committed disable is completed; nobody waits for ever |
| Providers, Universal Providers, Provider transfer | a route names providers that exist, credentials are exactly those in use, generated providers and both views of them agree, views move when they change, gates are taken in one order |
| Subscription accounts | the file at rest is the committed one; a late refresh records and condemns nothing; answers are true across restarts |
| Recovery backup | a backup is one moment; a restore's answer is what it did; one failure is rolled back |
| Usage and history | a line that an import is past is counted, and once; a record belongs to the database it is in |

## 2. Plan

The order follows what would hurt most: requests that are not served, then files
that are lost, then what is told to clients.

| step | modules | state |
|---|---|---|
| 1 | `Circuit`, `RouteHealth` | done, proved in `RouteObservationsProofs` |
| 2 | `RequestRouter`, implementing `RouteHealth`; `RequestRouterProofs` | done |
| 3 | `ViewStore` (abstract); `RouteObservations` implementing it and `RouteHealth`, `RouteObservationsProofs`; `TargetViews` on top of it, proved there | done |
| 4 | `DrainGate` (abstract); `ModelAdmission` implementing it; `ModelRequests`, the requests behind it; `ModelRequestsProofs` of both | done |
| 5 | `ManagedFile`; `Activation`, `ActivationProofs` | done |
| 6 | `Reconciliation`, composed with the journal of an activation over one file; `ReconciliationProofs` | done |
| 7 | `SubscriptionAccounts`, proved in `FileProofs` | done |
| 8 | `ServiceLifecycle`; `ControlSessions`; `ServiceProofs` of both | done |
| 9 | `ProviderCatalog`: providers, Universal Providers, drafts, plans, imports; `ProviderCatalogProofs` | done |
| 10 | `HomeData`: backup and restore, schema steps, usage and history; proved in `ServiceProofs` | done |
| 11 | `CodexDocument`, `ClaudeSettings`: the configuration documents below the owned and unrelated fields of step 5; `FileProofs` of these and of `ManagedFile` | done |

Left to do: the readiness of a staged model server start. Every safety property of the
runs is a theorem; their liveness stays with TLC (section 6).

## 3. Modules and code

One action is one atomic step of the code: what runs between two awaits, one
system call, or one transaction of the store. `PROJECT.json` gives the lines of
every definition. Operators commented `Slip:` are deliberate mistakes, used to
see that a property notices them; no specification uses them.

**`Circuit`** – pure functions of one circuit (`CircuitState`): `Admitted`,
`Succeeded`, `Failed`, `Released`, each the critical section of one call under
the runtime's mutex. Time is a flag: the open period has elapsed or not.

**`RouteHealth`** – `circuits`, `permits`. `Admit`, `Succeed`, `Fail`, `Abandon`
are `admit`, `success`, `failure` and the drop of `RouteAttemptPermit`;
`Elapse` is the minute of the open period; `Restart` the loss of all circuits.

**`RequestRouter`** – `route_pinned_plan`: `Begin` pins the active plan,
`AdmitMember`, `SkipMember` and `Exhaust` are the scan, `FailOver`, `Terminate`,
`Commit`, `CommitFailure`, `RetryableStatus` and `Reject` the outcomes of an
attempt (a build that fails, a transport failure, a response that fails before
its commitment or has a retryable status, a semantic failure), `Cancel` a client
that leaves. `Apply` and `Disable` replace the active plan. Contents of requests
and responses are reduced to those outcomes.

**`ViewStore`** – what readers of the store rely on: a change of what a Target
View shows takes the next sequence.

**`RouteObservations`** – routed requests with the circuits, the store and the
service epoch: `Begin`, `Attempt`, `CountSuccess`, `CountFailure`, `Relay` and
`Leave` are one request's attempts and their observations, `Record` the handler's
call, `Persist` the merge in the store's thread
(`record_route_observations_for`), late, out of order or never; `Apply`,
`Activate`, `Disable` change the plan and `Reopen` takes a new service epoch. A
failure that is committed to the client (`CountCommittedFailure`) is counted against the
circuit, ends the scan, and makes its Provider the serving one, as its response has a
success status. The order in which a scan takes the members is left to `RequestRouter`.

**`TargetViews`** – `published` is the store's last published sequence, `sessions` the
session tasks (their broadcast receiver, request under way and outbox), `clients`
the `TargetSession` of the Control Plane. `Write` and `PublishWritten` are a
routed request; `Act`, `PublishActed`, `Answer`, `Acknowledge` an
action and its deferred publication; `Refuse` an action that is refused, whose view is
read at once, answered later, and published once the answer is written where the code
says so (a drift, a recovery, a shadow, a compatibility that must be acknowledged);
`Forward` a push; `Open` a refresh;
`Deliver` and `ReceivePush` the client's event loop; `Disconnect` a client that leaves.
A view is its sequence, `committed` the durable `view_sequence`.

**`DrainGate`**, **`ModelAdmission`** – the admission word, one atomic access per
action: `Admit`/`Refuse` and `End` of a request, `TryReserveIdle`,
`BeginDraining`, `Resume`, `Commit` of whoever stops the server, `Check` and
`Await` of `wait_until_drained` with the `Notify` permit between them. `Shutdown` is
the stop signal, with a reservation or without one: the service leaves, a backup is
restored, a rollback or a failed handoff drops the server. Without one no bit is set,
and a connection that is there may still bring a request, so the gate is then `ending` and
not `closing`; `Stopped` is behind the last connection and the recorder's end. A handle
that is dropped (`rs/model/server.rs:507`) is a `Shutdown` for which nobody waits: its
connections and its recorder outlive the handle and end in the same way, and the server
bound next has a word, a queue and requests of its own. Kills of the process
are `Activation`'s and `HomeData`'s.

**`ModelRequests`** – extends `ModelAdmission` with what each admitted request does
until its record is stored. `work` is the handler and then the response body:
`ReadBody`, `PassOver`, `Terminate`, `Send`, `FailTransport`, `Respond…` and
`Exhaust` route it over its members; `PrimeEvent`, `PrimeEnd`, `PrimeBreak`,
`PrimeLimit` and `Collect` are the commitment that reads a prefix of the stream
before the client gets any of it; `PollPrefix`, `PollUpstream`, `PollEnd`,
`PollError`, `FailBridge`, `EndUpstream` the body the client polls: the bridge turns an
event into up to three outputs and hands out one per poll (`PollOutput`), so a client may
leave between two of them; `Leave…` and
`Drop…` a client that goes away at any await, in the order the values are dropped.
`wire` is what a client of the bridge has read, and `Read` judges it as an
Anthropic reader would (it belongs to the property, not to the code). `Store` and
`StopServer` are the recorder's task and the server's end. Usage is taken from any event
of a successful response that may carry it, a native `message_start` as well as the end,
and is recorded however the stream ends; whether an event `told` it is the upstream's
choice. A chunk is one event;
recording the observations is `RouteObservations`'; a body that is collected whole
(JSON, compressed) is, on the bridge, one event it cannot read, as in the code.

**`ManagedFile`** – `replace_with_mode`, a system call per action, with `target` and
`temporary` the two directory entries; `Open`, `SaveInPlace`, `SaveByRename` and
`Remove` are the operator's editor, `Crash` a kill of the service. Every call may
fail.

**`CodexDocument`** – no state: documents and pure functions of them, as
`rs/codex/config.rs` has them. A document is the model, the selected provider, the
owned fields of every provider table, what stands beside them, and the rest. `Owned`,
`Unrelated` and `SelectedRestore` capture it (`Snapshot`); `ApplyOwned`,
`ApplyRestore` and `OrRemoved` write it; `RestoreUnion`, `RestoreUnionMatches` and
`UndoRestoreUnion` are a Restore, its verification and its way back. A management is
a document with the committed fields and the bound Recovery Snapshot: `Started`,
`Switched`, `Adopted`, `Reapplied`, `Restored` and `Edited` take it on, and `Activation`
and `Reconciliation` say when. A value is what it means and how it is written, since
some comparisons of the code ask for one and some for the other.

**`ClaudeSettings`** – the same for the settings of Claude (`rs/claude/config.rs`): what
`env` holds, the other members, and how the text is laid out. `WriteOwned` inserts `env`
into the text, removes it again, or writes the file anew; `TakenBack` is
`restore_or_confirm_before` and `ReconcileOne` what a start makes of an intent whose
snapshot went through the store (`Stored`). `OwnedKeys` is what either version of a home
owns. `PreflightPasses` and `ObservedShadows` are the two walks over the settings that
stand beside the user's; that two places may be one file, and what is no JSON, are left
out of them.

**`Activation`** – one Target. `op` is what holds its gate: an activation
(`Preflight`, `Candidate`, `InsertIntent`, `Apply`, `Verify`, `Commit`,
`Handoff`, and on failure `Restore`, `Settle`, `Require`, `HandoffFailed`) or the
start of the service (`NextPending`, `Reconcile`, `SettleStartup`,
`RequireStartup`, `Bootstrap`). A file is its owned fields and the rest of it; a
replacement is one step here, since `ManagedFile` answers for it. `touched` and
`original` are history variables.

**`Reconciliation`** – one Target whose file has drifted. `tokens` is the map of
`ReconciliationRuntime`, `shown` what each client's last preview showed; `Preview`,
`Deliver` and `RollbackPreview` are a preview, its written response and the lost
one; `Lock`, `Validate`, `Reserve`, `InsertIntent`, `Write`, `Commit`, `Stop`,
`Complete` and `Rollback`, `Settle`, `Mark` an application of any strategy (adopt,
reapply, restore, replace) and Disable Takeover with its completion, which drains
the model server of `active` requests. `Act…` is an activation reduced to its
journal; a start recovers both journals over the one file, in the code's order.

**`ProviderCatalog`** – the tables of both Targets: `rows` (providers), `creds`,
`universals`, `ucreds`, `route` (current, snapshot, plan, revision, sequence),
`draft`, `planned` (credentials plans still name), `catalog`, and the Target
`gate`s. Actions of one Target are one transaction each; what takes gates
(synchronise, update or delete a Universal Provider, activate, confirm an import)
is issued, locks gate by gate, and commits or refuses. Two seeds start it: a home
with a provider and a declaration, and the same one generated and routed. Repeated
actions are `ControlSessions`', and a stale single-Target action is a refusal
without effect and left out. A declaration, a model and a secret are one value each;
`UpdateUniversal` changes one thing at a time.

**`SubscriptionAccounts`** – `doc`, `staged`, `row`, `catalog`, `receipts` are
durable; `job` holds the coordinator's gate and goes through `Stage`, `Begin`,
`WriteFile`, `Commit`, `Unstage`, or `UndoWrite` and `MarkUndone`; it is begun by a
client's action (`Apply`), a refresh (`ReadAccount`, `Refresh`, `RecordRefresh`,
the first two outside the gate) or a device authorization (`Grant`, `Cancel`,
`RecordAuthorization`). `Recover…` are the branches of `recover_pending_intents`;
`EditOutside`, `LoseStaged`, `ProcessStops` and failing writes the troubles. `live` is the
authority: a refresh token is accepted once.

**`ServiceLifecycle`** – the processes that compete for a home: `proc` is each
one's place in `run`'s loop (`Acquire`, `Serve`, `FailToServe`, `AcceptSession`, `ReapSessions`,
`ChooseOutcome`, `Shutdown`, `Close`, `StopModels`, `Exec`, `Exit`), `lock` and `path` the
lock file and the name of the socket, `client` the `connectOrStart` of each Control
Plane. `store` is what the store says of one Target, enough for
`service_lifecycle_required` (`Required`) and for a start: its takeover, the reports of
its view (a drift, a required recovery, a problem of the last start) and an unsettled intent.
`server` is its model server. `Enable`, `FailActivation`, `FailHandoff`, `LoseHandoff` are
an activation that commits, that can neither commit nor be undone, and whose committed
takeover's server does not run, told of or not; `FindTrouble` what a write or a
reconciliation finds or leaves behind; `ReapplyConfiguration` clears a drift and starts
nothing; `Leave`, `Disable` and `CompleteDisable` end a takeover. A start settles or
reports (`Recovered`) and gives a server to a takeover of which there is nothing to
report; a port that is taken fails the start.

**`ControlSessions`** – `run_session`: `Greet`/`Dismiss`, frames that are answered at
once (`Open`, `Misuse`, `Operate`, `Transfer`, `Push`), actions (`Act`, `Lock`,
`Decide`, `Settle`, `Complete`), inspections beside the loop (`Inspect`,
`InspectAgain`, `Cancel`, `Finish`, `Reap`), stops (`AskStop`, `SendStop`), the
writer task (`Write`, `GiveUp`) and the end of a session (`Overdue`, `End`).
`Restart` ends the service; receipts and revisions survive it. One stop channel
stands for the two of handover and force stop; inspections that panic are left out.

**`HomeData`** – the whole home as data: `db` (revisions, drift, recovery, plans,
records, the usage ledger, its schema version), `file`s of the accounts and each
Target, `backups`, session `logs`. `BeginBackup`, `CopyDatabase`, `InstallBackup`
are a backup; `BeginRestore`, `ShutdownModels`, `ReservePorts`, `RestoreDatabase`,
`ApplyFile`, `VerifyFiles`, `ResumeTakeovers` a restore, the same steps over the
pre-restore backup its way back; `MigrationStep` and `Start` a start, `Killed` a kill
at any step; `ScanFiles`, `ImportScan`, `SetRetention`, `ClearUsage`,
`ReplaceCatalog` the ledger; `BeginRequest`, `FinishRequest`, `RecordRequest` the
recorder's queue across a restore. A change of a piece (`Change`) is one step: how
file and store change together is `Activation`'s.

## 4. Runs

| run | question | bounds |
|---|---|---|
| `RouteObservations` | Are circuits and durable health sound, in any order of observations, under any plan, after a restart; is a provider never excluded for good; are `RouteHealth` and `ViewStore` implemented? | 2 requests, 1 provider, limits 2 of 4, 2 probes, 2 plans, 1 restart, 3 views |
| `RequestRouter` | Is the answer explained by what was observed, and is the router an implementation of `RouteHealth`? | 2 requests, 2 providers, limit 1, 3 counted attempts per circuit |
| `TargetViews` | Does no client go back, and does it get every published view? | 1 session, 2 writers, channel of 2, 4 views |
| `ModelRequests` | Is a client's stream one answer, is it recorded as it was read, is nobody admitted behind a reservation, and does the server end, and a drain, only behind the requests? | a bridged member with a native one behind it (2 items, 2 blocks, bridged streams of any length, 2 native events, a prefix of 2), and a native one whose stream ends at once; a queue of 2 |
| `ManagedFile` | What can a replacement lose or leave behind? Is what Muxvia does to either Target's document undone? | 3 saves; 91 original documents with two tables of the operator's, up to two adoptions; settings with 6 names |
| `Activation` | Do file, journal, store and model route agree when the dust settles, and does it? | both Targets, 4 commands, 3 activations, 1 edit, 1 crash, 1 store fault at any of six steps |
| `Reconciliation` | Is only what was shown replaced, do two journals over one file agree, is the gate given back? | both Targets, 2 previews, 1 activation, 1 edit, 1 crash, 1 store fault, 1 request |
| `ProviderCatalog` | Do references, credentials, generated providers and views stay consistent over all transactions, and do requests for gates never wait for each other? | 2 requests, 3 providers per Target, 2 Universal Providers, 1 secret, 5 commits (the two requests may go past them) |
| `SubscriptionAccounts` | Is the file the committed one, is every answer true, does a late refresh do no harm, does a start settle? | 2 accounts, 2 requests, 1 action, 1 authorization, 3 tokens, 2 intents, 3 troubles |
| `ServiceLifecycle` | Who serves, is a takeover served or told of, is a handover kept, does an idle service leave? | 2 processes, 2 Control Planes, 2 handovers, 2 crashes or failed starts |
| `ControlSessions` | Does an action commit once, can answers be relied on, are disables completed, does nobody wait for ever? | 2 sessions, 2 actions of one Target, 1 inspection, a queue of 1, 2 sends, 2 services |
| `HomeData` | Is a backup one moment, a restore's answer true, the ledger exact? | 2 Targets, 1 log of 2 lines, 2 days, a recorder queue of 1, 4 changes, 2 faults |

The second question of `ManagedFile` has no behaviours: TLC evaluates the named
assumptions of `MCManagedFile` over every document of the instance. `TakeoverIsUndone`:
after a takeover a Restore gives the file back to the letter. `RestoreIsVerified`: what a
Restore plans passes its own verification, and undoing it gives back what was observed,
also after adoptions. `OneAdoptionIsUndone`, `TwoAdoptionsAreNotUndone` and
`AdoptedAsWritten` say how far that goes when the operator's own table is adopted
(section 7). For Claude, `SettingsAreTakenBack` and `CrashesAreTakenBack` follow a write
and a kill on either side of it, `AdoptedSettings` and `SettingsAreRestored` a
reconciliation, and `ShadowsAgree` compares the two walks.

`Circuit`, `RouteHealth`, `ViewStore`, `DrainGate` and `ModelAdmission` have no run
of their own: `RouteObservations` and `ModelRequests` are built on them, check
their invariants and show that they implement them.

*Why the bounds suffice.* Both ways of opening a circuit occur in
`RouteObservations` (two failures in a row, half of four attempts), and two requests
make every pair that races for a probe; the theorems cover any limits and numbers.
`RequestRouter` opens a circuit at the first failure so that a second request meets
every phase during its scan. In `TargetViews` a channel of two lags after a single
missed view, as the code's does after 32. In `ModelRequests` one request meets a
failover from the bridge to a native member and two blocks, of two items, that are
open together; the other is there for the admission and the recorder, which is all
that requests share. Any finite set of requests and any number of blocks and events
is proved. In `ManagedFile` one save can fall before the exchange, one after it and
one into the rollback. In `Activation` three activations make one that replaces a
replaced route, and the edit, the crash and the fault fall at every step of each. In
`Reconciliation` the second preview supersedes the first, and each journal can hold
an intent at the crash. In `ProviderCatalog` five commits reach declare, generate,
route, edit and delete from the seeds, and two gate takers are what two lock orders
need. Three troubles in `SubscriptionAccounts` are a crash during the recovery of a
failed undo. In `ServiceLifecycle` two processes are an old and a new one and two
clients one that is served and one that is in the backlog, holds the gate meanwhile
or spawns; any number of either is proved, but for the idle exit. In
`ControlSessions` a queue of one is full behind one unread answer (32 in the code),
and the second service sees what was sent to the first. In `HomeData` one fault must
be survived and two may require recovery. Symmetry is used in `ProviderCatalog` (for
its requests) and `SubscriptionAccounts` (for accounts and requests), which have no
liveness property.

Where a run says `CHECK_DEADLOCK FALSE` the bounded behaviours end: replacements
are over, changes, views, sends or activations are used up, and in
`ServiceLifecycle` the last process has left.

## 5. Fairness

* `RouteObservations`: time passes (`Cool`), and an attempt in flight
  ends. The second is an assumption about the environment: the upstream client
  sets a connect timeout only (`rs/model/upstream.rs`), so an upstream that
  accepts and stays silent ends when it or the client gives up. The scan's own
  steps are those of a running task.
* `TargetViews`: handlers, session tasks and the client's event loop run; clients
  and requests need not come or stay.
* `ModelRequests`: a client does not wait for ever in an exchange that does not
  end (nothing else ends it), what was dropped is dropped, the recorder's task runs
  and whoever drains is polled. Nobody has to stop the server, and no upstream has to
  answer.
* `Activation`: what holds the gate goes on, and the service is started again after
  a kill. Requests, edits, failures and kills are not fair.
* `Reconciliation`: the same, and requests in the model server end (a drain waits
  for them), and a response is written or fails.
* `ServiceLifecycle`: the runtime's tasks run; a session that was asked to end ends;
  a Control Plane that tries goes on trying. No client has to come, leave or stop
  the service.
* `ControlSessions`: a connected client greets or leaves, tasks run, and a frame is
  written or given up. The first is an assumption the code does not enforce (section 7).

`RequestRouter`, `ProviderCatalog`, `SubscriptionAccounts`, `HomeData` and
`ManagedFile` claim safety only.

## 6. Proofs

Every theorem below is for any value of the constants that the assumptions at the end
of this section allow. Each invariant was checked by TLC on the instance of its run
before it was proved.

`RouteObservationsProofs` – first of `RouteHealth` alone, for any thresholds, providers
and attempts. The invariant is `TypeOK`, `CircuitInv` of every circuit and `ProbeOwned`.
`CircuitInv` is the conjunction of the three statements about one circuit, inductive
because each function of `Circuit` keeps it (one lemma each); it carries
`CountersAreCoherent` and `CircuitsFollowEvidence`, which need each other: that a closed
circuit is below the limit and an excluded one has its evidence follows only if the
counters are coherent. `ProbesAreOwned` relates circuits and permits: an outcome of any
other attempt that leaves the circuit half-open and refusing leaves the probe's permit
where it was. `HealthStaysSound` states them together, in the form the runs check.

Then of the composition, for any requests, plans and restarts. `RefinesRouteHealth`:
every step maps to a step of `RouteHealth`, so all that is proved of it holds of the
circuits here. `OTypeCorrect` types the requests and the durable rows. `NeverRegresses`
is an action property over the store: a row of the current epoch is replaced only by an
observation that counted more attempts. `ObservationsStaySound` needs a strengthening,
`SInv`: the health of a row is sound because the row is an observation, an observation is
a circuit at the moment it was made, and (`Counted`) what a request carries of the
current epoch never counted more than the circuit it was made of has counted since.
`Implementation`: a step changes what the view shows if and only if it takes the next
sequence, so the store implements `ViewStore`.

And of `TargetViews`, for any sessions, recording requests and capacities of the two
queues: `ClientsStayAhead`. Outcomes and refusals are installed without a look at their
sequence, so that a client does not go back is a statement about everything on the way to
it. `Sound` says of a session and its client that the view that answers an action is at
least all the client holds, has in a timer or has in its outbox, from the commit until it
is installed (`DecisionIsLast`): nothing is pushed while an action is answered, so nothing
follows the answer, and what was pushed before was committed before. A lagging receiver
drops from its front, which keeps what is left in order (`Increasing`). `VInv` is `Sound`
of every session.

`RequestRouterProofs` – for any plans and concurrent requests. `AnswersAreExplained`:
the invariant says of each request that the scan is at a member of its plan or behind
the last one (`InPlan`), that what it observed is of the members it passed, in plan
order (`InOrder`), and that the local variables the answer is
built from are what these observations say (`Remembers`, `Explained`).
`RoutesAsHealthSays` shows each step to be one of `RouteHealth` or a stutter, an
attempt's permit being a function of its request. The bound `AttemptBound` is in the
guards of both, so the mapping needs `RoomToTry`: the attempts counted plus those the
plans under way can still make never exceed it.

`ModelRequestsProofs` – first of `ModelAdmission`, for any finite set of requests.
`WordIsExact`: the word is twice the number of active requests plus the bit, whose
argument is the cardinality of the set when one request enters or ends. From it
`Implementation`: every step is a step of `DrainGate` or leaves it alone; that the
drained check saw an empty server follows from the word being the bit alone. What the
gate shows of a server that was told to stop depends on the bit (`Shown`): with it the gate
goes on closing, without it it is ending, open to what its connections bring. Then of the
handlers. `RecordsStay` needs `SInv`: the stage of a request says whether it is
active, the recorder's permits that are free, held and queued add up to its capacity, and
a stopped server has all of them free and no request. `RequestsImplementGate` composes two
mappings: a handler's step is a step of `ModelAdmission` or stutters, and that implements
`DrainGate`. `AnswersAreOneAttempt` is the part of `ClientReadsOneAnswer` that needs no
reader: what a client got, the prefix that was kept and what one attempt sent line up
(`Aligned`) through retries, cuts and cancellations. `ClientsReadOneAnswer` is the whole:
the stream of a bridged response is not remembered, only where its reader is, so an
invariant over bridge and reader takes the place of an induction over the stream. `Reads`
says that while a message is open, the blocks its reader has open are those the bridge
keeps (`Blocks`), each under an index of its own below `next_index` (`IndexesAreOwn`); that
no index was started that the bridge did not give out, and none of a reasoning block whose
start is still to be written (`IndexesAreTold`); and that a bridge that is done left its
reader at the end of a message or at an error. Each event writes at most three, so what the
reader makes of them is computed step by step (`ReadAllIs`), and one lemma per event shows
that it `Goes` on so. `RecordsTellStreams` needs of a response that was committed for its
failure that the client will see one: until the bridge is done, the failure is still the
last of what was kept, behind events that start a message or fail it (`Doomed`), and
none of these makes the bridge complete a message; and of usage, that it was taken from an
event that was passed on. `Faithful` is both, with what they need
of the locals of a handler; TLC checked it as an invariant of the run before it was proved.

`ActivationProofs` – `OriginalStaysBound`: for Codex, the payload bound to the
committed route holds the operator's original fields through any number of
activations, rollbacks, edits, store failures and kills. The invariant adds that the
operation under way has a *pending* intent, which therefore is not the bound one,
which is committed: only a commit may rebind, and it hands the old payload on. For
Claude the commit does not, and the statement fails (section 7).
`FileStaysAccountedFor` and `EditsStayKept` need the journal in the invariant
(`Journal`): at most one intent is pending, and where every outcome was stored
(`counts.unsettled = 0`) a pending intent's *before* is what is committed, the file is
what the operation's place says it is, and a blocked Target has its intent on record.
Without that condition `WritesAreJournalled` is false for two activations and a store
that fails in between: an intent that stayed pending is undone by the next start over
what was committed after it (section 7). `FileIsAccountedFor` claims it there only;
`EditsAreKept` has no such condition.

`ReconciliationProofs` – for any previews, activations, edits, kills and failed stores.
`RestStaysCommitted` and `ShownStaysReplaced` share one invariant of four parts. Of the
registrations (`TokensInv`): a token is of one strategy for good, and who registered one
that was not shown yet, or applies one, holds that strategy's lock, so a lost response
puts back exactly what was shown before. Of the gate (`OperationInv`): until its commit
the route is the one the client was shown, so what is applied is still what the strategy
means. Of the model server (`ServerInv`): at each place of an application the server is
in its slot, reserved or draining as the takeover it leaves requires. Of the files
(`JournalInv`): at most one intent of the two journals is pending, what it would put back
was there, and the file holds an edit of the operator's, what is committed, or what that
intent was to write. The last part holds where every outcome was stored
(`counts.unsettled = 0`), and both properties are claimed there: of two intents left
pending, each may put back at a later start what the other one meant. TLC finds that
with four previews (adopt, reapply, restore, adopt), two edits, two failed stores and a
kill, an instance larger than the run's; the attempt to prove `ShownIsReplaced` without
the condition led to it.

`FileProofs` – of `CodexDocument`, for any tables, values and ways of
writing them. `TakeoverKeepsUnrelated`: what is captured after a takeover is what was
written beside what was there. `RestoreIsVerified`: the verification that follows a
Restore never refuses the Restore's own plan; the argument takes what clearing two tables
in either order leaves (`WithoutUnrelated`, `RestoreUnionParts`). `BoundTo` says that a
management still knows the file it began with, and `ManagementStaysBound` that every step
keeps it; from it `RestoreGivesBack` says exactly what comes back: the model, the
selection and the table owned at that moment. That no other table is touched is part of
the statement, and why two adoptions are not undone.

Of `ClaudeSettings`, for any names, entries and members. `WriteIsVerified` and
`WriteIsTakenBack`: a write passes its verification, and taking it back restores every
name and, where the operator had no `env`, the text; the case of a missing file needs that
what is written owns at least one name, or the file would not be told from the one
before. `CrashIsSettled` adds the journal, under the condition that no owned name held
null. `ShadowsAreRefused`: an activation that passes has no shadow a reconciliation shows.

Of `ManagedFile`, for any number of saves: `ReplacementStaysHonest`. The two names never
lead to one file (`Apart`); until the rename Muxvia's file has only its temporary name
(`Unnamed`); what was displaced is the file the rename moved away, or that file with a save in
it (`Displacing`); each result is tied to what the names lead to (`Results`); and `Kept`
says for each step where the operator's file is as long as nobody saves again: back at
the path, beside it, or replaced by consent of the caller, who had read it.

Of `SubscriptionAccounts`, for any accounts, requests, actions and bounds, all four
properties from one invariant. `GateInv` says who may hold the coordinator's gate and
whose the staged file is, `PhaseInv` what each phase of a mutation may rely on, `FileInv`
that the file at rest is the committed one. The difficulty is the edit from outside: a
mutation undone after one would bring back what was before the edit, so until it commits
its intent is *anchored* (`Anchored`): what it would be undone to is the committed
document, or the file was edited when it still was that document and bears a mark no mutation
writes (`Marked`, and `Foreign` for the mutations), which tells the recovery that it is
neither of the two documents it knows. `AccountsRestCommitted` and `StartsSettle` follow.
For `LateRefreshesRecordNothing`, a job of a request still has before it the record the
request had read (`JobShape`), and `TokenInv` follows all tokens that are held anywhere, in
a file, a mutation or the hands of a request: they were issued, and one that is condemned
is no longer accepted. For `AnswersStayTrue`, `CallerInv` ties the receipts to the phase of
the job, and `FlowInv` says that the token of an authorization whose commit never began is
held nowhere; the provers must be told that a nonempty set of bounded numbers has a
largest one (`Largest`) to know which account follows a deleted default.

`ServiceProofs` – first of `ServiceLifecycle`, for any processes and Control Planes.
`ServerStaysReachable` rests on `LockIsHeld`: a process holds the lock from before it
opens the store until it is gone; from it `OneServer`. Sessions end before their process does
(`SessionsAreServed`), and while a completion stops a model server nothing requires one
(`CompletionsBelong`). `HandoversAreKept` adds the accounting of the accept loop: ended
sessions are sessions that are over (`EndedAreOver`), a reserved channel keeps the session
that will answer (`ChannelsBelong`), and once the idle exit is chosen no session is left
that could ask for a handover (`IdleIsLast`). `TakeoversStayServed` is shown of each
step from the same invariant: a completion that stops a model server stops none that an
activation has put there meanwhile (`CompletionsBelong`), the server of the home is
stopped for good only by the process that held its lock (`LockIsHeld`), and whoever serves
after a start has given the takeover its server or a report.

Then of `ControlSessions`, for any connections, actions, inspections and size of the
queues. `AnswersStayTrue` follows an answer from the decision to the client: it is true
when it is queued (`QueuedIsTrue`), still true when it is read (`ToldIsTrue`), because
receipts stay and a revision that went by does not come back, so a *stale* is stale for
good; `CommitsOnce` says that a revision is the number of receipts of its kind.
`PermitIsHeld` and `StopIsAnswered` say the same of a stop: who reserved it is answered
before it is sent. `DisablesAreCompleted` needs that a completion runs in a session that
greeted and that a committed disable has one or is owed it (`DisablesRun`).

And of `HomeData`, for any Targets in any order, logs, limits and schema steps: its four
properties from one invariant, `HomeInv`. What it says of a database it says of every one
the home still has: the one in use, those in backups and those an operation carries
(`HeldDatabases`), since a restore may put any of them in place. `PlansInv`: each knows
the plans its records name, and what is being served or waits in the recorder's queue
belongs to the one in use; with `DrainInv`, that nothing is served or queued from the end
of the drain until the takeovers resume, that outlasts the replacement, which is
`RecordsStayBelonging`. `LedgerInv`: each ledger counts its lines, and no cursor, nor the
scan under way (`ScanInv`), is past what the log holds, so an older ledger that comes back
finds its lines again: `LinesStayCounted`. `MomentInv` is the argument of `create_locked`:
while a backup is copied files only move to versions that are new, so if they are at
the end what they were at the beginning, they were that at the copy:
`BackupsAreOneMoment`. `RestoreInv` ties what a stage has applied to the artifact it
applies and counts what went wrong: on the way back one thing did, and a piece
that is not what it should be is one thing more; `AnswersTellHome` follows at the end of
either way.

`ProviderCatalogProofs` – for any requests, contents, secrets and numbers of rows.
Targets and the catalog commit one at a time, so a property of the whole has to survive
every state between two commits: the invariant is one of the books (`BooksOK`), of the
routes (`RoutesExist`) and of the gates (`GatesInv`). The credentials of a Target are
exactly those its rows and plans name. A generated provider keeps the revisions it was
generated from (`Owned`); its source's revisions only grow, and while they are equal so is
what they stand for. `ReferencesStay` and `GeneratedStaysSource` follow. `WaitsAreOrdered`
follows from `HeldInOrder`: a request that holds a gate and wants another holds Codex's
and wants Claude's, so of any set of waiting requests the one that wants Claude's waits
for one that waits for nobody. The lemmas they share say what appending, replacing and
removing a row does to a sequence of keyed rows. `ViewsStayFresh` is shown of each step
from the same invariant, along with it (`ViewsFresh`). What a view shows of a generated
provider depends on its source, which lives in another table: a step that touches the
source must either move the sequence or leave what is shown, and the second
needs that an outdated provider never looks current again, that is, that the revisions
of a source only grow and a provider was generated from one it had (`InStep`). What the
catalog shows apart from the references by active plans (`CatalogContent`) moves its
sequence; where only those change, the step is one that gives a Target a new plan
(`OnlyReplanned`).

Assumptions are those named in the modules: `CircuitAssumption`, `RouteHealthAssumption`,
`PermitAssumption`, `RouterAssumption`, `ObservationsAssumption`, `RequestsFinite`,
`RequestsAssumption`, `TargetsAreKnown`, `ActionsAreActivations`, `BoundsAreNumbers`,
`MaxSavesAssumption`, `KeysAssumption`, `ValuesAssumption`, `TextsAssumption`,
`NamesAssumption` (of `ClaudeSettings` and of `ServiceLifecycle`), `DeadlinesAssumption`,
`SessionsAssumption`, `CatalogAssumption`, `ReconciliationAssumption`,
`CallersAssumption`, `BoundsAssumption`, `ViewsAssumption`, `PiecesAssumption` and
`LimitsAssumption`. They say that
sets are finite where they are counted, that bounds are numbers, that the order of
Targets names each once, that an older schema is one the migrations know and that the
marks for "none" are not among the values; TLC evaluates them.

Model-checked only is all liveness (`PublishedViewsArrive`, `IntentsSettle`,
`GateIsReleased`, `IdleServiceLeaves`, `DrainEnds`, `EventuallyAdmissible`,
`SessionsSettle`): the provers have no rules for fairness or
enabledness.

## 7. Where code and documents disagree, and what else was met

These were met while modelling. The models follow the code, and the properties
claim what holds of it. Those of the first group were counterexamples of TLC to
the sentence of the document; the others come from reading.

*Routing.*
* A success of an attempt admitted before the circuit opened frees the probe slot
  of a half-open circuit whose probe is still out, so that two may be in flight; in the
  same way it may close an open circuit without any probe.
* `docs/superpowers/specs/2026-08-20-failover-route-health-design.md:52` spares a
  Provider's health the errors of the request; `rs/model/router.rs:401` counts a request
  no member could be built for (`rs/model/messages.rs:243`, `:271`) as a failure of
  that member.
* A view is published by the handler that committed it, so a handler dropped between
  the two leaves other sessions on the old view until the next publication;
  `TargetViews` claims delivery of published views only.
* A client that leaves before there is a response leaves no Request Record, though
  `docs/superpowers/specs/2026-08-21-request-records-pricing-design.md:31` has one for
  every request. A bridged stream that ended in the bridge's own error event, and a
  native one cut off by the upstream after its commitment, are recorded as a success.
* `response.in_progress` and `response.queued` may precede a commitment
  (`rs/model/commitment.rs`), but the bridge refuses them afterwards; a successful
  response that is JSON or compressed is committed on the bridge and then always
  converted into an error.

*Files.*
* An editor's save between the exchange of the names and the look at the installed
  file (`rs/config/managed_file.rs:356`) is rolled back into the temporary name and
  deleted with it, while the call reports that nothing was written; compare
  `docs/superpowers/specs/2026-08-16-configuration-drift-reconciliation-design.md:192`
  ("so a preview never overwrites a changed unrelated document").
* A second Claude activation binds the first one's output as what Restore puts back
  (`rs/service/activate.rs:125`; line 160 of the same document). `OriginalIsBound` is
  the statement for both Targets and `CodexOriginalIsBound` the half that holds.
* An intent that a start could not settle stays pending while the service serves;
  the start after that undoes what was committed since (`rs/codex/config.rs:1016`;
  `docs/superpowers/specs/2026-08-13-codex-takeover-walking-skeleton-design.md:197`).
  `RestIsCommitted`, `ShownIsReplaced` and `WritesAreJournalled` are therefore claimed
  where no outcome was left unstored.
* A drifted takeover is passed over at a start (`rs/service/activate.rs:1099`), and
  reapplying it clears the drift without starting its model server (`CONTEXT.md:119`);
  hence `skipped` in `Reconciliation`. A handoff that failed is not told of when the store
  fails to record it (`rs/service/activate.rs:1738`). These are the two exceptions of
  `TakeoversAreServed`: a committed takeover nobody serves until the next activation
  or start, and nothing shows it.
* After two adoptions with a takeover between them, a Restore selects the table adopted
  first and leaves it pointing at the model server that is gone: the second adoption
  replaces how the first table is to be given back (`rs/codex/config.rs:375`; line 160 of
  the reconciliation design: "reconstructs the pre-Muxvia state"). The assumption
  `TwoAdoptionsAreNotUndone` finds such a file.
* An adopted table that is written in the operator's own style, or whose URL is not in
  the normal form, is managed, but every later activation answers `recovery-required`:
  `rs/service/activate.rs:1585` compares what it builds again with what was recorded as it
  is written (`AdoptedAsWritten`). For Claude the same holds of the URL.
* An owned name of Claude's `env` that holds JSON's null is captured as null and journalled
  as absent (`rs/claude/config.rs:101`, an optional value): a kill before the file is
  written then requires recovery although nothing was changed (`CrashesAreTakenBack`), and
  settings that are adopted with it have drifted as soon as that is committed
  (`AdoptedSettings`).
* A Restore of Claude's settings never removes a file that Muxvia made
  (`rs/service/reconciliation_adapter.rs:192`), and after an adoption or a reapplication
  the file counts as the operator's; an empty object is left (`SettingsAreRestored`).
* When a project's `.claude` directory is a link to the user's, an activation takes
  Muxvia's own output for a shadow and refuses, while a reconciliation shows none: it
  passes the file over unless the file itself is the link
  (`rs/claude/config.rs:449`; `ShadowsAgree`).

*Lifecycle and sessions.*
* A Control Plane that finds the socket closed while the old process still holds the
  lock spawns a service that loses the lock, and never spawns another
  (`packages/control-plane/src/app.tsx:409`; `docs/adr/0014` line 5). It may give up at
  its deadline although nobody serves (`GiveUpWaiting`).
* A client that connects and never greets (`rs/control/server.rs:877` waits without a
  limit) makes an explicit shutdown, a handover and a forced stop wait for ever;
  `SessionsSettle` assumes that clients greet or leave.
* The refusal of an action on a drifted Target races its own first sending: a repeated
  action that finds no receipt, and then finds the drift recorded after the first one
  committed, is refused with `configuration-drift` although it was applied
  (`apply_provider_action_for` looks for the receipt again only behind that check; the
  failover apply looks in both places). `AnswersAreTrue` therefore speaks of "applied" and
  "stale", not of refusals.
* `read_frame` (`rs/control/framing.rs:26`) is polled beside other branches of the
  session's select and is not safe to drop in the middle of a frame; a session then
  closes with `frame-invalid`. While an action is carried out, a session neither reads
  nor hears of a shutdown. What is open refuses other kinds asymmetrically (`Refuses`).
  Inspections that ended count against their limit until the loop has heard of them.

*Accounts and catalogs.*
* A crash between the replacement of the account file and the commit of a refresh goes
  back to the token the authority has rotated; the account then needs a new
  authorization.
* The catalog view shows which generated providers the activated plan refers to
  (`rs/state/universal_providers.rs:1677`), but what decides whether its sequence moves
  leaves those references out (`:1683`), and applying a failover plan does not look at all
  (`rs/state/store.rs:2390`). Clients that drop views whose sequence did not grow keep the
  old references until something else changes; `ViewsAreFresh` says that these are all that
  may be old (`OnlyReplanned`).
* Of two requests that refresh one token, the one the authority rejects may record first:
  the account is marked, and the other's rotated token is dropped with its result.
  `LateRefreshRecordsNothing` is about the other order.

*Home.*
* A kill during a restore leaves database and files of different moments, and no
  journal of it (`docs/adr/0021` line 3); `AnswerTellsHome` is about restores that answer.
  That a failed restore could not record that recovery is required is ignored.
* A backup taken while a Target has drifted or needs recovery cannot be restored, and a
  restore begun in such a home cannot be rolled back (`Unservable`).
* Transactions outside the gates that commit between the pre-restore backup and the
  restoring of the database are lost, also when the restore is rolled back.
* A Codex log that is archived after its lines were rolled up is read again and counted
  twice (`CONTEXT.md`, "imported incrementally"); `LinesAreCounted` leaves archived logs
  out of "once".
* Publication is reset only by a restore that succeeds, and clients ignore lower
  sequences of the same epoch.

## 8. Not modelled

`PROJECT.json` lists every component with its status. Left out for good are
components without interleaved state: the inspectors, the terminal interface beyond
its session state, packaging; of the schema migrations the SQL of each step. Parsing,
formatting, price arithmetic and the translation of request bodies appear as outcomes
only. Of modelled components:

* Activation: compatibility probes, the three-field legacy of Claude, and the shape
  checks of a store that was edited by hand (`rs/state/store.rs:2789` on).
* Model server: the task's status word, its staged start, the limit of a request's body.
* Subscription accounts: the cache of access tokens, the polling interval and the
  sequence that orders published account views.
* Service lifecycle: the second Target, whose rows are of the same kind; the port and the
  configuration of a model server are `Activation`'s.
* Control sessions: in the instance, sessions of the catalog and of the accounts and
  more than one inspection in flight do not occur (they are defined); the contents of
  frames and pushes (`TargetViews`).
* Home: paging of history, prices of single requests, damaged archives, rollups migrated
  from older schemas, the reset of device authorizations; a database of an older schema
  is empty when it is opened.
* Composition: each module stands for the others by the part of their state it shares
  (the gate, the journal, the revision); there is no model of all of them at once.
