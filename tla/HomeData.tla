------------------------------ MODULE HomeData ------------------------------
(***************************************************************************)
(* The data of one Muxvia home and what may be done to it as a whole:      *)
(* Recovery Backups and restores (service/recovery_backup.rs), the usage   *)
(* ledger that request recorders, scans of the Target CLIs' session logs,  *)
(* retention, clearing and price updates write with no gate at all         *)
(* (native_usage.rs, state/usage.rs, state/request_records.rs), and the    *)
(* opening of a database of an older schema (state/migrations.rs).         *)
(*                                                                         *)
(* A piece of the home is a target's Managed Configuration or the account  *)
(* file; db.rev holds the version of each piece the database committed and *)
(* file the version on disk, 0 standing for a piece that does not exist.   *)
(* A configuration or account change is one step here: Activation and      *)
(* SubscriptionAccounts show how it gets to be one.                        *)
(***************************************************************************)
EXTENDS Integers, Sequences, FiniteSets

CONSTANTS
  Order,        \* the targets, in the order the code goes through them
  Accounts,     \* the piece that is the Subscription Account file
  Logs,         \* session logs of the Target CLIs
  MaxLines,     \* bound: complete lines of a log
  MaxDay,       \* bound: local calendar days
  Capacity,     \* places of a model server's completion queue
  OldSchema,    \* the schema version of a home or backup of an older release
  MaxWork,      \* bound: inputs (edits, changes, requests, log lines, commands)
  MaxFaults     \* bound: failures and crashes

VARIABLES
  db,       \* the database
  file,     \* version on disk of every piece
  svc,      \* the service: "down", "opening" or "up"
  running,  \* targets whose model server runs
  op,       \* the backup or restore under way, with every gate held
  answer,   \* what the last backup or restore answered
  backups,  \* installed Recovery Backups
  serving,  \* plans of the routed requests under way that reserved a record
  queue,    \* plans of the finished ones whose record is not stored yet
  logs,     \* of every session log, its path and the day of each line
  scan,     \* what the scan under way read, or NoScan
  today,    \* the local calendar day
  work, faults

homeVars == <<db, file, svc, running, op, answer, backups, serving, queue, logs,
          scan, today, work, faults>>

Targets == {Order[i] : i \in DOMAIN Order}
Pieces == Targets \cup {Accounts}
Stages == {"copy", "install", "shutdown", "reserve", "database", "verify", "resume"}

\* Every Target has its place in the order and its own file; a piece is not named
\* like a stage of an operation, nor a log like the field of NoScan.
ASSUME PiecesAssumption ==
  /\ Order \in Seq(Targets) /\ Order # <<>>
  /\ \A i, j \in DOMAIN Order : Order[i] = Order[j] => i = j
  /\ Accounts \notin Targets
  /\ Pieces \cap (Stages \cup {"idle"}) = {}
  /\ "stage" \notin Logs

Versions == 0..MaxWork
Paths == {"sessions", "archived"}
Lines == Logs \X (1..MaxLines)

\* migrations.rs: the schema this release writes, and the one that brought the
\* native usage tables, the rollups, the retention setting and the catalog.
SchemaVersion == 17
LedgerSchema == 15

\* An older release is one this release can still read.
ASSUME LimitsAssumption ==
  /\ {MaxLines, MaxDay, Capacity, MaxWork, MaxFaults} \subseteq Nat
  /\ OldSchema \in 1 .. SchemaVersion

Forever == 30      \* the default retention: no line of the model is that old

\* schema.sql and migrate_v14: a ledger nothing was written to.
EmptyLedger == [detail |-> {}, priced |-> {}, rolled |-> [l \in Lines |-> 0],
                cursor |-> [l \in Logs |-> [p \in Paths |-> 0]],
                retention |-> Forever, catalog |-> FALSE]

NewDatabase(schema) ==
  [schema |-> schema, rev |-> [p \in Pieces |-> 0], plans |-> {},
   drift |-> {}, recovery |-> FALSE, records |-> {}, ledger |-> EmptyLedger]

NoFiles == [p \in Pieces |-> 0]
Artifact(data, files, live) == [db |-> data, file |-> files, live |-> live]

NoOperation == [stage |-> "idle"]
NoScan == [stage |-> "idle"]

HomeTypeOK ==
  /\ db.schema \in OldSchema..SchemaVersion
  /\ db.rev \in [Pieces -> Versions] /\ db.plans \subseteq Versions
  /\ db.drift \subseteq Targets /\ db.recovery \in BOOLEAN
  /\ db.records \subseteq [plan : Versions, day : 0..MaxDay]
  /\ db.ledger.detail \subseteq Lines /\ db.ledger.priced \subseteq db.ledger.detail
  /\ db.ledger.rolled \in [Lines -> 0..2]
  /\ db.ledger.cursor \in [Logs -> [Paths -> 0..MaxLines]]
  /\ file \in [Pieces -> Versions]
  /\ svc \in {"down", "opening", "up"}
  /\ running \subseteq Targets
  /\ serving \subseteq Versions /\ queue \subseteq Versions
  /\ today \in 0..MaxDay /\ work \in 0..MaxWork /\ faults \in 0..MaxFaults

(***************************************************************************)
(* A new home, or one an older release left behind; both may hold a backup *)
(* the older release made and one a newer release made.                    *)
(***************************************************************************)
HomeInit ==
  /\ \E schema \in {OldSchema, SchemaVersion} : db = NewDatabase(schema)
  /\ file = NoFiles
  /\ svc = "down" /\ running = {} /\ op = NoOperation /\ answer = "none"
  /\ backups \in {{}, {Artifact(NewDatabase(OldSchema), NoFiles, NoFiles)},
                  {Artifact(NewDatabase(SchemaVersion + 1), NoFiles, NoFiles)}}
  /\ serving = {} /\ queue = {}
  /\ logs = [l \in Logs |-> [path |-> "sessions", days |-> <<>>]]
  /\ scan = NoScan
  /\ today = 0 /\ work = 0 /\ faults = 0

Input == work < MaxWork /\ work' = work + 1
Fault == faults < MaxFaults /\ faults' = faults + 1

Up == svc = "up"
Free == Up /\ op = NoOperation

-----------------------------------------------------------------------------
(***************************************************************************)
(* Opening the database: one transaction per schema version, then the      *)
(* committed takeovers are served.                                         *)
(***************************************************************************)

\* migrations.rs: the step from a version to the next, which stamps the version
\* it reached in the transaction that makes the change.
Migrated(d) ==
  [d EXCEPT !.schema = @ + 1,
            !.ledger = IF d.schema + 1 = LedgerSchema THEN EmptyLedger ELSE @]

\* Every remaining step, which prepare_recovery_database takes on the extracted
\* copy of a backup. An older database has no ledger to lose.
Upgraded(d) ==
  IF d.schema = SchemaVersion THEN d
  ELSE [d EXCEPT !.schema = SchemaVersion,
                 !.ledger = IF d.schema < LedgerSchema THEN EmptyLedger ELSE @]

OpenDatabase ==
  /\ svc = "down"
  /\ svc' = "opening"
  /\ UNCHANGED <<db, file, running, op, answer, backups, serving, queue, logs,
                 scan, today, work, faults>>

MigrationStep ==
  /\ svc = "opening" /\ db.schema < SchemaVersion
  /\ db' = Migrated(db)
  /\ UNCHANGED <<file, svc, running, op, answer, backups, serving, queue, logs,
                 scan, today, work, faults>>

\* A committed takeover is served only when nothing is to be reconciled first
\* and the file holds what the database committed.
Managed(t) == db.rev[t] # 0
Writable(t) == ~db.recovery /\ t \notin db.drift
Drifted(t) == Managed(t) /\ Writable(t) /\ file[t] # db.rev[t]
Servable(t) == Managed(t) /\ Writable(t) /\ file[t] = db.rev[t]

\* A start bootstraps every committed takeover; a port that cannot be bound
\* leaves that target unserved.
Start ==
  /\ svc = "opening" /\ db.schema = SchemaVersion
  /\ svc' = "up"
  /\ db' = [db EXCEPT !.drift = @ \cup {t \in Targets : Drifted(t)}]
  /\ LET able == {t \in Targets : Servable(t)}
     IN \/ running' = able /\ UNCHANGED faults
        \/ Fault /\ able # {} /\ running' = {}
  /\ UNCHANGED <<file, op, answer, backups, serving, queue, logs, scan, today, work>>

Killed ==
  /\ svc # "down" /\ Fault
  /\ svc' = "down"
  /\ running' = {} /\ op' = NoOperation /\ answer' = "none"
  /\ serving' = {} /\ queue' = {} /\ scan' = NoScan
  /\ UNCHANGED <<db, file, backups, logs, today, work>>

-----------------------------------------------------------------------------
(***************************************************************************)
(* The writers the gates exclude, and those they do not.                   *)
(***************************************************************************)

\* An activation, takeover or account change: under the gate of its piece, which
\* a backup or restore holds. A version is new, as an epoch or a hash is.
Change(p) ==
  /\ Free /\ Input
  /\ p \in Targets => Writable(p) /\ file[p] = db.rev[p]
  /\ db' = [db EXCEPT !.rev[p] = work + 1, !.plans = @ \cup {work + 1}]
  /\ file' = [file EXCEPT ![p] = work + 1]
  /\ running' = running \cup ({p} \cap Targets)
  /\ UNCHANGED <<svc, op, answer, backups, serving, queue, logs, scan, today, faults>>

\* The Operator or the Target CLI edits a managed file, whenever they like.
Edit(t) ==
  /\ Input
  /\ file' = [file EXCEPT ![t] = work + 1]
  /\ op' = IF op = NoOperation THEN NoOperation
           ELSE [op EXCEPT !.hurt = @ + 1, !.edited = @ \cup {t}]
  /\ UNCHANGED <<db, svc, running, answer, backups, serving, queue, logs, scan,
                 today, faults>>

\* Reapply after drift: the file gets back what the database committed.
Reapply(t) ==
  /\ Free /\ Input
  /\ Drifted(t) \/ (t \in db.drift /\ ~db.recovery)
  /\ db' = [db EXCEPT !.drift = @ \ {t}]
  /\ file' = [file EXCEPT ![t] = db.rev[t]]
  /\ UNCHANGED <<svc, running, op, answer, backups, serving, queue, logs, scan,
                 today, faults>>

\* A routed request reserves its place in the completion queue before it is
\* served, and is served unrecorded when there is none. It is recorded under the
\* plan it was given. A server that drains takes no more requests.
BeginRequest(t) ==
  /\ t \in running /\ Input
  /\ op.stage # "shutdown"
  /\ Cardinality(serving \cup queue) < Capacity
  /\ serving' = serving \cup {db.rev[t]}
  /\ UNCHANGED <<db, file, svc, running, op, answer, backups, queue, logs, scan,
                 today, faults>>

\* Its body ended, failed or was dropped: one completion either way.
FinishRequest ==
  \E plan \in serving :
    /\ serving' = serving \ {plan}
    /\ queue' = queue \cup {plan}
    /\ UNCHANGED <<db, file, svc, running, op, answer, backups, logs, scan, today,
                   work, faults>>

\* The recorder's task stores a completion in whatever database there is now.
Recorded(d, plan) == [d EXCEPT !.records = @ \cup {[plan |-> plan, day |-> today]}]

RecordRequest ==
  \E plan \in queue :
    /\ queue' = queue \ {plan}
    /\ db' = Recorded(db, plan)
    /\ UNCHANGED <<file, svc, running, op, answer, backups, serving, logs, scan,
                   today, work, faults>>

-----------------------------------------------------------------------------
(***************************************************************************)
(* The usage ledger.                                                       *)
(***************************************************************************)

DayOf(line) == logs[line[1]].days[line[2]]

\* roll_up_usage: the days before the cutoff become rollups and lose their
\* details; every scan and every new retention setting does it.
Added(rolled, old) == [l \in Lines |-> rolled[l] + IF l \in old THEN 1 ELSE 0]

RolledUp(d) ==
  LET kept == d.ledger.retention
      old == {l \in d.ledger.detail : DayOf(l) <= today - kept}
  IN [d EXCEPT !.records = {r \in @ : r.day > today - kept},
               !.ledger.detail = @ \ old,
               !.ledger.priced = @ \ old,
               !.ledger.rolled = Added(@, old)]

\* The Target CLI completes a line of a session log, or archives the log: Codex
\* moves it from its sessions to its archived sessions. The day goes by.
AppendLine(l) ==
  /\ Input /\ Len(logs[l].days) < MaxLines
  /\ logs' = [logs EXCEPT ![l].days = Append(@, today)]
  /\ UNCHANGED <<db, file, svc, running, op, answer, backups, serving, queue,
                 scan, today, faults>>

Archive(l) ==
  /\ Input /\ logs[l].path = "sessions" /\ logs[l].days # <<>>
  /\ logs' = [logs EXCEPT ![l].path = "archived"]
  /\ UNCHANGED <<db, file, svc, running, op, answer, backups, serving, queue,
                 scan, today, faults>>

NextDay ==
  /\ today < MaxDay /\ Input
  /\ today' = today + 1
  /\ UNCHANGED <<db, file, svc, running, op, answer, backups, serving, queue,
                 logs, scan, faults>>

\* A scan, one at a time: it reads how far each log is, then imports what it
\* read in a later transaction.  (A log archived under its eyes fails the scan.)
Parsed(log) == [path |-> log.path, lines |-> Len(log.days)]

ScanFiles ==
  /\ Up /\ scan = NoScan
  /\ scan' = [l \in Logs |-> Parsed(logs[l])]
  /\ UNCHANGED <<db, file, svc, running, op, answer, backups, serving, queue,
                 logs, today, work, faults>>

\* The lines beyond the cursor its path has, all of them when the path is new;
\* one whose detail is still there is not inserted again.
NewLines(d) ==
  {line \in Lines :
     LET read == scan[line[1]]
     IN line[2] \in d.ledger.cursor[line[1]][read.path] + 1 .. read.lines}

\* Mutant: the cursor goes to where the log is when the import commits.
ImportedPast(d) ==
  LET new == NewLines(d) \ d.ledger.detail
  IN [d EXCEPT !.ledger.detail = @ \cup new,
               !.ledger.priced = IF d.ledger.catalog THEN @ \cup new ELSE @,
               !.ledger.cursor = [l \in Logs |->
                 [@[l] EXCEPT ![scan[l].path] = Len(logs[l].days)]]]

Imported(d) ==
  LET new == NewLines(d) \ d.ledger.detail
  IN [d EXCEPT !.ledger.detail = @ \cup new,
               !.ledger.priced = IF d.ledger.catalog THEN @ \cup new ELSE @,
               !.ledger.cursor = [l \in Logs |->
                 [@[l] EXCEPT ![scan[l].path] = scan[l].lines]]]

ImportScan ==
  /\ Up /\ scan # NoScan
  /\ db' = RolledUp(Imported(db))
  /\ scan' = NoScan
  /\ UNCHANGED <<file, svc, running, op, answer, backups, serving, queue, logs,
                 today, work, faults>>

SetRetention(days) ==
  /\ Up /\ Input
  /\ db' = RolledUp([db EXCEPT !.ledger.retention = days])
  /\ UNCHANGED <<file, svc, running, op, answer, backups, serving, queue, logs,
                 scan, today, faults>>

ClearUsage ==
  /\ Up /\ Input
  /\ db' = [db EXCEPT !.records = {},
                      !.ledger = [EmptyLedger EXCEPT !.retention = db.ledger.retention,
                                                     !.catalog = db.ledger.catalog]]
  /\ UNCHANGED <<file, svc, running, op, answer, backups, serving, queue, logs,
                 scan, today, faults>>

\* A fetched catalog replaces the last one, whether or not it prices the model of
\* the lines; the details that had no price get theirs now, and keep it.
FetchedCatalogs == BOOLEAN
Backfilled(ledger, prices) ==
  IF prices THEN ledger.priced \cup (ledger.detail \ ledger.priced) ELSE ledger.priced

ReplaceCatalog(prices) ==
  /\ Up /\ Input
  /\ db' = [db EXCEPT !.ledger.catalog = prices,
                      !.ledger.priced = Backfilled(db.ledger, prices)]
  /\ UNCHANGED <<file, svc, running, op, answer, backups, serving, queue, logs,
                 scan, today, faults>>

-----------------------------------------------------------------------------
(***************************************************************************)
(* Backups and restores.  Each holds the creation gate, both target gates  *)
(* and the account gate from its first step to its answer; op is its       *)
(* progress, hurt the failures it met and edited the files edited under it *)
(* (both only for the properties).                                         *)
(***************************************************************************)

Started(kind) ==
  [stage |-> "copy", kind |-> kind, seen |-> file, hurt |-> 0, edited |-> {},
   copy |-> <<>>, wanted |-> <<>>, before |-> <<>>, way |-> "forward"]

Goes(stage) == op' = [op EXCEPT !.stage = stage]
Answers(a) == op' = NoOperation /\ answer' = a

\* A step of the restore fails: the disk, a port, a file changed between the
\* read and the rename.
Hurt == Fault

BeginBackup ==
  /\ Free /\ Input
  /\ op' = Started("create") /\ answer' = "none"
  /\ UNCHANGED <<db, file, svc, running, backups, serving, queue, logs, scan,
                 today, faults>>

\* The online backup is one call on the database's connection.
CopyDatabase ==
  /\ op.stage = "copy"
  /\ op' = [op EXCEPT !.stage = "install",
                      !.copy = [db |-> db, live |-> file]]
  /\ UNCHANGED <<db, file, svc, running, answer, backups, serving, queue, logs,
                 scan, today, work, faults>>

\* Mutant: the files are not read again.
NotReread == TRUE

\* The files are read again, the container is written and renamed to a name no
\* other has. For a restore this is the backup it can go back to.
Reread == file = op.seen
Capture == Artifact(op.copy.db, op.seen, op.copy.live)

InstallBackup ==
  /\ op.stage = "install"
  /\ \/ /\ Reread /\ UNCHANGED faults
        /\ backups' = backups \cup {Capture}
        /\ \/ op.kind = "create" /\ Answers("created")
           \/ /\ op.kind = "restore" /\ UNCHANGED answer
              /\ op' = [op EXCEPT !.stage = "shutdown", !.before = Capture,
                                  !.copy = <<>>, !.seen = <<>>]
     \/ /\ ~Reread /\ Answers("changed") /\ UNCHANGED <<backups, faults>>
     \/ /\ Hurt /\ Answers("not-created") /\ UNCHANGED backups
  /\ UNCHANGED <<db, file, svc, running, serving, queue, logs, scan, today, work>>

\* Only an artifact of this schema or an older one can be restored, and its
\* database is migrated on the extracted copy.
Compatible(a) == a.db.schema <= SchemaVersion
Extracted(a) == [a EXCEPT !.db = Upgraded(a.db)]

\* A restore is refused for a newer schema, and by its preflight: a taken port or
\* an unusable configuration of the live home.
RefuseRestore ==
  /\ Free /\ Input
  /\ \/ UNCHANGED faults /\ \E a \in backups : ~Compatible(a)
     \/ Hurt /\ backups # {}
  /\ answer' = "refused"
  /\ UNCHANGED <<db, file, svc, running, op, backups, serving, queue, logs, scan,
                 today>>

BeginRestore ==
  \E a \in backups :
    /\ Free /\ Input
    /\ Compatible(a)
    /\ op' = [Started("restore") EXCEPT !.wanted = Extracted(a)]
    /\ answer' = "none"
    /\ UNCHANGED <<db, file, svc, running, backups, serving, queue, logs, scan,
                   today, faults>>

\* What the restore is making the home into: the chosen backup, or on its way
\* back the one it took before it began.
Wanted == IF op.way = "forward" THEN op.wanted ELSE op.before

\* After a failure with database d in place: forward, the way back begins by
\* stopping what runs; on the way back nothing is left to try. The mark that the
\* home is to be recovered may itself fail, and then only the answer says it.
MarkedForRecovery(d) == [d EXCEPT !.recovery = TRUE]
Troubles == op.hurt + (faults' - faults)

\* Mutant: whatever failed, the way back is only to serve again.
FallsToServing(d) ==
  /\ op.way = "forward" /\ db' = d /\ UNCHANGED answer
  /\ op' = [op EXCEPT !.stage = "resume", !.way = "back", !.hurt = Troubles]

FallsBack(d) ==
  /\ op.way = "forward" /\ db' = d /\ UNCHANGED answer
  /\ op' = [op EXCEPT !.stage = "shutdown", !.way = "back", !.hurt = Troubles]

GivesUp(d) ==
  /\ op.way = "back" /\ Answers("required")
  /\ db' \in {d, MarkedForRecovery(d)}

Fails(d) == FallsBack(d) \/ GivesUp(d)

\* Before the database is touched the way back is only to serve again.
ServesAgain ==
  /\ op' = [op EXCEPT !.stage = "resume", !.way = "back", !.hurt = Troubles]
  /\ UNCHANGED <<answer, db>>

\* Mutant: a server has stopped when its last response has.
DrainedRequests == serving = {}

\* Every model server drains: the requests under way end and their records are
\* stored before it has stopped.
Drained == serving = {} /\ queue = {}

ShutdownModels ==
  /\ op.stage = "shutdown"
  /\ running' = {}
  /\ \/ /\ Drained /\ UNCHANGED <<serving, queue, faults, answer, db>>
        /\ Goes(IF op.way = "forward" THEN "reserve" ELSE "database")
     \/ /\ Hurt /\ running # {} /\ serving' = {} /\ queue' = {}
        /\ IF op.way = "forward" THEN ServesAgain ELSE GivesUp(db)
  /\ UNCHANGED <<file, svc, backups, logs, scan, today, work>>

\* The ports of the takeovers to come are held until they are served.
ReservePorts ==
  /\ op.stage = "reserve"
  /\ \/ Goes("database") /\ UNCHANGED <<answer, db, faults>>
     \/ Hurt /\ (\E t \in Targets : Wanted.db.rev[t] # 0) /\ ServesAgain
  /\ UNCHANGED <<file, svc, running, backups, serving, queue, logs, scan, today, work>>

\* The whole database is replaced; a failure is before that or, in the checks
\* after it, with the new database already in place.
RestoreDatabase ==
  /\ op.stage = "database"
  /\ \/ db' = Wanted.db /\ Goes(Accounts) /\ UNCHANGED <<answer, faults>>
     \/ Hurt /\ (Fails(db) \/ Fails(Wanted.db))
  /\ UNCHANGED <<file, svc, running, backups, serving, queue, logs, scan, today, work>>

\* The account file first, then each target's file in order.
After(p) ==
  IF p = Accounts THEN Order[1]
  ELSE LET i == CHOOSE i \in DOMAIN Order : Order[i] = p
       IN IF i = Len(Order) THEN "verify" ELSE Order[i + 1]

ApplyFile ==
  /\ op.stage \in Pieces
  /\ \/ /\ file' = [file EXCEPT ![op.stage] = Wanted.file[op.stage]]
        /\ Goes(After(op.stage)) /\ UNCHANGED <<answer, db, faults>>
     \/ Hurt /\ Fails(db) /\ UNCHANGED file
  /\ UNCHANGED <<svc, running, backups, serving, queue, logs, scan, today, work>>

VerifyFiles ==
  /\ op.stage = "verify"
  /\ UNCHANGED faults
  /\ \/ file = Wanted.file /\ Goes("resume") /\ UNCHANGED <<answer, db>>
     \/ file # Wanted.file /\ Fails(db)
  /\ UNCHANGED <<file, svc, running, backups, serving, queue, logs, scan, today, work>>

\* Every takeover of the database there is now must be served, target by target;
\* one that drifted, or that recovery is required for, is not and fails the
\* restore. Each is one bootstrap of a target.
Unserved == {i \in DOMAIN Order : Managed(Order[i]) /\ Order[i] \notin running}
NextUnserved == Order[CHOOSE i \in Unserved : \A j \in Unserved : i <= j]

ResumeTakeovers ==
  /\ op.stage = "resume"
  /\ \/ /\ Unserved = {}
        /\ Answers(IF op.way = "forward" THEN "restored" ELSE "failed")
        /\ UNCHANGED <<db, running, faults>>
     \/ /\ Unserved # {} /\ Servable(NextUnserved)
        /\ \/ running' = running \cup {NextUnserved} /\ UNCHANGED <<op, answer, db, faults>>
           \/ Hurt /\ Fails(db) /\ UNCHANGED running
     \/ /\ Unserved # {} /\ ~Servable(NextUnserved)
        /\ UNCHANGED <<running, faults>>
        /\ Fails([db EXCEPT !.drift = @ \cup {t \in {NextUnserved} : Drifted(t)}])
  /\ UNCHANGED <<file, svc, backups, serving, queue, logs, scan, today, work>>

-----------------------------------------------------------------------------
Service == OpenDatabase \/ MigrationStep \/ Start \/ Killed
Writers ==
  \/ \E p \in Pieces : Change(p)
  \/ \E t \in Targets : Edit(t) \/ Reapply(t) \/ BeginRequest(t)
  \/ FinishRequest \/ RecordRequest
Ledger ==
  \/ \E l \in Logs : AppendLine(l) \/ Archive(l)
  \/ NextDay \/ ScanFiles \/ ImportScan \/ ClearUsage
  \/ \E days \in {1, Forever} : SetRetention(days)
  \/ \E prices \in FetchedCatalogs : ReplaceCatalog(prices)
Recovery ==
  \/ BeginBackup \/ CopyDatabase \/ InstallBackup \/ RefuseRestore \/ BeginRestore
  \/ ShutdownModels \/ ReservePorts \/ RestoreDatabase \/ ApplyFile
  \/ VerifyFiles \/ ResumeTakeovers

HomeNext == Service \/ Writers \/ Ledger \/ Recovery

HomeSpec == HomeInit /\ [][HomeNext]_homeVars

-----------------------------------------------------------------------------
\* A Recovery Backup holds the database and the files of one moment: nothing
\* moved a file between the copy of the database and the files it installs with
\* it (recovery_backup.rs, create_locked reads the files before and after).
BackupIsOneMoment == \A a \in backups : a.file = a.live

\* The gated part of the home is what a says, but for files edited meanwhile, and
\* every takeover in it is served.
HomeIs(a) ==
  /\ db'.rev = a.db.rev
  /\ \A p \in Pieces \ op.edited : file'[p] = a.file[p]
  /\ \A t \in Targets : db'.rev[t] # 0 => t \in running'

Ending == op # NoOperation /\ op' = NoOperation /\ Up /\ svc' = "up"

\* A backup whose own takeovers could not be served: recovery was required, or a
\* file had drifted, when it was taken.
Unservable(a) ==
  \E t \in Targets :
    a.db.rev[t] # 0 /\ (a.db.recovery \/ t \in a.db.drift \/ a.file[t] # a.db.rev[t])

\* What a restore answers is what it did: after "restored" the home is the chosen
\* backup, after a failure it says was rolled back it is what it was before, and
\* served either way. No mixture is left behind an answer that does not say so.
\* And one thing going wrong is rolled back: that recovery is required takes a
\* second failure, edit or unservable state (restore_backup and its rollback).
AnswerTellsHome ==
  [][Ending =>
       /\ answer' = "restored" => HomeIs(op.wanted)
       /\ answer' = "failed" => HomeIs(op.before)
       /\ answer' = "required" =>
            Troubles + Cardinality({i \in 1..2 : Unservable(<<op.wanted, op.before>>[i])}) >= 2]_homeVars

\* Every line an import cursor is past is counted, as a detail or in a rollup,
\* and counted once as long as its log was not archived: through concurrent
\* scans, retention, clearing, restores of older ledgers and crashes.
Count(line) == db.ledger.rolled[line] + IF line \in db.ledger.detail THEN 1 ELSE 0

LinesAreCounted ==
  \A line \in Lines :
    /\ (\E p \in Paths : line[2] <= db.ledger.cursor[line[1]][p]) => Count(line) >= 1
    /\ logs[line[1]].path = "sessions" => Count(line) <= 1

\* A Request Record names a plan this database had: no completion of a request
\* served before a restore is stored in the database the restore put in place.
RecordsBelong == HomeTypeOK /\ {r.plan : r \in db.records} \subseteq db.plans
=============================================================================
