------------------------- MODULE SubscriptionAccounts -------------------------
(* The subscription accounts: a private file of accounts and their refresh   *)
(* tokens, a staged copy of the mutation under way, and the intent and the   *)
(* catalog revision in the store (subscription/coordinator.rs,               *)
(* subscription/accounts.rs, state/subscription_accounts.rs), with the three *)
(* callers that change them: a client's action, the refresh of an expired    *)
(* access token, and a device authorization that a session may cancel        *)
(* (subscription/device_authorization.rs).                                   *)
(*                                                                           *)
(* The coordinator's gate serialises the mutations; `job` is its holder.     *)
(* The refresh reads the file and calls the authority OUTSIDE the gate.      *)
(* Within a job the process may stop between any two writes; a write may     *)
(* fail (a fault); someone outside may edit the file or lose the staged one. *)
(*                                                                           *)
(* A refresh token is the number under which the authority issued it, which  *)
(* also stands for the time of authentication. The cache of access tokens    *)
(* only lets a request answer without a refresh.                             *)
EXTENDS Naturals

CONSTANTS
  Accounts,     \* account ids
  Requests,     \* model requests that resolve the default account
  Actions,      \* ids of client actions
  NoRecord,     \* no record of an account
  Unset,        \* no account, no file, no state
  MaxToken,     \* bound: refresh tokens the authority issues
  MaxIntents,   \* bound: staged mutations
  MaxTroubles   \* bound: failing writes, crashes and outside interventions

(* The callers and the values that stand for nothing are told apart from each *)
(* other and from what the service records.                                   *)
ASSUME CallersAssumption ==
  /\ NoRecord \notin [token : Nat, ok : BOOLEAN]
  /\ Unset \notin Accounts /\ Actions \cap Requests = {}
  /\ {"flow", "start", Unset} \cap (Actions \cup Requests) = {}
  /\ Unset \notin {"flow", "start", "applied", "failed", "pending", "committed",
                  "rolled-back", "recovery-required", "delete", "default", "fixed",
                  "follow"}

(* The bounds; the authority has issued the first account's token already. *)
ASSUME BoundsAssumption ==
  MaxToken \in Nat \ {0} /\ MaxIntents \in Nat /\ MaxTroubles \in Nat

VARIABLES
  doc,          \* the account file: its accounts and the default one
  staged,       \* the staged mutation file
  row,          \* the latest recovery intent of the store: its id and state
  catalog,      \* the store's catalog row: revision, recovery and the binding
  receipts,     \* actions with a receipt in the store
  status,       \* "down" | "starting" | "up"
  job,          \* the mutation that holds the coordinator's gate
  request,      \* per request: where it is and the record it read
  action,       \* per client action: what it asks and what it was answered
  previews,     \* set-default actions whose preview this process remembers
  flow,         \* the device authorization
  live,         \* refresh tokens the authority still accepts
  counts,       \* tokens issued, intents staged, troubles
  last          \* ghost: the accounts as last committed, or as edited outside

durable == <<doc, staged, row, catalog, receipts>>
callers == <<request, action, previews, flow>>
accountsVars == <<durable, status, job, callers, live, counts, last>>

Flow == "flow"
Start == "start"

Record(token, ok) == [token |-> token, ok |-> ok]
Present(document, a) == document.accounts[a] # NoRecord
Known(document) == {a \in Accounts : Present(document, a)}

NoJob == [by |-> Unset]
At(place) ==
  [at |-> place, account |-> Unset, expected |-> NoRecord, answer |-> NoRecord]
Free == status = "up" /\ job = NoJob
Pending == row.state = "pending"
Trouble == counts.troubles < MaxTroubles
Count(field) == counts' = [counts EXCEPT ![field] = @ + 1]
Require == catalog' = [catalog EXCEPT !.recovery = "required"]

-----------------------------------------------------------------------------
(* The end of a job: its caller learns the answer and the gate is released. *)
Ended(answer) ==
  /\ job' = NoJob
  /\ action' = [c \in Actions |->
       IF c = job.by THEN [action[c] EXCEPT !.answer = answer] ELSE action[c]]
  /\ request' = [r \in Requests |->
       IF r = job.by THEN At("done") ELSE request[r]]
  /\ flow' = IF job.by = Flow THEN [flow EXCEPT !.at = answer] ELSE flow
  /\ previews' = IF answer = "applied" THEN previews \ {job.by} ELSE previews
  /\ status' = IF job.by = Start THEN "up" ELSE status

(* Takes the gate for a mutation of the file as it is now. *)
Take(by, desired) ==
  job' = [by |-> by, phase |-> "stage", before |-> doc, desired |-> desired,
          id |-> 0, touched |-> FALSE]

-----------------------------------------------------------------------------
(* Client actions. *)

(* A client reads the catalog and decides; setting the default needs a *)
(* preview, which the process remembers with the revision.             *)
Submit(c, kind, a) ==
  /\ Free
  /\ action[c].kind = Unset
  /\ kind = "default" => Present(doc, a)
  /\ action' = [action EXCEPT ![c] =
       [kind |-> kind, account |-> IF kind = "follow" THEN Unset ELSE a,
        revision |-> catalog.revision, answer |-> Unset]]
  /\ previews' = IF kind = "default" THEN previews \cup {c} ELSE previews
  /\ UNCHANGED <<durable, status, job, request, flow, live, counts, last>>

(* The account that follows the deleted default: the latest authenticated. *)
Newest(accounts) ==
  IF \A a \in Accounts : accounts[a] = NoRecord THEN Unset
  ELSE CHOOSE a \in Accounts :
         /\ accounts[a] # NoRecord
         /\ \A b \in Accounts :
              accounts[b] # NoRecord => accounts[b].token <= accounts[a].token

Deleted(document, a) ==
  LET accounts == [document.accounts EXCEPT ![a] = NoRecord] IN
  [accounts |-> accounts,
   default |-> IF document.default = a THEN Newest(accounts) ELSE document.default]

DesiredBy(c) ==
  CASE action[c].kind = "delete" -> Deleted(doc, action[c].account)
    [] action[c].kind = "default" -> [doc EXCEPT !.default = action[c].account]
    [] OTHER -> doc

(* What the coordinator refuses before it stages anything. *)
Refused(c) ==
  \/ catalog.recovery = "required"
  \/ catalog.revision # action[c].revision
  \/ action[c].kind = "default" /\ c \notin previews
  \/ action[c].kind \in {"default", "delete"} /\ ~Present(doc, action[c].account)

(* The receipt of an action that was applied answers it again. *)
Answered(c) == c \in receipts

(* A client sends its action, again if it was never answered. *)
Apply(c) ==
  /\ Free
  /\ action[c].kind # Unset /\ action[c].answer = Unset
  /\ IF Answered(c) \/ Refused(c)
       THEN /\ action' = [action EXCEPT ![c].answer =
                 IF Answered(c) THEN "applied" ELSE "failed"]
            /\ UNCHANGED <<job, counts>>
       ELSE /\ action' = action
            /\ IF action[c].kind = "delete" \/ DesiredBy(c) # doc
                 THEN Take(c, DesiredBy(c)) /\ UNCHANGED counts
                 ELSE /\ job' = [by |-> c, phase |-> "commit", before |-> doc,
                                 desired |-> doc, id |-> 0, touched |-> FALSE]
                      /\ UNCHANGED counts
  /\ UNCHANGED <<durable, status, request, previews, flow, live, last>>

-----------------------------------------------------------------------------
(* The resolver: a request needs an access token of the default account. *)

(* Reads the file without the gate; a missing or rejected account and a *)
(* cached access token end here.                                        *)
ReadAccount(r) ==
  /\ status = "up"
  /\ request[r].at = "idle"
  /\ doc.default # Unset
  /\ LET a == doc.default IN
     request' = [request EXCEPT ![r] =
       IF Present(doc, a) /\ doc.accounts[a].ok
         THEN [at |-> "remote", account |-> a, expected |-> doc.accounts[a],
               answer |-> doc.accounts[a]]
         ELSE At("done")]
  /\ UNCHANGED <<durable, status, job, action, previews, flow, live, counts, last>>

(* The authority answers: it fails, keeps or rotates a token it accepts, and *)
(* rejects for good one it does not. Token 0: the answer brings no new token. *)
Refresh(r) ==
  LET token == request[r].expected.token
      Answer(record) ==
        request' = [request EXCEPT ![r].at = "record", ![r].answer = record] IN
  /\ status = "up"
  /\ request[r].at = "remote"
  /\ \/ /\ request' = [request EXCEPT ![r] = At("done")]
        /\ UNCHANGED <<live, counts>>
     \/ /\ token \notin live
        /\ Answer(Record(0, FALSE))
        /\ UNCHANGED <<live, counts>>
     \/ /\ token \in live
        /\ Answer(Record(0, TRUE))
        /\ UNCHANGED <<live, counts>>
     \/ /\ token \in live /\ counts.issued < MaxToken
        /\ Count("issued")
        /\ live' = (live \ {token}) \cup {counts.issued + 1}
        /\ Answer(Record(counts.issued + 1, TRUE))
  /\ UNCHANGED <<durable, status, job, action, previews, flow, last>>

(* The record with what the authority answered. *)
Refreshed(record, answer) ==
  Record(IF answer.token = 0 THEN record.token ELSE answer.token, answer.ok)

(* Slip: the record may have changed, as long as the account is there. *)
SameAccount(r) == Present(doc, request[r].account)

(* The record of the file is the one the refresh read. *)
Unchanged(r) == doc.accounts[request[r].account] = request[r].expected

(* Records the answer under the gate, only over the record the refresh read. *)
RecordRefresh(r) ==
  LET a == request[r].account IN
  /\ Free
  /\ request[r].at = "record"
  /\ IF ~Unchanged(r) \/ catalog.recovery = "required"
       THEN request' = [request EXCEPT ![r] = At("done")] /\ UNCHANGED job
       ELSE /\ Take(r, [doc EXCEPT !.accounts[a] = Refreshed(@, request[r].answer)])
            /\ UNCHANGED request
  /\ UNCHANGED <<durable, status, action, previews, flow, live, counts, last>>

-----------------------------------------------------------------------------
(* Device authorization. *)

(* A poll finds the device authorized: the authority has issued a token. *)
Grant(a) ==
  /\ status = "up"
  /\ flow.at = "idle"
  /\ counts.issued < MaxToken
  /\ Count("issued")
  /\ live' = live \cup {counts.issued + 1}
  /\ flow' = [flow EXCEPT
       !.at = "granted", !.account = a, !.token = counts.issued + 1]
  /\ UNCHANGED <<durable, status, job, request, action, previews, last>>

(* The session cancels the poll; it waits while a commit has begun. *)
Cancel ==
  /\ status = "up"
  /\ flow.at = "granted" /\ ~flow.cancelled
  /\ job.by # Flow
  /\ flow' = [flow EXCEPT !.cancelled = TRUE]
  /\ UNCHANGED <<durable, status, job, request, action, previews, live, counts, last>>

(* Slip: the cancellation is only looked at before the poll. *)
NeverCancelled == FALSE

(* begin_commit: whether the poll was cancelled before its commit began. *)
CancelledBeforeCommit == flow.cancelled

RecordAuthorization ==
  LET a == flow.account IN
  /\ Free
  /\ flow.at = "granted"
  /\ IF CancelledBeforeCommit \/ catalog.recovery = "required"
       THEN flow' = [flow EXCEPT !.at = "failed"] /\ UNCHANGED job
       ELSE /\ Take(Flow,
                 [accounts |-> [doc.accounts EXCEPT ![a] = Record(flow.token, TRUE)],
                  default |-> IF doc.default = Unset THEN a ELSE doc.default])
            /\ UNCHANGED flow
  /\ UNCHANGED <<durable, status, request, action, previews, live, counts, last>>

-----------------------------------------------------------------------------
(* The steps of a mutation, under the gate. *)

(* Writes the staged file; one that is still there refuses the mutation. *)
Stage ==
  /\ status = "up" /\ job # NoJob /\ job.phase = "stage"
  /\ counts.intents < MaxIntents
  /\ \/ /\ staged = Unset
        /\ Count("intents")
        /\ staged' = [id |-> counts.intents + 1, before |-> job.before,
                      desired |-> job.desired]
        /\ job' = [job EXCEPT !.phase = "begin", !.id = counts.intents + 1]
        /\ UNCHANGED <<status, callers>>
     \/ /\ staged # Unset
        /\ Ended("failed")
        /\ UNCHANGED <<staged, counts>>
     \/ /\ staged = Unset /\ Trouble
        /\ Count("troubles")
        /\ Ended("failed")
        /\ UNCHANGED staged
  /\ UNCHANGED <<doc, row, catalog, receipts, live, last>>

(* Inserts the intent; if the store refuses, the staged file is cleared. *)
Begin ==
  /\ status = "up" /\ job # NoJob /\ job.phase = "begin"
  /\ \/ /\ ~Pending /\ catalog.recovery = "clean"
        /\ row' = [id |-> job.id, state |-> "pending"]
        /\ job' = [job EXCEPT !.phase = "write"]
        /\ UNCHANGED <<staged, counts, status, callers>>
     \/ /\ Pending \/ Trouble
        /\ IF Pending THEN UNCHANGED counts ELSE Count("troubles")
        /\ staged' = Unset
        /\ Ended("failed")
        /\ UNCHANGED row
  /\ UNCHANGED <<doc, catalog, receipts, live, last>>

(* Replaces the account file if it is still the one that was read; a write *)
(* that fails, or whose result cannot be read back, is rolled back.        *)
WriteFile ==
  /\ status = "up" /\ job # NoJob /\ job.phase = "write"
  /\ \/ /\ doc = job.before
        /\ doc' = job.desired
        /\ job' = [job EXCEPT !.phase = "commit"]
        /\ UNCHANGED counts
     \/ /\ doc # job.before
        /\ job' = [job EXCEPT !.phase = "undo"]
        /\ UNCHANGED <<doc, counts>>
     \/ /\ doc = job.before /\ Trouble
        /\ Count("troubles")
        /\ doc' \in {doc, job.desired}
        /\ job' = [job EXCEPT !.phase = "undo"]
  /\ UNCHANGED <<staged, row, catalog, receipts, status, callers, live, last>>

(* The transaction that commits the intent, the revision and the receipt. A *)
(* binding has no intent; it is refused for an unknown account.             *)
Bound(c) ==
  CASE action[c].kind = "fixed" -> action[c].account
    [] action[c].kind = "follow" -> Unset
    [] OTHER -> catalog.binding

Commit ==
  LET byClient == job.by \in Actions
      refused == /\ byClient
                 /\ action[job.by].kind = "fixed"
                 /\ ~Present(job.desired, action[job.by].account)
  IN
  /\ status = "up" /\ job # NoJob /\ job.phase = "commit"
  /\ \/ /\ ~refused
        /\ row' = IF job.id = 0 THEN row ELSE [row EXCEPT !.state = "committed"]
        /\ catalog' = [catalog EXCEPT
             !.revision = @ + 1,
             !.binding = IF byClient THEN Bound(job.by) ELSE @]
        /\ receipts' = IF byClient THEN receipts \cup {job.by} ELSE receipts
        /\ last' = IF job.id = 0 THEN last
                   ELSE IF job.touched THEN doc ELSE job.desired
        /\ job' = [job EXCEPT !.phase = "unstage"]
        /\ UNCHANGED <<counts, status, callers>>
     \/ /\ refused \/ Trouble
        /\ IF refused THEN UNCHANGED counts ELSE Count("troubles")
        /\ IF job.id = 0
             THEN Ended("failed")
             ELSE job' = [job EXCEPT !.phase = "undo"] /\ UNCHANGED <<status, callers>>
        /\ UNCHANGED <<row, catalog, receipts, last>>
  /\ UNCHANGED <<doc, staged, live>>

(* Clears the staged file; a failure after the commit is ignored, so the *)
(* file stays and refuses every later mutation of this process.          *)
Unstage ==
  /\ status = "up" /\ job # NoJob /\ job.phase = "unstage"
  /\ \/ /\ staged' = IF job.id = 0 THEN staged ELSE Unset
        /\ UNCHANGED counts
     \/ /\ job.id # 0 /\ staged # Unset /\ Trouble
        /\ Count("troubles")
        /\ UNCHANGED staged
  /\ Ended(IF row.id = job.id /\ row.state = "rolled-back" THEN "failed" ELSE "applied")
  /\ UNCHANGED <<doc, row, catalog, receipts, live, last>>

(* Rollback: a file of a third content is left alone and asks for recovery. *)
UndoWrite ==
  /\ status = "up" /\ job # NoJob /\ job.phase = "undo"
  /\ \/ /\ doc \in {job.before, job.desired}
        /\ doc' = job.before
        /\ job' = [job EXCEPT !.phase = "finish"]
        /\ UNCHANGED <<row, catalog, counts, status, callers>>
     \/ /\ doc \notin {job.before, job.desired}
        /\ row' = [row EXCEPT !.state = "recovery-required"]
        /\ Require
        /\ Ended("failed")
        /\ UNCHANGED <<doc, counts>>
     \/ /\ doc # job.before /\ Trouble
        /\ Count("troubles")
        /\ Ended("failed")
        /\ UNCHANGED <<doc, row, catalog>>
  /\ UNCHANGED <<staged, receipts, live, last>>

(* The undone intent is marked rolled back; then its staged file is cleared. *)
MarkUndone ==
  /\ status \in {"up", "starting"} /\ job # NoJob /\ job.phase = "finish"
  /\ \/ /\ row' = [row EXCEPT !.state = "rolled-back"]
        /\ job' = [job EXCEPT !.phase = IF job.by = Start THEN "cleanup" ELSE "unstage"]
        /\ UNCHANGED <<counts, status, callers>>
     \/ /\ Trouble
        /\ Count("troubles")
        /\ IF job.by = Start
             THEN job' = NoJob /\ status' = "down" /\ UNCHANGED callers
             ELSE Ended("failed")
        /\ UNCHANGED row
  /\ UNCHANGED <<doc, staged, catalog, receipts, live, last>>

-----------------------------------------------------------------------------
(* Recovery at start (recover_pending_intents). *)

StateOfStaged == IF row.id = staged.id THEN row.state ELSE Unset

(* The store's intent cannot be undone: the catalog asks for recovery. A *)
(* failure to say so is ignored.                                         *)
GiveUp ==
  \/ /\ row' = [row EXCEPT !.state = "recovery-required"]
     /\ Require
     /\ UNCHANGED counts
  \/ Trouble /\ Count("troubles") /\ UNCHANGED <<row, catalog>>

(* Slip: a file that already holds the mutation is left as it is. *)
RecoveredForward == doc

(* The file goes back to what it was before the mutation. *)
Recovered == staged.before

RecoverPending ==
  /\ status = "down" /\ Pending
  /\ IF \/ staged = Unset \/ StateOfStaged # "pending"
        \/ doc \notin {staged.before, staged.desired}
       THEN GiveUp /\ status' = "up" /\ UNCHANGED <<doc, job>>
       ELSE \/ /\ doc' = Recovered
               /\ status' = "starting"
               /\ job' = [by |-> Start, phase |-> "finish", before |-> staged.before,
                          desired |-> staged.desired, id |-> row.id, touched |-> FALSE]
               /\ UNCHANGED <<row, catalog, counts>>
            \/ /\ doc = staged.desired /\ Trouble
               /\ row' = [row EXCEPT !.state = "recovery-required"]
               /\ Require /\ Count("troubles")
               /\ status' = "up"
               /\ UNCHANGED <<doc, job>>
  /\ UNCHANGED <<staged, receipts, callers, live, last>>

(* The staged file is of a mutation that is over, or that never began. *)
StagedIsSettled ==
  \/ StateOfStaged \in {"committed", "rolled-back"}
  \/ StateOfStaged = Unset /\ doc = staged.before

(* Slip: with nothing pending there is nothing to recover. *)
RecoverNothing ==
  /\ status = "down" /\ ~Pending
  /\ status' = "up"
  /\ UNCHANGED <<durable, job, callers, live, counts, last>>

RecoverSettled ==
  /\ status = "down" /\ ~Pending
  /\ \/ /\ staged = Unset
        /\ status' = "up"
        /\ UNCHANGED <<staged, catalog, counts>>
     \/ /\ staged # Unset
        /\ IF StagedIsSettled
             THEN \/ staged' = Unset /\ status' = "up" /\ UNCHANGED <<catalog, counts>>
                  \/ Trouble /\ Count("troubles") /\ UNCHANGED <<staged, status, catalog>>
             ELSE Require /\ status' = "up" /\ UNCHANGED <<staged, counts>>
  /\ UNCHANGED <<doc, row, receipts, job, callers, live, last>>

RecoverCleanup ==
  /\ status = "starting" /\ job.phase = "cleanup"
  /\ \/ staged' = Unset /\ UNCHANGED <<catalog, counts>>
     \/ Trouble /\ Count("troubles") /\ Require /\ UNCHANGED staged
  /\ Ended(Unset)
  /\ UNCHANGED <<doc, row, receipts, live, last>>

-----------------------------------------------------------------------------
(* The environment. *)

(* The process stops: what it kept in memory is gone, its clients unanswered. *)
ProcessStops ==
  /\ status # "down"
  /\ Trouble
  /\ Count("troubles")
  /\ status' = "down"
  /\ job' = NoJob
  /\ request' = [r \in Requests |->
       IF request[r].at = "idle" THEN request[r] ELSE At("done")]
  /\ previews' = {}
  /\ flow' = IF flow.at = "granted" THEN [flow EXCEPT !.at = "failed"] ELSE flow
  /\ UNCHANGED <<durable, action, live, last>>

(* Someone edits the account file: content the service never wrote. *)
EditOutside(a) ==
  /\ Trouble
  /\ Present(doc, a)
  /\ Count("troubles")
  /\ doc' = [doc EXCEPT !.accounts[a] = Record(0, TRUE)]
  /\ last' = IF doc = last THEN doc' ELSE last
  /\ job' = IF job = NoJob THEN job ELSE [job EXCEPT !.touched = TRUE]
  /\ UNCHANGED <<staged, row, catalog, receipts, status, callers, live>>

(* Someone removes the staged file. *)
LoseStaged ==
  /\ Trouble
  /\ staged # Unset
  /\ Count("troubles")
  /\ staged' = Unset
  /\ UNCHANGED <<doc, row, catalog, receipts, status, job, callers, live, last>>

-----------------------------------------------------------------------------
AccountsInit ==
  /\ \E a \in Accounts :
       doc = [accounts |->
                [b \in Accounts |-> IF b = a THEN Record(1, TRUE) ELSE NoRecord],
              default |-> a]
  /\ staged = Unset
  /\ row = [id |-> 0, state |-> Unset]
  /\ catalog = [revision |-> 0, recovery |-> "clean", binding |-> Unset]
  /\ receipts = {}
  /\ status = "up"
  /\ job = NoJob
  /\ request = [r \in Requests |-> At("idle")]
  /\ action = [c \in Actions |->
       [kind |-> Unset, account |-> Unset, revision |-> 0, answer |-> Unset]]
  /\ previews = {}
  /\ flow = [at |-> "idle", account |-> Unset, token |-> 0, cancelled |-> FALSE]
  /\ live \in {{}, {1}}
  /\ counts = [issued |-> 1, intents |-> 0, troubles |-> 0]
  /\ last = doc

Kinds == {"delete", "default", "fixed", "follow"}

AccountsNext ==
  \/ \E c \in Actions : Apply(c) \/ \E kind \in Kinds, a \in Accounts : Submit(c, kind, a)
  \/ \E r \in Requests : ReadAccount(r) \/ Refresh(r) \/ RecordRefresh(r)
  \/ \E a \in Accounts : Grant(a) \/ EditOutside(a)
  \/ Cancel \/ RecordAuthorization
  \/ Stage \/ Begin \/ WriteFile \/ Commit \/ Unstage \/ UndoWrite \/ MarkUndone
  \/ RecoverPending \/ RecoverSettled \/ RecoverCleanup
  \/ ProcessStops \/ LoseStaged

AccountsSpec == AccountsInit /\ [][AccountsNext]_accountsVars

-----------------------------------------------------------------------------
Records == {NoRecord} \cup [token : 0 .. MaxToken, ok : BOOLEAN]
AccountDocuments == [accounts : [Accounts -> Records], default : Accounts \cup {Unset}]

(* Type invariant. *)
AccountsTypeOK ==
  /\ doc \in AccountDocuments /\ last \in AccountDocuments
  /\ staged = Unset \/ staged \in [id : 1 .. MaxIntents, before : AccountDocuments,
                                  desired : AccountDocuments]
  /\ row \in [id : 0 .. MaxIntents,
              state : {Unset, "pending", "committed", "rolled-back", "recovery-required"}]
  /\ receipts \subseteq Actions /\ previews \subseteq Actions
  /\ status \in {"down", "starting", "up"}
  /\ catalog.recovery \in {"clean", "required"}

(* While nothing is pending and the catalog asks for no recovery, the account *)
(* file at rest is the one the last committed mutation installed, or what     *)
(* someone outside has made of it since: no rollback, no recovery and no      *)
(* interrupted write leaves tokens that no commit stands for                  *)
(* (subscription/coordinator.rs commit_private_mutation, rollback_intent and  *)
(* recover_pending_intents).                                                  *)
RestIsCommitted ==
  /\ AccountsTypeOK
  /\ Free /\ ~Pending /\ catalog.recovery = "clean" => doc = last

(* A record is condemned to a new authorization only for a token that the   *)
(* authority has rejected.                                                    *)
CondemnedIsRejected ==
  \A a \in Accounts :
    Present(last, a) /\ ~last.accounts[a].ok => last.accounts[a].token \notin live

(* A refresh commits only over the record it read before it called the        *)
(* authority, and a removed account comes back only by a new authorization:   *)
(* an answer that comes late records nothing, whatever was committed while    *)
(* the authority was answering (record_refresh's comparison with the record   *)
(* access_token_for_account read outside the gate).  Nor does it condemn: of  *)
(* two requests that refresh the same token, the second leaves the token the  *)
(* first one obtained alone.                                                  *)
LateRefreshRecordsNothing ==
  [][/\ CondemnedIsRejected'
     /\ \A a \in Accounts :
       (/\ catalog'.revision # catalog.revision
        /\ last'.accounts[a] # last.accounts[a]
        /\ Present(last', a) /\ ~job.touched)
       => IF job.by \in Requests
            THEN last.accounts[a] = request[job.by].expected
            ELSE job.by = Flow]_accountsVars

(* What a caller is told is what happened, across lost answers and restarts:  *)
(* an action answered as applied has its receipt, one answered as failed has  *)
(* none, and a token of a cancelled authorization is in no committed record   *)
(* (apply's receipt, begin_commit of the cancellation).                       *)
AnswersAreTrue ==
  /\ \A c \in Actions : action[c].answer # Unset =>
       (action[c].answer = "applied" <=> c \in receipts)
  /\ flow.cancelled => \A a \in Accounts :
       Present(last, a) => last.accounts[a].token # flow.token

(* A start that leaves no intent pending and asks for no recovery opens the   *)
(* accounts for writing again: no staged file is left to refuse every         *)
(* mutation, and the file is the committed one (recover_pending_intents).     *)
StartSettles ==
  [][status # "up" /\ status' = "up"
       /\ row'.state # "pending" /\ catalog'.recovery = "clean"
       => staged' = Unset /\ doc' = last']_accountsVars
=============================================================================
