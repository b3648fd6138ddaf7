--------------------------- MODULE ProviderCatalog ---------------------------
(* The providers of both targets, the Universal Providers that generate some  *)
(* of them, their credentials, the failover drafts and the activated route    *)
(* plans (state/providers.rs, state/universal_providers.rs,                   *)
(* state/provider_transfer.rs, the plan and commit parts of state/store.rs),  *)
(* with the requests that change more than one of them and the target gates   *)
(* they take (service/provider_synchronization.rs, control/server.rs).        *)
(*                                                                            *)
(* A transaction is one action. An action on one target that finds the gate   *)
(* free is one action too; one that would find its view stale changes nothing *)
(* and is left out. What several steps do, between which others commit, is a  *)
(* request: it captures the revisions its client saw, takes its gates one at  *)
(* a time and commits. A name and base URL are one value, a model with its    *)
(* authentication and routing requirement another; an incomplete provider is  *)
(* one without a credential.                                                  *)
EXTENDS Integers, FiniteSets, Sequences, SequencesExt

CONSTANTS
  Requests,     \* requests that take gates
  Values,       \* contents of a declaration
  Plain,        \* the content of a new one
  Secrets,      \* credential values
  None,         \* no provider, credential, owner or request
  MaxRows,      \* bound: providers of a target
  MaxUniversals,\* bound: Universal Providers
  MaxCommits    \* bound: committed revisions, all targets and the catalog

ASSUME CatalogAssumption ==
  /\ Plain \in Values
  /\ None \notin Nat \cup Secrets \cup Requests
  /\ IsFiniteSet(Requests)

Targets == {"codex", "claude"}
LockOrder == <<"codex", "claude">>

VARIABLES
  rows,         \* providers: per target, in position order
  creds,        \* credentials: per target, id to secret
  universals,   \* universal_providers with their targets, in position order
  ucreds,       \* universal_credentials
  catalog,      \* universal_provider_catalog_state
  route,        \* target_route_state: current, snapshot, active plan, revisions
  draft,        \* failover_drafts with their members
  planned,      \* credentials that some plan ever activated names
  gate,         \* who holds a target's mutation gate
  request       \* per request: what it is about and where it is

store == <<rows, creds, universals, ucreds, catalog, route, draft, planned>>
vars == <<rows, creds, universals, ucreds, catalog, route, draft, planned, gate, request>>

-----------------------------------------------------------------------------
(* Reading the store. *)

Secret(table, c) == IF c = None THEN None ELSE table[c]
Fresh(used) == CHOOSE n \in 1..(Cardinality(used) + 1) : n \notin used
Without(table, c) == [d \in DOMAIN table \ {c} |-> table[d]]
With(table, c, s) == [d \in DOMAIN table \cup {c} |-> IF d = c THEN s ELSE table[d]]

Ids(s) == {r.id : r \in ToSet(s)}
At(s, id) == CHOOSE i \in DOMAIN s : s[i].id = id
Row(t, id) == rows[t][At(rows[t], id)]
Universal(id) == universals[At(universals, id)]
GeneratedBy(u, t) == {r \in ToSet(rows[t]) : r.owner = u}

(* The statements that drop a credential row keep one that a provider or any *)
(* plan, active or not, still names.                                         *)
CollectUnprovided(t, table, providers, c) ==
  IF c = None \/ \E r \in ToSet(providers) : r.cred = c THEN table ELSE Without(table, c)
Collect(t, table, providers, c) ==
  IF c = None \/ c \in planned[t] \/ \E r \in ToSet(providers) : r.cred = c
    THEN table ELSE Without(table, c)
CollectUniversal(table, sources, c) ==
  IF c = None \/ \E u \in ToSet(sources) : u.cred = c THEN table ELSE Without(table, c)

NewCredential(t) == Fresh(DOMAIN creds[t])
NewSecret(t, s) == IF s = None THEN creds[t] ELSE With(creds[t], NewCredential(t), s)
NewId(t) ==
  Fresh(Ids(rows[t]) \cup Ids(draft[t].members) \cup ToSet(route[t].plan)
        \cup ({route[t].current, route[t].snapshot} \ {None})
        \cup {request[q].id : q \in {p \in Requests : request[p].at # "idle"}})
NewUniversal == Fresh(Ids(universals) \cup {request[q].id : q \in {p \in Requests : request[p].at # "idle"}})

(* project_active_references. *)
ReferencedByRoute(t, id) == id = route[t].current \/ id = route[t].snapshot
Referenced(t, id) == id = route[t].current \/ id = route[t].snapshot \/ id \in ToSet(route[t].plan)

(* Synchronization as the catalog view and as the target view project it. *)
Current(u, t) ==
  LET o == u.targets[t]
  IN  IF o.on THEN /\ GeneratedBy(u.id, t) # {}
                   /\ o.syncSrc = u.rev /\ o.syncOv = o.ov
              ELSE GeneratedBy(u.id, t) = {}
RowCurrent(t, r) ==
  LET u == Universal(r.owner) IN r.src = u.rev /\ r.ov = u.targets[t].ov
Synchronized(t, r) ==
  r.owner # None => RowCurrent(t, r) /\ Universal(r.owner).targets[t].on

Commits == catalog.rev + route["codex"].rev + route["claude"].rev
Room == Commits < MaxCommits  \* the model bound
Bump(t) == [route EXCEPT ![t].rev = @ + 1, ![t].seq = @ + 1]
BumpCatalog == catalog' = [rev |-> catalog.rev + 1, seq |-> catalog.seq + 1]
Unlocked(t) == gate[t] = None /\ Room

-----------------------------------------------------------------------------
(* Actions on one target (apply_provider_action_for, mutate_provider). *)

OwnRow(id, model, cred) ==
  [id |-> id, rev |-> 1, decl |-> Plain, model |-> model, cred |-> cred,
   owner |-> None, src |-> 0, ov |-> 0]
Insert(t, row, i) == rows' = [rows EXCEPT ![t] = InsertAt(@, i, row)]

CreateProvider(t) ==
  /\ Unlocked(t) /\ Len(rows[t]) < MaxRows
  /\ \E s \in Secrets \cup {None} :
       /\ Insert(t, OwnRow(NewId(t), Plain, IF s = None THEN None ELSE NewCredential(t)), Len(rows[t]) + 1)
       /\ creds' = [creds EXCEPT ![t] = NewSecret(t, s)]
  /\ route' = Bump(t)
  /\ UNCHANGED <<universals, ucreds, catalog, draft, planned, gate, request>>

DuplicateProvider(t) ==
  /\ Unlocked(t) /\ Len(rows[t]) < MaxRows
  /\ \E i \in DOMAIN rows[t], reuse \in BOOLEAN :
       Insert(t, [OwnRow(NewId(t), rows[t][i].model, IF reuse THEN rows[t][i].cred ELSE None)
                    EXCEPT !.decl = rows[t][i].decl], i + 1)
  /\ route' = Bump(t)
  /\ UNCHANGED <<creds, universals, ucreds, catalog, draft, planned, gate, request>>

UpdateProvider(t) ==
  /\ Unlocked(t)
  /\ \E i \in DOMAIN rows[t], v \in Values, edit \in Secrets \cup {None, "keep"} :
       LET old == rows[t][i]
           cred == IF edit = "keep" THEN old.cred
                   ELSE IF edit = None THEN None ELSE NewCredential(t)
           new == [old EXCEPT !.model = v, !.cred = cred, !.rev = @ + 1]
           after == [rows EXCEPT ![t][i] = new]
           table == NewSecret(t, IF edit = "keep" THEN None ELSE edit)
       IN /\ old.owner = None
          /\ <<v, cred>> # <<old.model, old.cred>>
          /\ rows' = after
          /\ creds' = [creds EXCEPT ![t] =
                         IF cred = old.cred THEN table ELSE Collect(t, table, after[t], old.cred)]
  /\ route' = Bump(t)
  /\ UNCHANGED <<universals, ucreds, catalog, draft, planned, gate, request>>

(* A synchronized generated provider may change its overlay: the row and the *)
(* Universal Provider's target change together.                              *)
UpdateGenerated(t) ==
  /\ Unlocked(t)
  /\ \E i \in DOMAIN rows[t], v \in Values :
       LET old == rows[t][i]
           k == At(universals, old.owner)
           ov == universals[k].targets[t].ov + 1
       IN /\ old.owner # None /\ Synchronized(t, old) /\ v # old.model
          /\ rows' = [rows EXCEPT ![t][i].model = v, ![t][i].rev = @ + 1, ![t][i].ov = ov]
          /\ universals' = [universals EXCEPT ![k].targets[t] =
                              [@ EXCEPT !.model = v, !.ov = ov, !.syncOv = ov]]
  /\ BumpCatalog
  /\ route' = Bump(t)
  /\ UNCHANGED <<creds, ucreds, draft, planned, gate, request>>

DeleteProvider(t) ==
  /\ Unlocked(t)
  /\ \E i \in DOMAIN rows[t] :
       /\ rows[t][i].owner = None
       /\ ~Referenced(t, rows[t][i].id)
       /\ rows' = [rows EXCEPT ![t] = RemoveAt(@, i)]
       /\ creds' = [creds EXCEPT ![t] = Collect(t, @, RemoveAt(rows[t], i), rows[t][i].cred)]
  /\ route' = Bump(t)
  /\ UNCHANGED <<universals, ucreds, catalog, draft, planned, gate, request>>

ReorderProviders(t) ==
  /\ Unlocked(t) /\ Len(rows[t]) > 1
  /\ rows' = [rows EXCEPT ![t] = Reverse(@)]
  /\ route' = Bump(t)
  /\ UNCHANGED <<creds, universals, ucreds, catalog, draft, planned, gate, request>>

-----------------------------------------------------------------------------
(* Failover drafts and plans (save_failover_draft_for, apply_failover_chain_for). *)

Complete(t, r) == r.cred # None /\ Synchronized(t, r)

SaveDraft(t) ==
  /\ Unlocked(t)
  /\ route[t].current # None
  /\ \E s \in {route[t].current} \cup (Ids(rows[t]) \ {route[t].current}) :
       LET chain == IF s = route[t].current THEN <<s>> ELSE <<route[t].current, s>>
       IN /\ \A id \in ToSet(chain) : id \in Ids(rows[t]) /\ Complete(t, Row(t, id))
          /\ draft' = [draft EXCEPT ![t] =
               [rev |-> @.rev + 1,
                members |-> [i \in DOMAIN chain |-> [id |-> chain[i], rev |-> Row(t, chain[i]).rev]]]]
  /\ route' = Bump(t)
  /\ UNCHANGED <<rows, creds, universals, ucreds, catalog, planned, gate, request>>

ApplyChain(t) ==
  LET members == draft[t].members
  IN /\ Unlocked(t)
     /\ route[t].current # None
     /\ members # <<>> /\ members[1].id = route[t].current
     /\ \A m \in ToSet(members) :
          /\ m.id \in Ids(rows[t])
          /\ m.rev = Row(t, m.id).rev
          /\ Complete(t, Row(t, m.id))
     /\ route' = [Bump(t) EXCEPT ![t].plan = [i \in DOMAIN members |-> members[i].id]]
     /\ planned' = [planned EXCEPT ![t] = @ \cup {Row(t, m.id).cred : m \in ToSet(members)}]
     /\ UNCHANGED <<rows, creds, universals, ucreds, catalog, draft, gate, request>>

(* A change of what a target's route refers to republishes the catalog when *)
(* a generated provider becomes or stops being current or the snapshot.     *)
GeneratedReferences(t, r) ==
  {<<g.id, g.id = r.current, g.id = r.snapshot>> : g \in {x \in ToSet(rows[t]) : x.owner # None}}
RerouteQuietly(t, r) ==
  /\ route' = [Bump(t) EXCEPT ![t].current = r.current, ![t].snapshot = r.snapshot, ![t].plan = r.plan]
  /\ UNCHANGED catalog
Reroute(t, r) ==
  /\ route' = [Bump(t) EXCEPT ![t].current = r.current, ![t].snapshot = r.snapshot, ![t].plan = r.plan]
  /\ catalog' = IF GeneratedReferences(t, r) = GeneratedReferences(t, route[t])
                  THEN catalog ELSE [catalog EXCEPT !.seq = @ + 1]
Routed(id) == [current |-> id, snapshot |-> id, plan |-> <<id>>]
Unrouted == [current |-> None, snapshot |-> None, plan |-> <<>>]
Redraft(t, members) == draft' = [draft EXCEPT ![t] = [rev |-> @.rev + 1, members |-> members]]

(* commit_reconciliation: restoring the original leaves the target unmanaged, *)
(* adopting the external declaration makes a provider of it.                  *)
Restore(t) ==
  /\ Unlocked(t)
  /\ route[t].current # None
  /\ Reroute(t, Unrouted)
  /\ Redraft(t, <<>>)
  /\ UNCHANGED <<rows, creds, universals, ucreds, planned, gate, request>>

Adopt(t) ==
  /\ Unlocked(t) /\ Len(rows[t]) < MaxRows
  /\ route[t].current # None
  /\ \E s \in Secrets :
       LET prior == Row(t, route[t].current).cred
           same == Secret(creds[t], prior) = s
           cred == IF same THEN prior ELSE NewCredential(t)
           id == NewId(t)
       IN /\ Insert(t, OwnRow(id, Plain, cred), Len(rows[t]) + 1)
          /\ creds' = [creds EXCEPT ![t] = NewSecret(t, IF same THEN None ELSE s)]
          /\ planned' = [planned EXCEPT ![t] = @ \cup {cred}]
          /\ Reroute(t, Routed(id))
          /\ Redraft(t, <<[id |-> id, rev |-> 1]>>)
  /\ UNCHANGED <<universals, ucreds, gate, request>>

-----------------------------------------------------------------------------
(* Universal Providers: what commits without a gate. *)

Overlay(on, v) == [on |-> on, model |-> v, ov |-> 1, syncSrc |-> 0, syncOv |-> 0]
NewSource(id, v, cred, targets) ==
  [id |-> id, rev |-> 1, decl |-> v, cred |-> cred, targets |-> targets]
NewUniversalSecret(s) ==
  IF s = None THEN ucreds ELSE With(ucreds, Fresh(DOMAIN ucreds), s)

CreateUniversal ==
  /\ Room /\ Len(universals) < MaxUniversals
  /\ \E s \in Secrets \cup {None}, on \in SUBSET Targets :
       /\ universals' = Append(universals,
            NewSource(NewUniversal, Plain, IF s = None THEN None ELSE Fresh(DOMAIN ucreds),
                      [t \in Targets |-> Overlay(t \in on, Plain)]))
       /\ ucreds' = NewUniversalSecret(s)
  /\ BumpCatalog
  /\ UNCHANGED <<rows, creds, route, draft, planned, gate, request>>

DuplicateUniversal ==
  /\ Room /\ Len(universals) < MaxUniversals
  /\ \E u \in ToSet(universals), reuse \in BOOLEAN :
       universals' = Append(universals,
         NewSource(NewUniversal, u.decl, IF reuse THEN u.cred ELSE None,
                   [t \in Targets |-> Overlay(u.targets[t].on, u.targets[t].model)]))
  /\ BumpCatalog
  /\ UNCHANGED <<rows, creds, ucreds, route, draft, planned, gate, request>>

-----------------------------------------------------------------------------
(* An import of a Universal Provider (commit_provider_import_transaction): a *)
(* declared target may bring its generated provider, already synchronized.   *)

Imported(id, cred, owner) ==
  [OwnRow(id, Plain, cred) EXCEPT !.decl = Plain, !.owner = owner, !.src = 1, !.ov = 1]

ImportUniversal ==
  /\ Room /\ Len(universals) < MaxUniversals
  /\ \A t \in Targets : Len(rows[t]) < MaxRows
  /\ \E s \in Secrets, on \in SUBSET Targets : \E generated \in SUBSET on :
       LET u == NewUniversal
       IN /\ universals' = Append(universals,
               NewSource(u, Plain, Fresh(DOMAIN ucreds),
                 [t \in Targets |-> [Overlay(t \in on, Plain) EXCEPT
                    !.syncSrc = IF t \in on THEN 1 ELSE 0, !.syncOv = IF t \in on THEN 1 ELSE 0]]))
          /\ ucreds' = NewUniversalSecret(s)
          /\ rows' = [t \in Targets |->
               IF t \in generated THEN Append(rows[t], Imported(NewId(t), NewCredential(t), u))
                                  ELSE rows[t]]
          /\ creds' = [t \in Targets |-> IF t \in generated THEN NewSecret(t, s) ELSE creds[t]]
          /\ route' = [t \in Targets |-> IF t \in generated THEN Bump(t)[t] ELSE route[t]]
  /\ BumpCatalog
  /\ UNCHANGED <<draft, planned, gate, request>>

-----------------------------------------------------------------------------
(* Requests that take gates. *)

Idle == [at |-> "idle"]
Done == [at |-> "done", id |-> 0]

Issue(q, kind, id, want) ==
  request' = [request EXCEPT ![q] = [at |-> "locking", kind |-> kind, id |-> id, want |-> want,
                                     seen |-> catalog.rev]]

(* Which targets a synchronization locks is read before the first lock. *)
InLockOrder(pending) ==
  CHOOSE s \in {<<>>, <<"codex">>, <<"claude">>, LockOrder} : ToSet(s) = pending
PlannedBackwards(u) == Reverse(InLockOrder({t \in Targets : ~Current(u, t)}))
PlannedTargets(u) == InLockOrder({t \in Targets : ~Current(u, t)})

IssueSynchronize(q) ==
  /\ request[q].at = "idle" /\ Room
  /\ \E u \in ToSet(universals) :
       Issue(q, [act |-> "synchronize", rev |-> u.rev], u.id, PlannedTargets(u))
  /\ UNCHANGED <<store, gate>>

(* lock_catalog_lifecycle_mutation. *)
IssueLifecycle(q) ==
  /\ request[q].at = "idle" /\ Room
  /\ \E u \in ToSet(universals) :
       Issue(q, [act |-> "lifecycle", rev |-> u.rev], u.id, LockOrder)
  /\ UNCHANGED <<store, gate>>

IssueActivate(q) ==
  /\ request[q].at = "idle" /\ Room
  /\ \E t \in Targets : \E r \in ToSet(rows[t]) :
       request' = [request EXCEPT ![q] =
         [at |-> "locking", kind |-> [act |-> "activate", rev |-> 0], id |-> r.id, want |-> <<t>>,
          seen |-> route[t].rev]]
  /\ UNCHANGED <<store, gate>>

Lock(q) ==
  /\ request[q].at = "locking" /\ request[q].want # <<>>
  /\ LET t == Head(request[q].want)
     IN /\ gate[t] = None
        /\ gate' = [gate EXCEPT ![t] = q]
  /\ request' = [request EXCEPT ![q].want = Tail(@)]
  /\ UNCHANGED store

Locked(q, act) ==
  request[q].at = "locking" /\ request[q].want = <<>> /\ request[q].kind.act = act
Release(q) ==
  /\ gate' = [t \in Targets |-> IF gate[t] = q THEN None ELSE gate[t]]
  /\ request' = [request EXCEPT ![q] = Done]

(* Refused: a blocked managed write, a failed transaction, a stale revision. *)
Refuse(q) ==
  /\ request[q].at \in {"locking", "prepared", "previewed"} /\ request[q].want = <<>>
  /\ Release(q)
  /\ UNCHANGED store

(* apply_universal_provider_action_with_target_views and, for a              *)
(* synchronization, its twin look for the revision in the transaction.        *)
Expected(q) == catalog.rev = request[q].seen
UpToDate(q) ==
  /\ Expected(q)
  /\ request[q].id \in Ids(universals)
  /\ Universal(request[q].id).rev = request[q].kind.rev

-----------------------------------------------------------------------------
(* synchronize_universal_provider_action: one transaction over both targets. *)

Removed(t, id) == RemoveAt(rows[t], At(rows[t], id))

(* A target's providers and credentials once u is synchronized to it. *)
SynchronizedTarget(u, t) ==
  LET o == u.targets[t]
      old == GeneratedBy(u.id, t)
      row == CHOOSE r \in old : TRUE
      secret == Secret(ucreds, u.cred)
      previous == IF old = {} THEN None ELSE row.cred
      unchanged == Secret(creds[t], previous) = secret
      cred == IF unchanged THEN previous ELSE IF secret = None THEN None ELSE NewCredential(t)
      table == NewSecret(t, IF unchanged THEN None ELSE secret)
      new == [id |-> IF old = {} THEN NewId(t) ELSE row.id,
              rev |-> IF old = {} THEN 1 ELSE row.rev + 1,
              decl |-> u.decl, model |-> o.model, cred |-> cred,
              owner |-> u.id, src |-> u.rev, ov |-> o.ov]
      after == IF ~o.on THEN Removed(t, row.id)
               ELSE IF old = {} THEN Append(rows[t], new)
               ELSE [rows[t] EXCEPT ![At(rows[t], row.id)] = new]
  IN  [rows |-> after,
       creds |-> IF ~o.on THEN Collect(t, creds[t], after, previous)
                 ELSE IF cred = previous THEN table ELSE Collect(t, table, after, previous)]

(* A target that is switched off keeps a generated provider that is in use.  *)
Blocked(u) ==
  \E t \in Targets : ~u.targets[t].on /\ \E r \in GeneratedBy(u.id, t) : Referenced(t, r.id)

Synchronize(q) ==
  LET u == Universal(request[q].id)
      k == At(universals, request[q].id)
      pending == {t \in Targets : ~Current(u, t)}
  IN /\ Locked(q, "synchronize")
     /\ UpToDate(q)
     /\ pending # {}
     /\ ~Blocked(u)
     /\ \A t \in pending : Len(rows[t]) < MaxRows \/ GeneratedBy(u.id, t) # {}
     /\ rows' = [t \in Targets |-> IF t \in pending THEN SynchronizedTarget(u, t).rows ELSE rows[t]]
     /\ creds' = [t \in Targets |-> IF t \in pending THEN SynchronizedTarget(u, t).creds ELSE creds[t]]
     /\ universals' = [universals EXCEPT ![k].targets =
          [t \in Targets |-> IF t \in pending THEN [@[t] EXCEPT !.syncSrc = u.rev, !.syncOv = u.targets[t].ov] ELSE @[t]]]
     /\ route' = [t \in Targets |-> IF t \in pending THEN Bump(t)[t] ELSE route[t]]
     /\ BumpCatalog
     /\ Release(q)
     /\ UNCHANGED <<ucreds, draft, planned>>

(* An edit changes the content, the credential or which targets are on. *)
Edits(u) ==
  LET same == [value |-> u.decl, secret |-> "keep", on |-> {t \in Targets : u.targets[t].on}]
  IN  {[same EXCEPT !.value = v] : v \in Values}
        \cup {[same EXCEPT !.secret = s] : s \in Secrets \cup {None}}
        \cup {[same EXCEPT !.on = on] : on \in SUBSET Targets}

RetargetedInPlace(o, on, v) == [o EXCEPT !.on = on, !.model = v]
Retargeted(o, on, v) == [o EXCEPT !.on = on, !.model = v, !.ov = @ + 1]

Resourced(u, v, cred) ==
  [u EXCEPT !.decl = v, !.cred = cred, !.rev = IF <<v, cred>> # <<u.decl, u.cred>> THEN @ + 1 ELSE @]
(* The targets whose view showed a generated provider as synchronized.       *)
Republished(shown) ==
  route' = [t \in Targets |-> IF t \in shown THEN [route[t] EXCEPT !.seq = @ + 1] ELSE route[t]]

(* update_universal_provider: a target that is switched off must not be in   *)
(* use; a target whose generated provider was synchronized shows it pending. *)
UpdateUniversal(q) ==
  /\ Locked(q, "lifecycle")
  /\ UpToDate(q)
  /\ \E edit \in Edits(Universal(request[q].id)) :
       LET u == Universal(request[q].id)
           v == edit.value
           on == edit.on
           k == At(universals, u.id)
           cred == IF edit.secret = "keep" THEN u.cred
                   ELSE IF edit.secret = None THEN None ELSE Fresh(DOMAIN ucreds)
           source == <<v, cred>> # <<u.decl, u.cred>>
           changed == {t \in Targets : <<t \in on, v>> # <<u.targets[t].on, u.targets[t].model>>}
           shown == {t \in Targets : \E r \in GeneratedBy(u.id, t) : RowCurrent(t, r)}
           after == [universals EXCEPT ![k] =
             [Resourced(u, v, cred) EXCEPT !.targets = [t \in Targets |->
                   IF t \in changed THEN Retargeted(@[t], t \in on, v) ELSE @[t]]]]
           table == IF edit.secret = "keep" THEN ucreds ELSE NewUniversalSecret(edit.secret)
       IN /\ \A t \in Targets \ on : \A r \in GeneratedBy(u.id, t) : ~Referenced(t, r.id)
          /\ source \/ changed # {}
          /\ universals' = after
          /\ ucreds' = IF cred = u.cred THEN table ELSE CollectUniversal(table, after, u.cred)
          /\ Republished(IF source THEN shown ELSE shown \intersect changed)
  /\ BumpCatalog
  /\ Release(q)
  /\ UNCHANGED <<rows, creds, draft, planned>>

DeleteUniversal(q) ==
  LET u == Universal(request[q].id)
      ofTarget(t) == GeneratedBy(u.id, t)
      gone(t) == CHOOSE r \in ofTarget(t) : TRUE
      left(t) == IF ofTarget(t) = {} THEN rows[t] ELSE Removed(t, gone(t).id)
      sources == RemoveAt(universals, At(universals, u.id))
  IN /\ Locked(q, "lifecycle")
     /\ UpToDate(q)
     /\ \A t \in Targets : \A r \in ofTarget(t) : ~Referenced(t, r.id)
     /\ rows' = [t \in Targets |-> left(t)]
     /\ creds' = [t \in Targets |->
          IF ofTarget(t) = {} THEN creds[t] ELSE Collect(t, creds[t], left(t), gone(t).cred)]
     /\ universals' = sources
     /\ ucreds' = CollectUniversal(ucreds, sources, u.cred)
     /\ route' = [t \in Targets |-> IF ofTarget(t) = {} THEN route[t] ELSE Bump(t)[t]]
     /\ BumpCatalog
     /\ Release(q)
     /\ UNCHANGED <<draft, planned>>

-----------------------------------------------------------------------------
(* An activation reads its provider under the gate, writes the configuration *)
(* file (module Activation) and commits what it read.                        *)

Prepare(q) ==
  /\ Locked(q, "activate")
  /\ LET t == CHOOSE t \in Targets : gate[t] = q
         id == request[q].id
     IN /\ route[t].rev = request[q].seen
        /\ id \in Ids(rows[t])
        /\ Row(t, id).cred # None
        /\ request' = [request EXCEPT ![q] =
             [@ EXCEPT !.at = "prepared"]]
  /\ UNCHANGED <<store, gate>>

Activate(q) ==
  /\ request[q].at = "prepared"
  /\ LET t == CHOOSE t \in Targets : gate[t] = q
         id == request[q].id
     IN /\ route[t].rev = request[q].seen
        /\ id \in Ids(rows[t]) /\ Row(t, id).cred # None
        /\ planned' = [planned EXCEPT ![t] = @ \cup {Row(t, id).cred}]
        /\ Reroute(t, Routed(id))
        /\ Redraft(t, <<[id |-> id, rev |-> Row(t, id).rev]>>)
  /\ Release(q)
  /\ UNCHANGED <<rows, creds, universals, ucreds>>

-----------------------------------------------------------------------------
(* An import into a target. Its preview says what a confirmation would do:    *)
(* make a provider, or use one that matches the candidate exactly. The token  *)
(* is good for one confirmation, which takes no gate and looks again.         *)

Candidate(t, model, secret) == [act |-> "import", target |-> t, model |-> model, secret |-> secret]

PreviewImport(q) ==
  /\ request[q].at = "idle" /\ Room
  /\ \E t \in Targets :
       \E c \in {<<0, Candidate(t, Plain, s)>> : s \in Secrets}
                \cup {<<r.id, Candidate(t, r.model, Secret(creds[t], r.cred))>> :
                        r \in {x \in ToSet(rows[t]) : x.owner = None}} :
         request' = [request EXCEPT ![q] = [at |-> "previewed", kind |-> c[2], id |-> c[1], want |-> <<>>]]
  /\ UNCHANGED <<store, gate>>

IsExact(q) ==
  LET c == request[q].kind IN
    \E r \in ToSet(rows[c.target]) :
      /\ r.id = request[q].id /\ r.owner = None
      /\ <<r.model, Secret(creds[c.target], r.cred)>> = <<c.model, c.secret>>

(* The drafts an export carries replace the target's own. *)
ConfirmImport(q) ==
  /\ request[q].at = "previewed"
  /\ LET t == request[q].kind.target
         create == request[q].id = 0
         id == IF create THEN NewId(t) ELSE request[q].id
         rev == IF create THEN 1 ELSE Row(t, id).rev
     IN /\ ~create => IsExact(q)
        /\ create => Len(rows[t]) < MaxRows
        /\ IF create
             THEN /\ Insert(t, OwnRow(id, Plain, NewCredential(t)), Len(rows[t]) + 1)
                  /\ creds' = [creds EXCEPT ![t] = NewSecret(t, request[q].kind.secret)]
             ELSE UNCHANGED <<rows, creds>>
        /\ \E drafts \in BOOLEAN :
             /\ IF drafts THEN Redraft(t, <<[id |-> id, rev |-> rev]>>) ELSE UNCHANGED draft
             /\ route' = IF create \/ drafts THEN Bump(t) ELSE route
  /\ Release(q)
  /\ UNCHANGED <<universals, ucreds, catalog, planned>>

-----------------------------------------------------------------------------
(* A configured home: each target has a provider of its own, and there is one *)
(* Universal Provider. Either it was never synchronized and neither target is *)
(* managed, or it generated a provider for both: codex routes to its own with *)
(* the generated one behind it, claude to the generated one.                  *)
Own == OwnRow(1, Plain, 1)
Generated == [OwnRow(2, Plain, 2) EXCEPT !.owner = 1, !.src = 1, !.ov = 1]
Managed(t) == IF t = "codex" THEN <<1, 2>> ELSE <<2>>

Init ==
  /\ \E s \in Secrets, managed \in BOOLEAN :
       /\ rows = [t \in Targets |-> IF managed THEN <<Own, Generated>> ELSE <<Own>>]
       /\ creds = [t \in Targets |-> [c \in 1..(IF managed THEN 2 ELSE 1) |-> s]]
       /\ universals = <<NewSource(1, Plain, 1, [t \in Targets |->
            [Overlay(TRUE, Plain) EXCEPT !.syncSrc = IF managed THEN 1 ELSE 0,
                                         !.syncOv = IF managed THEN 1 ELSE 0]])>>
       /\ ucreds = [c \in {1} |-> s]
       /\ route = [t \in Targets |->
            [current |-> IF managed THEN Managed(t)[1] ELSE None,
             snapshot |-> IF managed THEN Managed(t)[1] ELSE None,
             plan |-> IF managed THEN Managed(t) ELSE <<>>, rev |-> 1, seq |-> 1]]
       /\ draft = [t \in Targets |-> [rev |-> 1, members |->
            IF managed THEN [i \in DOMAIN Managed(t) |-> [id |-> Managed(t)[i], rev |-> 1]] ELSE <<>>]]
       /\ planned = [t \in Targets |-> IF managed THEN ToSet(Managed(t)) ELSE {}]
  /\ catalog = [rev |-> 1, seq |-> 1]
  /\ gate = [t \in Targets |-> None]
  /\ request = [q \in Requests |-> Idle]

TargetAction(t) ==
  \/ CreateProvider(t) \/ DuplicateProvider(t) \/ UpdateProvider(t) \/ UpdateGenerated(t)
  \/ DeleteProvider(t) \/ ReorderProviders(t) \/ SaveDraft(t) \/ ApplyChain(t)
  \/ Restore(t) \/ Adopt(t)

Step(q) ==
  \/ Lock(q) \/ Refuse(q) \/ Synchronize(q) \/ UpdateUniversal(q) \/ DeleteUniversal(q)
  \/ Prepare(q) \/ Activate(q) \/ ConfirmImport(q)

Next ==
  \/ \E t \in Targets : TargetAction(t)
  \/ CreateUniversal \/ DuplicateUniversal \/ ImportUniversal
  \/ \E q \in Requests : IssueSynchronize(q) \/ IssueLifecycle(q) \/ IssueActivate(q) \/ PreviewImport(q) \/ Step(q)

Spec == Init /\ [][Next]_vars

-----------------------------------------------------------------------------
TypeOK ==
  /\ \A t \in Targets :
       /\ \A r \in ToSet(rows[t]) : r.id \in Nat /\ r.rev \in Nat \ {0} /\ r.owner \in Nat \cup {None}
       /\ \A c \in DOMAIN creds[t] : creds[t][c] \in Secrets
       /\ route[t].rev \in Nat /\ route[t].seq \in Nat
       /\ gate[t] \in Requests \cup {None}
  /\ \A q \in Requests : request[q].at \in {"idle", "locking", "prepared", "previewed", "done"}

(* What a target routes to, now or by its active plan, is a provider of it:  *)
(* no deletion, switched-off target, removed Universal Provider or import    *)
(* takes away a row that a committed route names, in whatever order those    *)
(* transactions and the activations, plans and reconciliations commit.       *)
RoutesExist ==
  \A t \in Targets :
    ({route[t].current, route[t].snapshot} \ {None}) \cup ToSet(route[t].plan) \subseteq Ids(rows[t])

(* Every credential a provider or a plan names is kept, and no credential is *)
(* kept that nothing names: a secret the user removed is gone from the store.*)
CredentialsAreExact ==
  /\ \A t \in Targets :
       DOMAIN creds[t] = ({r.cred : r \in ToSet(rows[t])} \cup planned[t]) \ {None}
  /\ DOMAIN ucreds = {u.cred : u \in ToSet(universals)} \ {None}

(* Whatever a committed row names is there, and nothing else is kept.        *)
ReferencesHold == TypeOK /\ RoutesExist /\ CredentialsAreExact

(* A generated provider that either view calls synchronized is what its      *)
(* Universal Provider declares, secret included; both views, which keep      *)
(* separate books of it, agree; and no generated provider outlives its owner.*)
GeneratedIsSource ==
  \A t \in Targets : \A r \in {x \in ToSet(rows[t]) : x.owner # None} :
    /\ r.owner \in Ids(universals)
    /\ LET u == Universal(r.owner)
       IN /\ Current(u, t) <=> RowCurrent(t, r)
          /\ RowCurrent(t, r) =>
               /\ u.targets[t].on
               /\ <<r.decl, r.model>> = <<u.decl, u.targets[t].model>>
               /\ Secret(creds[t], r.cred) = Secret(ucreds, u.cred)

(* What the views show, credentials by their presence. *)
TargetView(t) ==
  <<[i \in DOMAIN rows[t] |->
      LET r == rows[t][i]
      IN  <<r.id, r.rev, r.decl, r.model, r.cred = None, r.owner,
            r.owner # None => RowCurrent(t, r), Referenced(t, r.id)>>],
    route[t].current, route[t].snapshot, route[t].plan, draft[t]>>
CatalogContent ==
  [i \in DOMAIN universals |->
    LET u == universals[i]
    IN  <<u.id, u.rev, u.decl, u.cred = None,
          [t \in Targets |->
            <<u.targets[t].on, u.targets[t].model, u.targets[t].ov, Current(u, t),
              {<<r.id, r.id = route[t].current, r.id = route[t].snapshot>> : r \in GeneratedBy(u.id, t)}>>]>>]

(* The references by an active plan, which the catalog shows as well.        *)
PlanReferences ==
  [i \in DOMAIN universals |-> [t \in Targets |->
    {r.id : r \in GeneratedBy(universals[i].id, t)} \intersect ToSet(route[t].plan)]]
CatalogView == <<CatalogContent, PlanReferences>>

(* A change that takes no number of the catalog's is one of those references *)
(* only (generated_reference_fingerprint leaves them out), by a target's new *)
(* plan, and it is numbered in the view of that target.                      *)
OnlyReplanned ==
  /\ CatalogContent' = CatalogContent
  /\ \E t \in Targets : route'[t].plan # route[t].plan /\ route'[t].seq > route[t].seq

(* A transaction that changes what a client's view shows moves the sequence  *)
(* that orders the views, the other target's included, and the catalog's in  *)
(* all but the references by active plans: a client that drops views that    *)
(* are not newer keeps no outdated one, and of the catalog none but those.   *)
ViewsAreFresh ==
  [][/\ \A t \in Targets : TargetView(t)' # TargetView(t) => route'[t].seq > route[t].seq
     /\ CatalogView' # CatalogView =>
          catalog'.seq > catalog.seq \/ OnlyReplanned]_vars

(* Requests that wait for gates never wait for each other: the two places *)
(* that lock more than one target lock them in one order.                 *)
NoCircularWait ==
  \A S \in (SUBSET Requests) \ {{}} :
    \E q \in S :
      request[q].at = "locking" /\ request[q].want # <<>> => gate[Head(request[q].want)] \notin S
==============================================================================
