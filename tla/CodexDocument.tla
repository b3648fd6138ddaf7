--------------------------- MODULE CodexDocument ---------------------------
(***************************************************************************)
(* What Muxvia does to a Codex configuration document: which of its fields *)
(* it owns, how it takes them over, how it hands a provider table it       *)
(* adopted back, and how a management that goes through activations and    *)
(* adoptions ends.  Pure operators on documents; module Activation and     *)
(* module Reconciliation say when the code uses them.                      *)
(*                                                                         *)
(* A document is taken as what it says.  A table that holds nothing is one *)
(* that is not there, fields are inline values, and a value is what it     *)
(* means and how it is written: Canonical is the way Muxvia writes it.     *)
(***************************************************************************)
CONSTANTS
  Keys,       \* names of provider tables
  Reserved,   \* "muxvia_codex"
  NoKey,      \* the empty name, when no provider is selected
  Values,     \* values of fields
  Canonical,  \* value -> the same, as Muxvia writes it
  Normal,     \* value -> the same, with its URL normalised
  Restorable, \* values that a provider table may be given back with
  None        \* a field that is not there

ASSUME KeysAssumption == Reserved \in Keys /\ NoKey \notin Keys /\ None \notin Keys
ASSUME ValuesAssumption ==
  /\ None \notin Values /\ Restorable \subseteq Values
  /\ Canonical \in [Values -> Values] /\ Normal \in [Values -> Values]
  /\ \A v \in Values : /\ Canonical[Canonical[v]] = Canonical[v]
                       /\ Canonical[v] \in Restorable <=> v \in Restorable

Items == Values \cup {None}
Fields == {"name", "base_url", "wire_api", "http_headers", "supports_websockets"}
Tables == [Fields -> Items]
NoFields == [f \in Fields |-> None]

(* beside: what else a provider's table holds; other: the rest of the file. *)
Documents ==
  [exists : BOOLEAN, model : Items, selected : Keys \cup {None},
   fields : [Keys -> Tables], beside : [Keys -> Items], other : Items]

Means(i) == IF i = None THEN None ELSE Canonical[i]
TableMeans(t) == [f \in Fields |-> Means(t[f])]

(* How a key's table is cleared of the fields, and how they are set.        *)
Put(tables, k, t) == [j \in Keys |-> IF j = k THEN t ELSE tables[j]]
Cleared(tables, k) == Put(tables, k, NoFields)

-----------------------------------------------------------------------------
(* Capturing a document for the table named k.                              *)
Owned(d, k) ==
  [key |-> k, model |-> d.model, selected |-> d.selected,
   fields |-> IF k = NoKey THEN NoFields ELSE d.fields[k]]

OwnedStates ==
  [key : Keys \cup {NoKey}, model : Items, selected : Keys \cup {None}, fields : Tables]

SameOwned(a, b) ==
  /\ a.key = b.key /\ a.selected = b.selected
  /\ Means(a.model) = Means(b.model) /\ TableMeans(a.fields) = TableMeans(b.fields)

Unrelated(d, k) ==
  [fields |-> Cleared([j \in Keys |-> TableMeans(d.fields[j])], k),
   beside |-> d.beside, other |-> d.other]

Without(unrelated, k) == [unrelated EXCEPT !.fields = Cleared(@, k)]

SelectedKey(d) == IF d.selected = None THEN NoKey ELSE d.selected

(* How a table is to be given back; one that Muxvia could not have written  *)
(* is only known by its name.                                               *)
Whole(t) == \A f \in Fields : t[f] # None => t[f] \in Restorable
RestoreOf(k, t) == [key |-> k, whole |-> Whole(t), fields |-> IF Whole(t) THEN t ELSE NoFields]
NoRestore == [key |-> NoKey, whole |-> TRUE, fields |-> NoFields]

CaptureRestore(d, k) == RestoreOf(k, d.fields[k])
RestoreFromUnrelated(unrelated, k) == RestoreOf(k, unrelated.fields[k])

SelectedRestore(d, k) ==
  IF d.selected \in Keys \ {k} THEN CaptureRestore(d, d.selected) ELSE NoRestore

Snapshot(d, k) ==
  [exists |-> d.exists, owned |-> Owned(d, k), unrelated |-> Unrelated(d, k),
   restore |-> SelectedRestore(d, k)]

(* The Recovery Snapshot, told how to give the table k back: as it was      *)
(* captured when it was the selected one, or as the unrelated part has it.  *)
WithRestoreFor(before, k) ==
  [before EXCEPT !.restore =
     IF @.key = k THEN @ ELSE RestoreFromUnrelated(before.unrelated, k)]
CanRestoreFor(before, k) == k # NoKey /\ WithRestoreFor(before, k).restore.whole

-----------------------------------------------------------------------------
(* Writing.                                                                 *)
ApplyOwned(d, current, owned) ==
  LET prior == IF current \notin {owned.key, NoKey} THEN Cleared(d.fields, current) ELSE d.fields
  IN [d EXCEPT !.exists = TRUE, !.model = owned.model, !.selected = owned.selected,
               !.fields = IF owned.key = NoKey THEN prior ELSE Put(prior, owned.key, owned.fields)]

ApplyRestore(d, restore) == [d EXCEPT !.fields = Put(@, restore.key, restore.fields)]

Blank == [exists |-> FALSE, model |-> None, selected |-> None,
          fields |-> [k \in Keys |-> NoFields], beside |-> [k \in Keys |-> None], other |-> None]
HoldsNothing(d) == [d EXCEPT !.exists = FALSE] = Blank

(* A file that was not there is removed again once nothing is left in it.   *)
OrRemoved(d, existed) == IF HoldsNothing(d) /\ ~existed THEN Blank ELSE d

RestoreUnionDocument(d, before, desired, restore) ==
  ApplyRestore(ApplyOwned(d, before.owned.key, desired), restore)

(* planned_restore_union_file_state.                                        *)
PlannedExists(d, historical) == historical.exists \/ ~HoldsNothing(d)

RestoreUnion(d, before, desired, restore, historical) ==
  OrRemoved(RestoreUnionDocument(d, before, desired, restore), historical.exists)

(* What verifying a restore, and undoing one, ask of the file.              *)
RestoreUnionMatches(d, before, desired, restore, exists) ==
  /\ SameOwned(Owned(d, desired.key), desired)
  /\ CaptureRestore(d, restore.key) = restore
  /\ Without(Unrelated(d, desired.key), restore.key) = Without(before.unrelated, desired.key)
  /\ d.exists = exists

(* Undoing a restore: the owned fields as they were observed and, when the  *)
(* restore moved to another table, the fields that one had.                 *)
PriorTable(before, k) == [key |-> k, whole |-> TRUE, fields |-> before.unrelated.fields[k]]
UndoRestoreUnion(d, before, desired) ==
  LET owned == ApplyOwned(d, desired.key, before.owned)
      whole == IF desired.key = before.owned.key THEN owned
               ELSE ApplyRestore(owned, PriorTable(before, desired.key))
  IN OrRemoved(whole, before.exists)

MatchesBefore(d, before) ==
  /\ Owned(d, before.owned.key) = before.owned
  /\ Unrelated(d, before.owned.key) = before.unrelated
  /\ d.exists = before.exists

-----------------------------------------------------------------------------
(* A management: the document, the owned fields that are committed and the  *)
(* bound Recovery Snapshot.                                                 *)
Desired(model, t) == [key |-> Reserved, model |-> model, selected |-> Reserved, fields |-> t]

(* A table that was adopted keeps its name.                                 *)
WithOwnership(owned, owner) ==
  IF owner.key = NoKey THEN owned
  ELSE [key |-> owner.key, model |-> owned.model, selected |-> owner.key,
        fields |-> [owned.fields EXCEPT !["name"] = owner.fields["name"]]]

(* A file that holds the reserved table is never taken for an operator's.   *)
CanStart(d) == d.fields[Reserved] = NoFields /\ d.beside[Reserved] = None
Started(d, model, t) ==
  [document |-> ApplyOwned(d, Reserved, Desired(model, t)),
   committed |-> Desired(model, t), bound |-> Snapshot(d, Reserved)]

(* Activating another Provider: the committed fields are built again from   *)
(* the Activated Snapshot and must come out as they were recorded, to the   *)
(* letter; the file only has to mean the same.                              *)
Rebuilt(owned) ==
  WithOwnership(
    Desired(Means(owned.model),
            [f \in Fields |-> IF f = "base_url" THEN Normal[Means(owned.fields[f])]
                                                ELSE Means(owned.fields[f])]),
    owned)
CanSwitch(m) ==
  /\ Rebuilt(m.committed) = m.committed
  /\ SameOwned(Owned(m.document, m.committed.key), m.committed)
Switched(m, model, t) ==
  LET desired == WithOwnership(Desired(model, t), m.committed) IN
  [m EXCEPT !.document = ApplyOwned(@, m.committed.key, desired), !.committed = desired]

(* Adopting: the selected table becomes the owned one.                      *)
ReconciliationProvider(owned) ==
  /\ owned.model # None /\ owned.key \in Keys
  /\ \A f \in Fields : owned.fields[f] \in Restorable
Selected(m) == Owned(m.document, SelectedKey(m.document))
CanAdopt(m) == ReconciliationProvider(Selected(m)) /\ CanRestoreFor(m.bound, Selected(m).key)
Adopted(m) ==
  [m EXCEPT !.committed = Selected(m), !.bound = WithRestoreFor(@, Selected(m).key)]

Reapplied(m) == [m EXCEPT !.document = ApplyOwned(@, m.committed.key, m.committed)]

(* Restoring: what was bound, and the committed table given back.           *)
CanRestore(m) == CanRestoreFor(m.bound, m.committed.key)
Restored(m) ==
  LET bound == WithRestoreFor(m.bound, m.committed.key) IN
  RestoreUnion(m.document, Snapshot(m.document, m.committed.key), bound.owned,
               bound.restore, bound)

(* The operator saves something else.                                       *)
Edited(m, d) == [m EXCEPT !.document = d]
=============================================================================
