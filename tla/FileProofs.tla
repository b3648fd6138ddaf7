---------------------------------- MODULE FileProofs ----------------------------------
(***************************************************************************)
(* The files Muxvia writes: a Target's configuration, on every side of a   *)
(* write, and the private file of the subscription accounts.               *)
(*                                                                         *)
(* What holds of every Codex document, whatever the names, the values and  *)
(* the way they are written: taking over leaves the rest alone, a restore  *)
(* passes its own verification, and undoing it gives back what was         *)
(* observed.                                                               *)
(*                                                                         *)
(* What holds of every settings file of Claude, whatever the names, the    *)
(* entries and the other members: a write is verified and taken back, a    *)
(* crash on either side of it is settled, and an activation is refused     *)
(* where a reconciliation shows a shadow.                                  *)
(*                                                                         *)
(* What holds of every replacement of such a file, however often an editor *)
(* saves to it or removes it meanwhile: it loses nothing of the operator's *)
(* and its result says what it did.                                        *)
(*                                                                         *)
(* And what holds of the account file, whatever accounts, requests and     *)
(* actions: it is what was committed, through rollbacks, restarts and      *)
(* edits, and everyone is told what happened to it.                        *)
(***************************************************************************)
EXTENDS ManagedFile, CodexDocument, ClaudeSettings, SubscriptionAccounts, WellFoundedInduction,
        TLAPS

-----------------------------------------------------------------------------
(* Codex's document.                                                        *)

(* Blank files hold nothing, and setting a table's fields gives a document. *)
LEMMA NoFieldsType == NoFields \in Tables
BY DEF NoFields, Tables, Items

LEMMA PutType ==
  ASSUME NEW tables \in [Keys -> Tables], NEW k \in Keys, NEW t \in Tables
  PROVE  /\ Put(tables, k, t) \in [Keys -> Tables]
         /\ Cleared(tables, k) \in [Keys -> Tables]
BY NoFieldsType DEF Put, Cleared

LEMMA ApplyOwnedType ==
  ASSUME NEW d \in Documents, NEW current \in Keys \cup {NoKey},
         NEW owned \in OwnedStates
  PROVE  ApplyOwned(d, current, owned) \in Documents
<1> DEFINE prior == IF current \notin {owned.key, NoKey}
                    THEN Cleared(d.fields, current) ELSE d.fields
<1>1. /\ d.fields \in [Keys -> Tables] /\ owned.fields \in Tables
      /\ owned.model \in Items /\ owned.selected \in Keys \cup {None}
      /\ owned.key \in Keys \cup {NoKey}
  BY DEF Documents, OwnedStates
<1>2. prior \in [Keys -> Tables]
  BY <1>1, PutType
<1>3. (IF owned.key = NoKey THEN prior ELSE Put(prior, owned.key, owned.fields))
        \in [Keys -> Tables]
  BY <1>1, <1>2, PutType
<1> QED
  BY <1>1, <1>3 DEF ApplyOwned, Documents

(* Writing the owned fields of a table writes those and no other, so that   *)
(* what is captured next is what was written, beside what was there.        *)
THEOREM TakeoverKeepsUnrelated ==
  ASSUME NEW d \in Documents, NEW owned \in OwnedStates, owned.key \in Keys
  PROVE  /\ Owned(ApplyOwned(d, owned.key, owned), owned.key) = owned
         /\ Unrelated(ApplyOwned(d, owned.key, owned), owned.key) = Unrelated(d, owned.key)
<1> DEFINE w == ApplyOwned(d, owned.key, owned)
<1>1. /\ w.fields = Put(d.fields, owned.key, owned.fields)
      /\ w.model = owned.model /\ w.selected = owned.selected
      /\ w.beside = d.beside /\ w.other = d.other
  BY KeysAssumption DEF ApplyOwned, Documents
<1>2. Owned(w, owned.key) = owned
  BY <1>1, KeysAssumption DEF Owned, Put, OwnedStates
<1>3. Cleared([j \in Keys |-> TableMeans(w.fields[j])], owned.key)
        = Cleared([j \in Keys |-> TableMeans(d.fields[j])], owned.key)
  BY <1>1 DEF Cleared, Put
<1> QED
  BY <1>1, <1>2, <1>3 DEF Unrelated

-----------------------------------------------------------------------------
(* What a value means is not changed by asking again.                       *)
LEMMA MeansTwice ==
  ASSUME NEW t \in Tables
  PROVE  TableMeans(TableMeans(t)) = TableMeans(t)
<1>1. ASSUME NEW i \in Items PROVE Means(Means(i)) = Means(i)
  BY ValuesAssumption DEF Means, Items
<1> QED
  BY <1>1 DEF TableMeans, Tables

LEMMA MeansNothing == TableMeans(NoFields) = NoFields
BY DEF TableMeans, Means, NoFields

(* Taking one table and then another out of what is unrelated.              *)
LEMMA WithoutUnrelated ==
  ASSUME NEW d, NEW k, NEW j
  PROVE  Without(Unrelated(d, k), j)
           = [fields |-> Cleared(Cleared([i \in Keys |-> TableMeans(d.fields[i])], k), j),
              beside |-> d.beside, other |-> d.other]
<1> DEFINE cleared == Cleared([i \in Keys |-> TableMeans(d.fields[i])], k)
           rest == [fields |-> cleared, beside |-> d.beside, other |-> d.other]
<1>1. Unrelated(d, k) = rest
  BY DEF Unrelated
<1> HIDE DEF cleared
<1>2. [rest EXCEPT !.fields = Cleared(rest.fields, j)]
        = [fields |-> Cleared(cleared, j), beside |-> d.beside, other |-> d.other]
  OBVIOUS
<1>3. Without(rest, j) = [rest EXCEPT !.fields = Cleared(rest.fields, j)]
  BY DEF Without
<1> QED
  BY <1>1, <1>2, <1>3 DEF cleared

(* A file is only removed when what it holds is what a missing one holds.   *)
LEMMA RemovedHoldsNothing ==
  ASSUME NEW d \in Documents, NEW existed \in BOOLEAN
  PROVE  LET r == OrRemoved(d, existed) IN
         /\ r.fields = d.fields /\ r.model = d.model /\ r.selected = d.selected
         /\ r.beside = d.beside /\ r.other = d.other
         /\ r.exists = (d.exists /\ (existed \/ ~HoldsNothing(d)))
<1>1. CASE HoldsNothing(d) /\ ~existed
  <2>1. [d EXCEPT !.exists = FALSE] = Blank
    BY <1>1 DEF HoldsNothing
  <2>2. /\ d.fields = Blank.fields /\ d.model = Blank.model
        /\ d.selected = Blank.selected /\ d.beside = Blank.beside
        /\ d.other = Blank.other /\ Blank.exists = FALSE
    BY <2>1 DEF Documents, Blank
  <2> QED
    BY <1>1, <2>2 DEF OrRemoved
<1>2. CASE ~(HoldsNothing(d) /\ ~existed)
  BY <1>2 DEF OrRemoved, Documents
<1> QED
  BY <1>1, <1>2

(* What restoring leaves in the document, part by part.                     *)
LEMMA RestoreUnionParts ==
  ASSUME NEW d \in Documents, NEW k \in Keys, NEW desired \in OwnedStates,
         desired.key \in Keys, NEW t \in Tables, Whole(t), NEW before, NEW historical,
         before = Snapshot(d, k), historical.exists \in BOOLEAN
  PROVE  LET r == RestoreUnion(d, before, desired, RestoreOf(k, t), historical) IN
         /\ r.fields = Put(Put(Cleared(d.fields, k), desired.key, desired.fields), k, t)
         /\ r.model = desired.model /\ r.selected = desired.selected
         /\ r.beside = d.beside /\ r.other = d.other
         /\ r.exists = PlannedExists(
              RestoreUnionDocument(d, before, desired, RestoreOf(k, t)), historical)
<1> DEFINE a == ApplyOwned(d, k, desired)
           u == RestoreUnionDocument(d, before, desired, RestoreOf(k, t))
<1>1. before.owned.key = k
  BY DEF Snapshot, Owned
<1>2. a \in Documents
  BY ApplyOwnedType
<1>3. /\ RestoreOf(k, t).key = k /\ RestoreOf(k, t).fields = t
  BY DEF RestoreOf
<1>4. u = [a EXCEPT !.fields = Put(a.fields, k, t)]
  BY <1>1, <1>2, <1>3 DEF RestoreUnionDocument, ApplyRestore
<1>5. /\ a.exists = TRUE /\ a.model = desired.model /\ a.selected = desired.selected
      /\ a.beside = d.beside /\ a.other = d.other
      /\ a.fields = Put(IF k # desired.key THEN Cleared(d.fields, k) ELSE d.fields,
                        desired.key, desired.fields)
  BY KeysAssumption DEF ApplyOwned, Documents
<1>6. Put(a.fields, k, t) = Put(Put(Cleared(d.fields, k), desired.key, desired.fields), k, t)
  BY <1>5 DEF Put, Cleared
<1>7. Put(a.fields, k, t) \in [Keys -> Tables]
  BY <1>2, PutType DEF Documents
<1>8. u \in Documents
  BY <1>2, <1>4, <1>7 DEF Documents
<1>9. /\ u.exists = TRUE /\ u.model = desired.model /\ u.selected = desired.selected
      /\ u.beside = d.beside /\ u.other = d.other /\ u.fields = Put(a.fields, k, t)
  BY <1>2, <1>4, <1>5 DEF Documents
<1> HIDE DEF a, u
<1>10. LET r == OrRemoved(u, historical.exists) IN
       /\ r.fields = u.fields /\ r.model = u.model /\ r.selected = u.selected
       /\ r.beside = u.beside /\ r.other = u.other
       /\ r.exists = (u.exists /\ (historical.exists \/ ~HoldsNothing(u)))
  BY <1>8, RemovedHoldsNothing
<1>11. RestoreUnion(d, before, desired, RestoreOf(k, t), historical)
         = OrRemoved(u, historical.exists)
  BY DEF RestoreUnion, u
<1> QED
  BY <1>6, <1>9, <1>10, <1>11 DEF PlannedExists, u

(* A restore passes the verification that follows it: the code never        *)
(* refuses its own plan, unless the table it moves away from is the one it  *)
(* moves to and the two disagree on it.                                     *)
THEOREM RestoreIsVerified ==
  ASSUME NEW d \in Documents, NEW k \in Keys, NEW desired \in OwnedStates,
         desired.key \in Keys, NEW t \in Tables, Whole(t), NEW before, NEW historical,
         before = Snapshot(d, k), historical.exists \in BOOLEAN,
         desired.key = k => desired.fields = t
  PROVE  LET u == RestoreUnionDocument(d, before, desired, RestoreOf(k, t)) IN
         RestoreUnionMatches(
           RestoreUnion(d, before, desired, RestoreOf(k, t), historical),
           before, desired, RestoreOf(k, t), PlannedExists(u, historical))
<1> DEFINE r == RestoreUnion(d, before, desired, RestoreOf(k, t), historical)
<1>1. /\ r.fields = Put(Put(Cleared(d.fields, k), desired.key, desired.fields), k, t)
      /\ r.model = desired.model /\ r.selected = desired.selected
      /\ r.beside = d.beside /\ r.other = d.other
      /\ r.exists = PlannedExists(
           RestoreUnionDocument(d, before, desired, RestoreOf(k, t)), historical)
  BY RestoreUnionParts
<1> HIDE DEF r
<1>2. r.fields[desired.key] = desired.fields /\ r.fields[k] = t
  BY <1>1 DEF Put
<1>3. SameOwned(Owned(r, desired.key), desired)
  BY <1>1, <1>2, KeysAssumption DEF SameOwned, Owned, OwnedStates
<1>4. CaptureRestore(r, k) = RestoreOf(k, t)
  BY <1>2 DEF CaptureRestore
<1>5. Without(Unrelated(r, desired.key), k) = Without(before.unrelated, desired.key)
  <2>1. before.unrelated = Unrelated(d, k)
    BY DEF Snapshot
  <2>2. Cleared(Cleared([j \in Keys |-> TableMeans(r.fields[j])], desired.key), k)
          = Cleared(Cleared([j \in Keys |-> TableMeans(d.fields[j])], k), desired.key)
    BY <1>1 DEF Cleared, Put
  <2>3. Without(Unrelated(r, desired.key), k)
          = [fields |-> Cleared(Cleared([j \in Keys |-> TableMeans(r.fields[j])], desired.key), k),
             beside |-> r.beside, other |-> r.other]
    BY WithoutUnrelated
  <2>4. Without(Unrelated(d, k), desired.key)
          = [fields |-> Cleared(Cleared([j \in Keys |-> TableMeans(d.fields[j])], k), desired.key),
             beside |-> d.beside, other |-> d.other]
    BY WithoutUnrelated
  <2> QED
    BY <1>1, <2>1, <2>2, <2>3, <2>4
<1>6. RestoreOf(k, t).key = k
  BY DEF RestoreOf
<1> QED
  BY <1>1, <1>3, <1>4, <1>5, <1>6 DEF RestoreUnionMatches, r

-----------------------------------------------------------------------------
(* What every management keeps of the operator's file d: what was bound is  *)
(* what d held, and the table that is to be given back means what it did.   *)
GivenBack(restore, d) ==
  \/ restore = NoRestore
  \/ \E j \in Keys, t \in Tables :
       restore = RestoreOf(j, t) /\ TableMeans(t) = TableMeans(d.fields[j])

BoundTo(m, d) ==
  /\ m.committed \in OwnedStates /\ m.committed.key \in Keys
  /\ m.document \in Documents
  /\ m.bound.exists = d.exists /\ m.bound.owned = Owned(d, Reserved)
  /\ m.bound.unrelated = Unrelated(d, Reserved)
  /\ GivenBack(m.bound.restore, d)

Managements ==
  [document : Documents, committed : OwnedStates,
   bound : [exists : BOOLEAN, owned : OwnedStates,
            unrelated : [fields : [Keys -> Tables], beside : [Keys -> Items], other : Items],
            restore : [key : Keys \cup {NoKey}, whole : BOOLEAN, fields : Tables]]]

LEMMA MeansType ==
  ASSUME NEW t \in Tables
  PROVE  TableMeans(t) \in Tables
<1>1. ASSUME NEW i \in Items PROVE Means(i) \in Items
  BY ValuesAssumption DEF Means, Items
<1> QED
  BY <1>1 DEF TableMeans, Tables

(* What is to be given back may be asked for again.                         *)
LEMMA WithRestoreForParts ==
  ASSUME NEW m \in Managements, NEW k \in Keys
  PROVE  LET b == WithRestoreFor(m.bound, k) IN
         /\ b.exists = m.bound.exists /\ b.owned = m.bound.owned
         /\ b.unrelated = m.bound.unrelated
         /\ b.restore = IF m.bound.restore.key = k THEN m.bound.restore
                        ELSE RestoreOf(k, m.bound.unrelated.fields[k])
         /\ b.restore.key = k
<1> DEFINE b == WithRestoreFor(m.bound, k)
           x == IF m.bound.restore.key = k THEN m.bound.restore
                ELSE RestoreOf(k, m.bound.unrelated.fields[k])
<1>1. b = [m.bound EXCEPT !.restore = x]
  BY DEF WithRestoreFor, RestoreFromUnrelated
<1>2. x.key = k
  BY DEF RestoreOf
<1> HIDE DEF x
<1>3. /\ b.exists = m.bound.exists /\ b.owned = m.bound.owned
      /\ b.unrelated = m.bound.unrelated /\ b.restore = x
  BY <1>1 DEF Managements
<1> QED
  BY <1>2, <1>3 DEF x

LEMMA BoundGivesBack ==
  ASSUME NEW m \in Managements, NEW d \in Documents, BoundTo(m, d), CanStart(d),
         NEW k \in Keys
  PROVE  \E t \in Tables :
           /\ WithRestoreFor(m.bound, k).restore = RestoreOf(k, t)
           /\ TableMeans(t) = TableMeans(d.fields[k])
<1>1. CASE m.bound.restore.key = k
  <2>1. PICK j \in Keys, t \in Tables :
          m.bound.restore = RestoreOf(j, t) /\ TableMeans(t) = TableMeans(d.fields[j])
    BY <1>1, KeysAssumption DEF BoundTo, GivenBack, NoRestore
  <2>2. j = k
    BY <1>1, <2>1 DEF RestoreOf
  <2> QED
    BY <1>1, <2>1, <2>2, WithRestoreForParts
<1>2. CASE m.bound.restore.key # k
  <2> DEFINE t == m.bound.unrelated.fields[k]
  <2>1. t = IF k = Reserved THEN NoFields ELSE TableMeans(d.fields[k])
    BY DEF BoundTo, Unrelated, Cleared, Put
  <2>2. d.fields[k] \in Tables
    BY DEF Documents
  <2>3. t \in Tables
    BY <2>1, <2>2, NoFieldsType, MeansType
  <2>4. TableMeans(t) = TableMeans(d.fields[k])
    BY <2>1, <2>2, MeansTwice, MeansNothing DEF CanStart
  <2> QED
    BY <1>2, <2>3, <2>4, WithRestoreForParts
<1> QED
  BY <1>1, <1>2

(* Restoring gives back, of the file Muxvia first took over: the model, the *)
(* selection, the absence of the reserved table, and the table that is      *)
(* owned now.  Every other table is left as it is now, even one Muxvia      *)
(* owned before it adopted another.                                         *)
THEOREM RestoreGivesBack ==
  ASSUME NEW m \in Managements, NEW d \in Documents, BoundTo(m, d), CanStart(d),
         CanRestore(m)
  PROVE  LET r == Restored(m)
             k == m.committed.key
         IN /\ r.model = d.model /\ r.selected = d.selected
            /\ TableMeans(r.fields[k]) = TableMeans(d.fields[k])
            /\ TableMeans(r.fields[Reserved]) = NoFields
            /\ \A j \in Keys \ {k, Reserved} : r.fields[j] = m.document.fields[j]
            /\ r.beside = m.document.beside /\ r.other = m.document.other
<1> DEFINE k == m.committed.key
           b == WithRestoreFor(m.bound, k)
           r == Restored(m)
<1>1. k \in Keys /\ m.document \in Documents /\ Reserved \in Keys
  BY KeysAssumption DEF BoundTo
<1>2. PICK t \in Tables : b.restore = RestoreOf(k, t) /\ TableMeans(t) = TableMeans(d.fields[k])
  BY <1>1, BoundGivesBack
<1>3. b.owned = Owned(d, Reserved) /\ b.exists = d.exists
  BY <1>1, WithRestoreForParts DEF BoundTo
<1>4. Whole(t)
  BY <1>2 DEF CanRestore, CanRestoreFor, RestoreOf
<1>5. /\ Owned(d, Reserved) \in OwnedStates /\ Owned(d, Reserved).key = Reserved
      /\ Owned(d, Reserved).model = d.model /\ Owned(d, Reserved).selected = d.selected
      /\ Owned(d, Reserved).fields = NoFields
  BY KeysAssumption, NoFieldsType DEF Owned, OwnedStates, Documents, CanStart
<1>6. d.exists \in BOOLEAN
  BY DEF Documents
<1>7. r = RestoreUnion(m.document, Snapshot(m.document, k), b.owned, b.restore, b)
  BY DEF Restored
<1> HIDE DEF k, b, r
<1>8. /\ r.fields = Put(Put(Cleared(m.document.fields, k), Reserved, NoFields), k, t)
      /\ r.model = d.model /\ r.selected = d.selected
      /\ r.beside = m.document.beside /\ r.other = m.document.other
  BY <1>1, <1>2, <1>3, <1>4, <1>5, <1>6, <1>7, RestoreUnionParts
<1>9. r.fields[k] = t /\ (k # Reserved => r.fields[Reserved] = NoFields)
  BY <1>1, <1>8 DEF Put
<1>10. TableMeans(r.fields[Reserved]) = NoFields
  BY <1>2, <1>9, MeansNothing DEF CanStart
<1>11. \A j \in Keys \ {k, Reserved} : r.fields[j] = m.document.fields[j]
  BY <1>8 DEF Put, Cleared
<1> QED
  BY <1>2, <1>8, <1>9, <1>10, <1>11 DEF k, r

(* A takeover of an adopted table keeps the table's name.                   *)
LEMMA ShapeOfOwnership ==
  ASSUME NEW model \in Items, NEW t \in Tables, NEW owner \in OwnedStates,
         owner.key \in Keys
  PROVE  /\ WithOwnership(Desired(model, t), owner) \in OwnedStates
         /\ WithOwnership(Desired(model, t), owner).key = owner.key
<1> DEFINE o == Desired(model, t)
           named == [t EXCEPT !["name"] = owner.fields["name"]]
<1>1. owner.key # NoKey /\ owner.fields \in Tables
  BY KeysAssumption DEF OwnedStates
<1>2. named \in Tables
  <2>1. "name" \in Fields
    BY DEF Fields
  <2>2. owner.fields["name"] \in Items
    BY <1>1, <2>1 DEF Tables
  <2> QED
    BY <2>2 DEF Tables
<1>3. o = [key |-> Reserved, model |-> model, selected |-> Reserved, fields |-> t]
  BY DEF Desired
<1>4. /\ o.fields = t /\ o.model = model
  BY <1>3
<1>5. WithOwnership(o, owner)
        = [key |-> owner.key, model |-> model, selected |-> owner.key, fields |-> named]
  BY <1>1, <1>4 DEF WithOwnership
<1> HIDE DEF named
<1> QED
  BY <1>2, <1>5 DEF OwnedStates

(* Whatever a management goes through, it stays bound to the file it began  *)
(* with: no activation, adoption, reapplication or edit moves the Recovery  *)
(* Snapshot.                                                                *)
THEOREM ManagementStaysBound ==
  ASSUME NEW d \in Documents, CanStart(d), NEW model \in Items, NEW t \in Tables
  PROVE  /\ BoundTo(Started(d, model, t), d)
         /\ \A m \in Managements : BoundTo(m, d) =>
              /\ BoundTo(Switched(m, model, t), d)
              /\ CanAdopt(m) => BoundTo(Adopted(m), d)
              /\ BoundTo(Reapplied(m), d)
              /\ \A e \in Documents : BoundTo(Edited(m, e), d)
<1>1. BoundTo(Started(d, model, t), d)
  <2> DEFINE m == Started(d, model, t)
  <2>1. Desired(model, t) \in OwnedStates /\ Desired(model, t).key = Reserved
    BY KeysAssumption DEF Desired, OwnedStates
  <2>2. m.document \in Documents
    BY <2>1, ApplyOwnedType, KeysAssumption DEF Started
  <2>3. /\ m.committed = Desired(model, t) /\ m.bound = Snapshot(d, Reserved)
    BY DEF Started
  <2>4. GivenBack(m.bound.restore, d)
    <3>1. m.bound.restore = SelectedRestore(d, Reserved)
      BY <2>3 DEF Snapshot
    <3>2. CASE d.selected \in Keys \ {Reserved}
      <4>1. SelectedRestore(d, Reserved) = RestoreOf(d.selected, d.fields[d.selected])
        BY <3>2 DEF SelectedRestore, CaptureRestore
      <4>2. d.fields[d.selected] \in Tables
        BY <3>2 DEF Documents
      <4> QED
        BY <3>1, <3>2, <4>1, <4>2 DEF GivenBack
    <3>3. CASE d.selected \notin Keys \ {Reserved}
      BY <3>1, <3>3 DEF SelectedRestore, GivenBack
    <3> QED
      BY <3>2, <3>3
  <2> QED
    BY <2>1, <2>2, <2>3, <2>4, KeysAssumption DEF BoundTo, Snapshot
<1>2. ASSUME NEW m \in Managements, BoundTo(m, d)
      PROVE  /\ BoundTo(Switched(m, model, t), d)
             /\ CanAdopt(m) => BoundTo(Adopted(m), d)
             /\ BoundTo(Reapplied(m), d)
             /\ \A e \in Documents : BoundTo(Edited(m, e), d)
  <2>1. m.committed \in OwnedStates /\ m.committed.key \in Keys /\ m.document \in Documents
    BY <1>2 DEF BoundTo
  <2>2. BoundTo(Switched(m, model, t), d)
    <3> DEFINE o == WithOwnership(Desired(model, t), m.committed)
               n == Switched(m, model, t)
    <3>1. o \in OwnedStates /\ o.key = m.committed.key
      BY <2>1, ShapeOfOwnership
    <3>2. ApplyOwned(m.document, m.committed.key, o) \in Documents
      BY <2>1, <3>1, ApplyOwnedType
    <3> HIDE DEF o
    <3>3. n = [[m EXCEPT !.document = ApplyOwned(m.document, m.committed.key, o)]
                 EXCEPT !.committed = o]
      BY DEF Switched, o
    <3>4. /\ n.document = ApplyOwned(m.document, m.committed.key, o)
          /\ n.committed = o /\ n.bound = m.bound
      BY <3>3 DEF Managements
    <3> QED
      BY <1>2, <2>1, <3>1, <3>2, <3>4 DEF BoundTo
  <2>3. ASSUME CanAdopt(m) PROVE BoundTo(Adopted(m), d)
    <3> DEFINE k == Selected(m).key
               n == Adopted(m)
    <3>1. k \in Keys
      BY <2>3 DEF CanAdopt, ReconciliationProvider
    <3>2. Selected(m) \in OwnedStates
      BY <2>1, <3>1, KeysAssumption DEF Selected, Owned, OwnedStates, Documents
    <3>3. /\ n.document = m.document /\ n.committed = Selected(m)
          /\ n.bound = WithRestoreFor(m.bound, k)
      BY DEF Adopted, Managements
    <3>4. GivenBack(WithRestoreFor(m.bound, k).restore, d)
      BY <1>2, <3>1, BoundGivesBack DEF GivenBack
    <3> QED
      BY <1>2, <2>1, <3>1, <3>2, <3>3, <3>4, WithRestoreForParts DEF BoundTo
  <2>4. BoundTo(Reapplied(m), d)
    <3>1. ApplyOwned(m.document, m.committed.key, m.committed) \in Documents
      BY <2>1, ApplyOwnedType
    <3>2. /\ Reapplied(m).document = ApplyOwned(m.document, m.committed.key, m.committed)
          /\ Reapplied(m).committed = m.committed /\ Reapplied(m).bound = m.bound
      BY DEF Reapplied, Managements
    <3> QED
      BY <1>2, <2>1, <3>1, <3>2 DEF BoundTo
  <2>5. ASSUME NEW e \in Documents PROVE BoundTo(Edited(m, e), d)
    <3>1. /\ Edited(m, e).document = e /\ Edited(m, e).committed = m.committed
          /\ Edited(m, e).bound = m.bound
      BY DEF Edited, Managements
    <3> QED
      BY <1>2, <2>1, <3>1 DEF BoundTo
  <2> QED
    BY <2>2, <2>3, <2>4, <2>5
<1> QED
  BY <1>1, <1>2

-----------------------------------------------------------------------------
(* Claude's settings.                                                       *)

(* Settings as a file can hold them.                                        *)
Proper(s) ==
  /\ s \in Settings
  /\ s.member = "none" => s.env = NoEnv
  /\ ~s.exists => s = Missing

(* What an activation or a reconciliation writes: nothing that is not owned *)
(* and at least one of what is.                                             *)
Writable(owned, o) ==
  /\ owned \in OwnedParts /\ OwnedHasValues(owned, o)
  /\ \A n \in OwnedNames \ OwnedKeys(o) : owned[n] = NoEntry

LEMMA OwnedKeysAreNames ==
  ASSUME NEW o
  PROVE  OwnedKeys(o) \subseteq OwnedNames /\ OwnedKeys(o) \subseteq Names
BY DEF OwnedKeys, Names

(* A write leaves what it was given and what it does not own.               *)
LEMMA WriteParts ==
  ASSUME NEW s, Proper(s), NEW o \in Ownerships, NEW owned \in OwnedParts,
         \A n \in OwnedNames \ OwnedKeys(o) : owned[n] = NoEntry
  PROVE  LET w == WriteOwned(s, owned, o) IN
         /\ w.exists /\ w.other = s.other
         /\ w.env = AppliedOwned(s, owned, o)
         /\ CaptureOwned(w, o) = owned
         /\ UnrelatedProjection(w, o) = UnrelatedProjection(s, o)
<1> DEFINE w == WriteOwned(s, owned, o)
<1>1. w.exists /\ w.other = s.other /\ w.env = AppliedOwned(s, owned, o)
  BY DEF WriteOwned
<1>2. \A n \in Names : w.env[n] = IF n \in OwnedKeys(o) THEN owned[n] ELSE s.env[n]
  BY <1>1 DEF AppliedOwned
<1> HIDE DEF w
<1>3. CaptureOwned(w, o) = owned
  <2>1. \A n \in OwnedNames : CaptureOwned(w, o)[n] = owned[n]
    BY <1>2, OwnedKeysAreNames DEF CaptureOwned
  <2> QED
    BY <2>1 DEF CaptureOwned, OwnedParts
<1>4. UnrelatedProjection(w, o) = UnrelatedProjection(s, o)
  BY <1>1, <1>2 DEF UnrelatedProjection
<1> QED
  BY <1>1, <1>3, <1>4 DEF w

(* A write passes the verification that follows it.                         *)
THEOREM WriteIsVerified ==
  ASSUME NEW s, Proper(s), NEW o \in Ownerships, NEW owned, Writable(owned, o)
  PROVE  Verified(WriteOwned(s, owned, o), ReadSnapshot(s, o), owned)
BY WriteParts DEF Verified, ReadSnapshot, Writable

-----------------------------------------------------------------------------
(* Writing what was captured back gives every name what it had.             *)
LEMMA CapturedGivesBack ==
  ASSUME NEW s, Proper(s), NEW w, NEW o \in Ownerships,
         w.env \in [Names -> Entries],
         UnrelatedProjection(w, o) = UnrelatedProjection(s, o)
  PROVE  AppliedOwned(w, CaptureOwned(s, o), o) = s.env
<1>1. s.env \in [Names -> Entries]
  BY DEF Proper, Settings
<1>2. \A n \in Names \ OwnedKeys(o) : w.env[n] = s.env[n]
  <2>1. UnrelatedProjection(w, o).env = UnrelatedProjection(s, o).env
    OBVIOUS
  <2>2. \A n \in Names \ OwnedKeys(o) :
          /\ UnrelatedProjection(w, o).env[n] = w.env[n]
          /\ UnrelatedProjection(s, o).env[n] = s.env[n]
    BY DEF UnrelatedProjection
  <2> QED
    BY <2>1, <2>2
<1>3. \A n \in OwnedKeys(o) : CaptureOwned(s, o)[n] = s.env[n]
  BY OwnedKeysAreNames DEF CaptureOwned
<1> QED
  BY <1>1, <1>2, <1>3 DEF AppliedOwned

LEMMA CapturedIsOwned ==
  ASSUME NEW s, Proper(s), NEW o \in Ownerships
  PROVE  /\ CaptureOwned(s, o) \in OwnedParts
         /\ \A n \in OwnedNames \ OwnedKeys(o) : CaptureOwned(s, o)[n] = NoEntry
BY DEF CaptureOwned, OwnedParts, Proper, Settings, Names, Entries

(* Taking back what was written settles the intent and gives back every     *)
(* name and every other member, and the text too if the operator had no     *)
(* "env": whatever stood in the file, also when there was none.             *)
THEOREM WriteIsTakenBack ==
  ASSUME NEW s, Proper(s), NEW o \in Ownerships, NEW owned, Writable(owned, o)
  PROVE  LET back == TakenBack(WriteOwned(s, owned, o), ReadSnapshot(s, o), owned) IN
         /\ back.settled
         /\ back.settings.env = s.env /\ back.settings.other = s.other
         /\ s.member = "none" /\ owned # CaptureOwned(s, o) => back.settings = s
<1> DEFINE w == WriteOwned(s, owned, o)
           b == ReadSnapshot(s, o)
           r == RestoredSettings(w, b)
           u == UnrelatedProjection(s, o)
<1>1. /\ w.exists /\ w.other = s.other /\ w.env = AppliedOwned(s, owned, o)
      /\ CaptureOwned(w, o) = owned /\ UnrelatedProjection(w, o) = u
  BY WriteParts DEF Writable
<1>2. /\ b.ownership = o /\ b.exists = s.exists /\ b.owned = CaptureOwned(s, o)
      /\ b.unrelated = u
  BY DEF ReadSnapshot
<1>3. s.env \in [Names -> Entries] /\ w.env \in [Names -> Entries]
  <2>1. s.env \in [Names -> Entries]
    BY DEF Proper, Settings
  <2>2. \A n \in OwnedKeys(o) : owned[n] \in Entries
    BY OwnedKeysAreNames DEF Writable, OwnedParts
  <2> QED
    BY <1>1, <2>1, <2>2 DEF AppliedOwned
<1>4. AppliedOwned(w, CaptureOwned(s, o), o) = s.env
  BY <1>1, <1>3, CapturedGivesBack
<1>5. u.other = s.other
  BY DEF UnrelatedProjection
<1> HIDE DEF w, b, u
<1>6. CASE ~s.exists
  <2>1. s = Missing
    BY <1>6 DEF Proper
  <2>2. u.env = NoEnv /\ u.other = Nothing
    BY <2>1 DEF u, UnrelatedProjection, Missing, NoEnv
  <2>3. r = Missing
    BY <1>1, <1>2, <1>6, <2>2 DEF RestoredSettings
  <2>4. CaptureOwned(r, o) = CaptureOwned(s, o) /\ UnrelatedProjection(r, o) = u
    BY <2>1, <2>3 DEF u
  <2>5. SettingsMatch(r, b)
    BY <1>2, <2>4 DEF SettingsMatch, Verified
  <2>6. CaptureOwned(s, o) # owned
    <3>1. PICK n \in OwnedKeys(o) : owned[n] # NoEntry
      BY DEF Writable, OwnedHasValues
    <3>2. CaptureOwned(s, o)[n] = NoEntry
      BY <2>1, <3>1, OwnedKeysAreNames DEF CaptureOwned, Missing, NoEnv
    <3> QED
      BY <3>1, <3>2
  <2>7. ~SettingsMatch(w, b)
    BY <1>1, <1>2, <2>6 DEF SettingsMatch, Verified
  <2>8. TakenBack(w, b, owned) = [settings |-> r, settled |-> SettingsMatch(r, b)]
    BY <1>1, <1>2, <2>7 DEF TakenBack
  <2> QED
    BY <2>1, <2>3, <2>5, <2>8 DEF w, b
<1>7. CASE s.exists
  <2>1. r = WriteOwned(w, CaptureOwned(s, o), o)
    BY <1>2, <1>7 DEF RestoredSettings
  <2>2. r.env = s.env /\ r.other = s.other /\ r.exists
    BY <1>1, <1>4, <2>1 DEF WriteOwned
  <2>3. CaptureOwned(r, o) = CaptureOwned(s, o) /\ UnrelatedProjection(r, o) = u
    BY <2>2 DEF CaptureOwned, UnrelatedProjection, u
  <2>4. SettingsMatch(r, b)
    BY <1>2, <2>3 DEF SettingsMatch, Verified
  <2>5. CASE SettingsMatch(w, b)
    <3>1. TakenBack(w, b, owned) = [settings |-> w, settled |-> TRUE]
      BY <2>5 DEF TakenBack
    <3>2. CaptureOwned(s, o) = owned
      BY <1>1, <1>2, <2>5 DEF SettingsMatch, Verified
    <3>3. w.env = s.env
      BY <1>1, <1>3, <3>2, OwnedKeysAreNames DEF AppliedOwned, CaptureOwned
    <3> QED
      BY <1>1, <3>1, <3>2, <3>3 DEF w, b
  <2>6. CASE ~SettingsMatch(w, b)
    <3>1. TakenBack(w, b, owned) = [settings |-> r, settled |-> SettingsMatch(r, b)]
      BY <1>1, <1>2, <2>6 DEF TakenBack
    <3>2. ASSUME s.member = "none" PROVE r = s
      <4>1. s.env = NoEnv
        BY <3>2 DEF Proper
      <4>2. w.env # NoEnv
        <5>1. PICK n \in OwnedKeys(o) : owned[n] # NoEntry
          BY DEF Writable, OwnedHasValues
        <5>2. w.env[n] = owned[n] /\ NoEnv[n] = NoEntry
          BY <1>1, <5>1, OwnedKeysAreNames DEF AppliedOwned, NoEnv
        <5> QED
          BY <5>1, <5>2
      <4>3. w.member = "inserted" /\ w.text = s.text
        <5>1. InsertsEnv(s, owned, o)
          BY <1>7, <3>2 DEF InsertsEnv, Writable
        <5> QED
          BY <1>1, <4>2, <5>1 DEF w, WriteOwned
      <4>4. ~OwnedHasValues(CaptureOwned(s, o), o)
        BY <4>1, OwnedKeysAreNames DEF OwnedHasValues, CaptureOwned, NoEnv
      <4>5. \A n \in Names \ OwnedKeys(o) : w.env[n] = NoEntry
        BY <1>1, <4>1 DEF AppliedOwned, NoEnv
      <4>6. RemovesEnv(w, CaptureOwned(s, o), o) /\ ~InsertsEnv(w, CaptureOwned(s, o), o)
        BY <4>2, <4>3, <4>4, <4>5 DEF RemovesEnv, InsertsEnv
      <4>7. r = [exists |-> TRUE, env |-> NoEnv, other |-> s.other, member |-> "none",
                 text |-> s.text]
        BY <1>1, <1>4, <2>1, <4>1, <4>3, <4>6 DEF WriteOwned
      <4> QED
        BY <1>7, <3>2, <4>1, <4>7 DEF Proper, Settings
    <3> QED
      BY <2>2, <2>4, <3>1, <3>2 DEF w, b
  <2> QED
    BY <2>5, <2>6
<1> QED
  BY <1>6, <1>7

-----------------------------------------------------------------------------
(* A start settles the intent of a write that was done, and leaves alone    *)
(* and settles the intent of one that was not, as long as no owned name     *)
(* held null.                                                               *)
LEMMA StoredWithoutNull ==
  ASSUME NEW s, Proper(s), NEW o \in Ownerships, \A n \in OwnedKeys(o) : s.env[n] # Null
  PROVE  StoredSnapshot(ReadSnapshot(s, o)) = ReadSnapshot(s, o)
<1>1. \A n \in OwnedNames : CaptureOwned(s, o)[n] # Null
  BY TextsAssumption DEF CaptureOwned
<1>2. Stored(CaptureOwned(s, o)) = CaptureOwned(s, o)
  BY <1>1 DEF Stored, CaptureOwned
<1>3. ReadSnapshot(s, o).owned = CaptureOwned(s, o)
  BY DEF ReadSnapshot
<1> QED
  BY <1>2, <1>3 DEF StoredSnapshot, ReadSnapshot

THEOREM CrashIsSettled ==
  ASSUME NEW s, Proper(s), NEW o \in Ownerships, NEW owned, Writable(owned, o),
         \A n \in OwnedKeys(o) : s.env[n] # Null
  PROVE  LET before == StoredSnapshot(ReadSnapshot(s, o))
             written == WriteOwned(s, owned, o)
         IN /\ ReconcileOne(s, before, owned) = [settings |-> s, settled |-> TRUE]
            /\ ReconcileOne(written, before, owned).settled
            /\ ReconcileOne(written, before, owned).settings.env = s.env
            /\ ReconcileOne(written, before, owned).settings.other = s.other
<1>1. StoredSnapshot(ReadSnapshot(s, o)) = ReadSnapshot(s, o)
  BY StoredWithoutNull
<1>2. SettingsMatch(s, ReadSnapshot(s, o))
  BY DEF SettingsMatch, Verified, ReadSnapshot
<1>3. ReconcileOne(s, ReadSnapshot(s, o), owned) = [settings |-> s, settled |-> TRUE]
  BY <1>2 DEF ReconcileOne, TakenBack
<1>4. ReconcileOne(WriteOwned(s, owned, o), ReadSnapshot(s, o), owned)
        = TakenBack(WriteOwned(s, owned, o), ReadSnapshot(s, o), owned)
  BY WriteIsVerified DEF ReconcileOne
<1> QED
  BY <1>1, <1>3, <1>4, WriteIsTakenBack

-----------------------------------------------------------------------------
(* Where a reconciliation shows a shadow, an activation is refused: what    *)
(* is reported to the operator is never a shadow an activation would pass.  *)
THEOREM ShadowsAreRefused ==
  ASSUME NEW user, Proper(user), NEW at, NEW switched, NEW o,
         PreflightPasses(user, at, switched, o)
  PROVE  ObservedShadows(user, at, switched, o) = {}
<1> DEFINE look(p) == \/ at[p].alias = "link"
                      \/ at[p].alias = "none" /\ at[p].settings.exists
<1>1. switched = {} /\ ActiveModes(user) = {}
  BY DEF PreflightPasses
<1>2. ASSUME NEW p \in Places, look(p)
      PROVE  /\ ~HasOwnedShadow(SettingsAt(user, at, p), o)
             /\ ActiveModes(SettingsAt(user, at, p)) = {}
  <2>1. CASE SettingsAt(user, at, p).exists
    BY <1>2, <2>1 DEF PreflightPasses
  <2>2. CASE ~SettingsAt(user, at, p).exists
    <3>1. SettingsAt(user, at, p) = Missing
      BY <1>2, <2>2 DEF SettingsAt, Proper
    <3>2. ~HasOwnedShadow(Missing, o)
      BY OwnedKeysAreNames DEF HasOwnedShadow, Missing, NoEnv
    <3>3. ActiveModes(Missing) = {}
      BY NamesAssumption, TextsAssumption DEF ActiveModes, Missing, NoEnv, Names
    <3> QED
      BY <3>1, <3>2, <3>3
  <2> QED
    BY <2>1, <2>2
<1> QED
  BY <1>1, <1>2 DEF ObservedShadows

-----------------------------------------------------------------------------
(* The replacement of a file.                                               *)

(* What is there now, bounded by the saves made so far: a save has an inode *)
(* and bytes that nothing had before.                                       *)
FilesNow == [inode : 0 .. (saves + 2), bytes : 0 .. saves \cup {Muxvia, Empty}]
Blanked == [inode |-> 2, bytes |-> Empty]
Operators(file) == file.bytes \in 0 .. saves

(* Files that can be there now.                                             *)
Shape ==
  /\ target \in FilesNow /\ temporary \in FilesNow /\ displaced \in FilesNow
  /\ installed \in FilesNow /\ newest \in FilesNow /\ renamed \in FilesNow
  /\ expected \in {Original, Absent} /\ remove \in BOOLEAN
  /\ pc \in Steps
  /\ result \in {"none", "ok", "writeFailed", "recoveryRequired"}
  /\ handle \in 0 .. (saves + 2)
  /\ saves \in 0 .. MaxSaves
  /\ Operators(newest)

(* The two names never lead to one file.                                    *)
Apart ==
  /\ target.inode = 0 => target = Absent
  /\ temporary.inode = 0 => temporary = Absent
  /\ target.inode = temporary.inode => target = Absent

(* Until the rename Muxvia's file has only its temporary name.              *)
Unnamed ==
  pc \in {"check", "write", "recheck", "rename"} =>
    /\ target.inode # 2 /\ handle # 2 /\ Operators(target)
    /\ renamed = NotRenamed /\ displaced = Absent
    /\ pc = "check" => temporary = Absent
    /\ pc = "write" => temporary = Blanked
    /\ pc = "rename" => temporary = Written

(* What was displaced is still the file the rename moved away, or that file  *)
(* with a save in it; a replacement that is accepted moved away what the     *)
(* caller had read.                                                          *)
Since == {"installed", "rollBack", "rolledBack", "unlink", "sync", "undo", "undone"}

SavedOver(file) == file.bytes \in 1 .. saves

Displacing ==
  /\ pc = "displaced" =>
       /\ expected # Absent /\ Operators(temporary)
       /\ temporary = renamed \/ SavedOver(temporary)
  /\ pc \in Since =>
       /\ Operators(displaced)
       /\ IF expected = Absent THEN renamed = Absent ELSE displaced = renamed \/ SavedOver(displaced)
  /\ pc \in {"unlink", "sync", "undo", "undone"} => renamed = expected
  /\ pc = "unlink" => remove

(* A result is set when the temporary name is all that is left to do.        *)
Results ==
  /\ result \in {"ok", "writeFailed"} => pc \in {"cleanup", "done", "crashed"}
  /\ pc = "cleanup" => result \in {"ok", "writeFailed"}
  /\ result = "ok" /\ pc \in {"cleanup", "done"} => renamed = expected
  /\ Finished("ok") => temporary = Absent
  /\ result = "writeFailed" /\ pc \in {"cleanup", "done"} => target.bytes # Muxvia
  /\ Finished("writeFailed") => temporary.bytes # Muxvia

(* Where the file that the rename moved away is, as long as no one saves      *)
(* after it: back at the path, beside it, or replaced with the consent of the *)
(* caller, who had read it.                                                   *)
Stopped == {"done", "crashed"}
Kept ==
  newest = renamed /\ newest # Absent =>
    /\ expected # Absent
    /\ pc \in Since => displaced = renamed
    /\ \/ target = renamed /\ pc \in {"rolledBack", "undone", "cleanup"} \cup Stopped
       \/ /\ target = Written /\ temporary = renamed
          /\ pc \in {"displaced", "installed", "rollBack"} \cup Stopped
       \/ /\ renamed = expected /\ target \in {Written, Absent}
          /\ pc \in {"unlink", "sync", "undo", "cleanup"} \cup Stopped
          /\ pc \in {"unlink", "sync", "undo"} => temporary = renamed
          /\ target = Absent => remove

IInv == Shape /\ Apart /\ Unnamed /\ Displacing /\ Results /\ Kept

LEMMA Initially == Init => IInv
  <1> SUFFICES ASSUME Init PROVE IInv
    OBVIOUS
  <1>. USE MaxSavesAssumption DEF Init
  <1>1. Shape
      BY DEF Shape, FilesNow, Operators, Original, Absent, NotRenamed, Empty, Steps
  <1>2. Apart BY DEF Apart, Original, Absent
  <1>3. Unnamed BY DEF Unnamed, Original, Absent, Operators
  <1>4. Displacing BY DEF Displacing, Since
  <1>5. Results BY DEF Results, Finished
  <1>6. Kept BY DEF Kept, NotRenamed, Original, Absent, Empty
  <1>. QED BY <1>1, <1>2, <1>3, <1>4, <1>5, <1>6 DEF IInv

USE MaxSavesAssumption
    DEF IInv, FilesNow, Operators, SavedOver, Original, Absent, Written, Blanked,
        NotRenamed,
        Muxvia, Empty

(* Until the rename the new bytes are where no name of the operator's leads. *)
LEMMA PrepareKeeps == ASSUME IInv, Check \/ Write \/ Recheck PROVE IInv'
  <1>. USE DEF Check, Write, Recheck, Goto, Return, program, editor
  <1>1. Shape' BY DEF Shape, Steps
  <1>2. Apart' BY DEF Apart, Unnamed
  <1>3. Unnamed' BY DEF Unnamed
  <1>4. Displacing' BY DEF Displacing, Since
  <1>5. Results' BY DEF Shape, Unnamed, Results, Finished
  <1>6. Kept' BY DEF Stopped, Kept
  <1>. QED BY <1>1, <1>2, <1>3, <1>4, <1>5, <1>6

(* The rename gives the path Muxvia's bytes, and the temporary name to       *)
(* whatever the path named by then.                                         *)
LEMMA RenameKeeps == ASSUME IInv, Rename PROVE IInv'
  <1>. USE DEF Rename, Goto, Return, program, editor, Exchange, BothNames
  <1>1. Shape' BY DEF Shape, Steps
  <1>2. Apart' BY DEF Apart
  <1>3. Unnamed' BY DEF Unnamed
  <1>4. Displacing' BY DEF Unnamed, Displacing, Since
  <1>5. Results' BY DEF Shape, Unnamed, Displacing, Since, Results, Finished
  <1>6. Kept' BY DEF Unnamed, Since, Kept
  <1>. QED BY <1>1, <1>2, <1>3, <1>4, <1>5, <1>6

(* What was displaced decides; it is the file that was read, or was saved   *)
(* over since, or another one.                                              *)
LEMMA AcceptKeeps == ASSUME IInv, LookDisplaced \/ LookInstalled \/ Unlink \/ Sync PROVE IInv'
  <1>. USE DEF LookDisplaced, LookInstalled, Unlink, Sync, Goto, Return, Retain, program,
               editor, Installed
  <1>1. Shape' BY DEF Shape, Steps
  <1>2. Apart' BY DEF Apart
  <1>3. Unnamed' BY DEF Unnamed
  <1>4. Displacing' BY DEF Shape, Displacing, Since
  <1>5. Results' BY DEF Displacing, Results, Finished
  <1>6. Kept' BY DEF Displacing, Since, Stopped, Kept
  <1>. QED BY <1>1, <1>2, <1>3, <1>4, <1>5, <1>6

(* A replacement that is taken back has shown that it is.                    *)
LEMMA TakeBackKeeps == ASSUME IInv, RollBack \/ RolledBack \/ Undo \/ Undone PROVE IInv'
  <1>. USE DEF RollBack, RolledBack, Undo, Undone, Goto, Return, Retain, program, editor,
               Exchange, BothNames, CanUndo
  <1>1. Shape' BY DEF Shape, Steps
  <1>2. Apart' BY DEF Apart
  <1>3. Unnamed' BY DEF Unnamed
  <1>4. Displacing' BY DEF Displacing, Since
  <1>5. Results' BY DEF Shape, Displacing, Since, Results, Finished
  <1>6. Kept' BY DEF Since, Stopped, Kept
  <1>. QED BY <1>1, <1>2, <1>3, <1>4, <1>5, <1>6

(* The temporary name goes, or whatever it names stays.                      *)
LEMMA StopKeeps == ASSUME IInv, Cleanup \/ Crash PROVE IInv'
  <1>. USE DEF Cleanup, Crash, Goto, Retain, program, editor
  <1>1. Shape' BY DEF Shape, Steps
  <1>2. Apart' BY DEF Apart
  <1>3. Unnamed' BY DEF Unnamed
  <1>4. Displacing' BY DEF Displacing, Since
  <1>5. Results' BY DEF Results, Finished
  <1>6. Kept' BY DEF Since, Stopped, Kept
  <1>. QED BY <1>1, <1>2, <1>3, <1>4, <1>5, <1>6

(* The editor never opens Muxvia's file before it is at the path.            *)
LEMMA OpenKeeps == ASSUME IInv, Open PROVE IInv'
  <1>. USE DEF Open, program
  <1>1. Shape' BY DEF Shape
  <1>2. Apart' BY DEF Apart
  <1>3. Unnamed' BY DEF Unnamed
  <1>4. Displacing' BY DEF Displacing
  <1>5. Results' BY DEF Results, Finished
  <1>6. Kept' BY DEF Kept
  <1>. QED BY <1>1, <1>2, <1>3, <1>4, <1>5, <1>6

(* A save is unlike every file there is, so that it is nothing the rename    *)
(* moved away.                                                              *)
LEMMA SavesKeep == ASSUME IInv, SaveInPlace \/ SaveByRename PROVE IInv'
  <1>. USE DEF SaveInPlace, SaveByRename, program, Saved
  <1>1. Shape' BY DEF Shape
  <1>2. Apart' BY DEF Shape, Apart
  <1>3. Unnamed' BY DEF Shape, Unnamed
  <1>4. Displacing' BY DEF Shape, Displacing
  <1>5. Results' BY DEF Shape, Results, Finished
  <1>6. Kept' BY DEF Shape, Kept
  <1>. QED BY <1>1, <1>2, <1>3, <1>4, <1>5, <1>6

LEMMA RemoveKeeps == ASSUME IInv, Remove PROVE IInv'
  <1>. USE DEF Remove, program, Saved
  <1>1. Shape' BY DEF Shape, Unnamed, Steps
  <1>2. Apart' BY DEF Apart
  <1>3. Unnamed' BY DEF Shape, Unnamed
  <1>4. Displacing' BY DEF Shape, Displacing
  <1>5. Results' BY DEF Results, Finished
  <1>6. Kept' BY DEF Kept
  <1>. QED BY <1>1, <1>2, <1>3, <1>4, <1>5, <1>6

LEMMA Consecution == IInv /\ [Next]_vars => IInv'
  <1> SUFFICES ASSUME IInv, [Next]_vars PROVE IInv'
    OBVIOUS
  <1>1. CASE Replacing
    BY <1>1, PrepareKeeps, RenameKeeps, AcceptKeeps, TakeBackKeeps, StopKeeps
       DEF Replacing
  <1>2. CASE Crash \/ Open \/ SaveInPlace \/ SaveByRename \/ Remove
    BY <1>2, StopKeeps, OpenKeeps, SavesKeep, RemoveKeeps
  <1>3. CASE UNCHANGED vars
    BY <1>3 DEF vars, Shape, Apart, Unnamed, Displacing, Results, Finished, Kept
  <1>. QED BY <1>1, <1>2, <1>3 DEF Next

LEMMA Invariant == Spec => []IInv
  BY Initially, Consecution, PTL DEF Spec

(* The invariant of the run, for any number of saves: whatever the editor    *)
(* does and wherever the replacement stops, the file the rename moved away   *)
(* is kept or was the one that was read, WriteFailed leaves none of the new  *)
(* bytes, and a success replaced what the caller had read (atomic_replace).  *)
THEOREM ReplacementStaysHonest == Spec => []ReplacementIsHonest
  <1>1. IInv => ReplacementIsHonest
    <2> SUFFICES ASSUME IInv PROVE ReplacementIsHonest
      OBVIOUS
    <2>1. TypeOK BY DEF Shape, Apart, TypeOK, Files
    <2>2. NothingLostByRename BY DEF Kept, NothingLostByRename, Linked, Replaced
    <2>3. FailureLeavesNoBytes BY DEF Results, FailureLeavesNoBytes, Finished
    <2>4. SuccessReplacesWhatWasRead
        BY DEF Results, SuccessReplacesWhatWasRead, Finished
    <2>. QED BY <2>1, <2>2, <2>3, <2>4 DEF ReplacementIsHonest
  <1>. QED BY <1>1, Invariant, PTL

-----------------------------------------------------------------------------
(* What the variables of the accounts hold, beyond AccountsTypeOK.     *)
Callers == Actions \cup Requests \cup {Flow, Start}
Phases == {"stage", "begin", "write", "commit", "undo", "finish", "unstage", "cleanup"}
Jobs == [by : Callers, phase : Phases, before : AccountDocuments, desired : AccountDocuments,
         id : 0 .. MaxIntents, touched : BOOLEAN]
RequestPlaces == {"idle", "remote", "record", "done"}
Outcomes == {Unset, "applied", "failed"}

FileTypes == doc \in AccountDocuments /\ last \in AccountDocuments
StagedType ==
  staged = Unset \/ staged \in [id : 1 .. MaxIntents, before : AccountDocuments,
                               desired : AccountDocuments]
RowType ==
  row \in [id : 0 .. MaxIntents,
           state : {Unset, "pending", "committed", "rolled-back", "recovery-required"}]
CatalogType ==
  catalog \in [revision : Nat, recovery : {"clean", "required"}, binding : Accounts \cup {Unset}]
SetTypes ==
  /\ receipts \subseteq Actions /\ previews \subseteq Actions
  /\ status \in {"down", "starting", "up"}
JobType == job = NoJob \/ job \in Jobs
RequestType ==
  /\ request \in [Requests -> [at : RequestPlaces, account : Accounts \cup {Unset},
                               expected : Records, answer : Records]]
  /\ \A r \in Requests :
       /\ (request[r].at \in {"remote", "record"} =>
             request[r].account \in Accounts /\ request[r].expected # NoRecord)
       /\ (request[r].at = "record" => request[r].answer # NoRecord)
ActionType ==
  /\ action \in [Actions -> [kind : Kinds \cup {Unset}, account : Accounts \cup {Unset},
                             revision : Nat, answer : Outcomes]]
  /\ \A c \in Actions : action[c].kind \in {"delete", "default", "fixed"} =>
       action[c].account \in Accounts
FlowType ==
  /\ flow.at # "idle" => flow.account \in Accounts
  /\ flow \in [at : {"idle", "granted", "failed", "applied"}, account : Accounts \cup {Unset},
            token : 0 .. MaxToken, cancelled : BOOLEAN]
NumberTypes ==
  /\ live \subseteq 0 .. MaxToken
  /\ counts \in [issued : 0 .. MaxToken, intents : 0 .. MaxIntents, troubles : 0 .. MaxTroubles]

AccountTypes ==
  /\ FileTypes /\ StagedType /\ RowType /\ CatalogType /\ SetTypes
  /\ JobType /\ RequestType /\ ActionType /\ FlowType /\ NumberTypes

(* Who holds the gate: nobody while the process is down, the recovery while   *)
(* it starts and nobody else's recovery after that.  Intents are numbered in  *)
(* the order they are staged; the staged file of a job is its own.            *)
GateInv ==
  /\ (status = "down" => job = NoJob)
  /\ (status = "starting" => job.by = Start)
  /\ (job # NoJob => (job.by = Start <=> status = "starting"))
  /\ (job.by = Flow => flow.at = "granted" /\ ~flow.cancelled)
  /\ row.id <= counts.intents
  /\ (row.id = 0 <=> row.state = Unset)
  /\ (staged # Unset => staged.id <= counts.intents)
  /\ (job # NoJob =>
        /\ job.id <= counts.intents
        /\ (staged # Unset /\ staged.id = job.id =>
              staged.before = job.before /\ staged.desired = job.desired))

(* Somebody has edited the file since it could have held this document.      *)
Marked(document) ==
  \E a \in Accounts :
    doc.accounts[a] = Record(0, TRUE) /\ document.accounts[a] # Record(0, TRUE)

(* The document before an intent is the committed one, or the file was edited *)
(* when it still was.                                                          *)
Anchored(before, desired) ==
  last = before \/ (doc = last /\ Marked(desired))

(* The phases of a job.                                                        *)
PhaseInv ==
  job # NoJob =>
    /\ (job.phase \in {"stage", "begin"} =>
          /\ job.by # Start
          /\ (doc = job.before \/ Marked(job.desired))
          /\ (~job.touched => doc = job.before))
    /\ (job.phase = "stage" => job.id = 0)
    /\ (job.phase \in {"begin", "write", "undo", "finish", "cleanup"} => job.id # 0)
    /\ (job.phase \in {"write", "commit", "undo"} => job.by # Start)
    /\ (job.phase \in {"write", "commit", "undo", "finish"} /\ job.id # 0 =>
          /\ Pending /\ row.id = job.id
          /\ Anchored(job.before, job.desired))
    /\ (job.phase = "write" /\ ~job.touched => doc = job.before)
    /\ (job.phase = "commit" =>
          IF job.id = 0 THEN job.by \in Actions /\ job.desired = job.before
          ELSE ~job.touched => doc = job.desired /\ last = job.before)
    /\ (job.phase = "finish" => doc = last)
    /\ (job.phase = "unstage" =>
          /\ job.by # Start
          /\ (job.id # 0 => row.id = job.id /\ row.state \in {"committed", "rolled-back"}))
    /\ (job.phase = "cleanup" => job.by = Start /\ ~Pending)

(* The account file and the committed accounts. *)
FileInv ==
  /\ (~Pending /\ catalog.recovery = "clean" => doc = last)
  /\ (Pending /\ staged # Unset /\ staged.id = row.id =>
        Anchored(staged.before, staged.desired))

(* No mutation writes what an edit outside would have written. *)
Foreign(before, desired) ==
  \A a \in Accounts :
    desired.accounts[a] = Record(0, TRUE) => before.accounts[a] = Record(0, TRUE)

(* What a job means to change. *)
JobShape ==
  job # NoJob =>
    /\ Foreign(job.before, job.desired)
    /\ (job.by \in Actions => \A a \in Accounts :
          job.desired.accounts[a] \in {NoRecord, job.before.accounts[a]})
    /\ (job.by \in Requests =>
          /\ request[job.by].at = "record"
          /\ job.before.accounts[request[job.by].account] = request[job.by].expected
          /\ \A a \in Accounts \ {request[job.by].account} :
               job.desired.accounts[a] = job.before.accounts[a])

ShapeInv ==
  /\ (staged # Unset => Foreign(staged.before, staged.desired))
  /\ JobShape

(* The documents of the files and of the mutations under way, and the records *)
(* in them or in the hands of a request.                                       *)
HeldDocuments ==
  {doc, last}
    \cup (IF staged = Unset THEN {} ELSE {staged.before, staged.desired})
    \cup (IF job = NoJob THEN {} ELSE {job.before, job.desired})

Asking(r) == request[r].at \in {"remote", "record"}

Held ==
  {x \in Records \ {NoRecord} :
     \/ \E d \in HeldDocuments, a \in Accounts : d.accounts[a] = x
     \/ \E r \in Requests : Asking(r) /\ request[r].expected = x}

(* Every token was issued, and one that is condemned is no longer accepted.   *)
TokenInv ==
  /\ \A t \in live : t <= counts.issued
  /\ \A x \in Held : x.token <= counts.issued /\ (~x.ok => x.token \notin live)
  /\ \A r \in Requests :
       /\ (Asking(r) => request[r].expected.ok)
       /\ (request[r].at = "record" =>
             /\ request[r].answer.token <= counts.issued
             /\ (~request[r].answer.ok =>
                   request[r].answer.token = 0 /\ request[r].expected.token \notin live))

(* Who was answered what. *)
CallerInv ==
  /\ \A c \in Actions : action[c].answer # Unset =>
       (action[c].answer = "applied" <=> c \in receipts)
  /\ \A c \in Actions : job.by = c =>
       /\ action[c].answer = Unset
       /\ action[c].kind # Unset
       /\ (c \in receipts <=>
             job.phase = "unstage" /\ ~(row.id = job.id /\ row.state = "rolled-back"))

(* The token of an authorization that no commit has begun to record, or that  *)
(* was cancelled, is nowhere.                                                  *)
Unrecorded == flow.cancelled \/ (flow.at = "granted" /\ job.by # Flow)

FlowInv ==
  /\ flow.token <= counts.issued
  /\ (flow.at = "idle" => ~flow.cancelled)
  /\ (flow.at # "idle" => flow.token # 0)
  /\ (Unrecorded =>
        /\ \A x \in Held : x.token # flow.token
        /\ \A r \in Requests :
             request[r].at = "record" => request[r].answer.token # flow.token)

AccountsInv ==
  /\ AccountTypes /\ GateInv /\ PhaseInv /\ FileInv
  /\ ShapeInv /\ TokenInv /\ CallerInv /\ FlowInv

-----------------------------------------------------------------------------
(* Types.                                                                    *)

USE DEF Flow, Start

(* A nonempty set of numbers has a largest one, if they are bounded.         *)
LEMMA Largest ==
  ASSUME NEW N \in Nat, NEW T \in SUBSET (0 .. N), T # {}
  PROVE  \E t \in T : \A u \in T : u <= t
<1> DEFINE R == OpToRel(<, Nat)
           M == {N - t : t \in T}
<1>1. IsWellFoundedOn(R, Nat)
  BY NatLessThanWellFounded
<1>2. M \subseteq Nat /\ M # {}
  <2>1. \A t \in T : t \in Nat /\ t <= N
    OBVIOUS
  <2>2. PICK t \in T : TRUE
    OBVIOUS
  <2>3. N - t \in M
    OBVIOUS
  <2> QED BY <2>1, <2>3
<1>3. PICK m \in M : \A k \in M : ~(<<k, m>> \in R)
  <2> HIDE DEF R, M
  <2> QED BY <1>1, <1>2, WFMin
<1>4. \A k \in M : ~(k < m)
  BY <1>2, <1>3 DEF OpToRel
<1>5. PICK t \in T : m = N - t
  OBVIOUS
<1>6. ASSUME NEW u \in T PROVE u <= t
  <2>1. N - u \in M
    OBVIOUS
  <2>2. ~(N - u < N - t)
    BY <1>4, <1>5, <2>1
  <2> QED BY <2>2
<1> QED BY <1>6

(* The account that follows a deleted default is an account, or none.        *)
LEMMA NewestIsKnown ==
  ASSUME NEW accounts \in [Accounts -> Records]
  PROVE  Newest(accounts) \in Accounts \cup {Unset}
<1>1. CASE \A a \in Accounts : accounts[a] = NoRecord
  BY <1>1 DEF Newest
<1>2. CASE ~(\A a \in Accounts : accounts[a] = NoRecord)
  <2> DEFINE A == {a \in Accounts : accounts[a] # NoRecord}
             T == {accounts[a].token : a \in A}
  <2>1. A # {}
    BY <1>2
  <2>2. \A a \in A : accounts[a].token \in 0 .. MaxToken
    BY DEF Records
  <2>3. T \in SUBSET (0 .. MaxToken) /\ T # {}
    BY <2>1, <2>2
  <2>4. PICK t \in T : \A u \in T : u <= t
    <3> HIDE DEF T
    <3> QED BY <2>3, BoundsAssumption, Largest
  <2>5. PICK a \in A : t = accounts[a].token
    OBVIOUS
  <2>6. \A b \in Accounts : accounts[b] # NoRecord => accounts[b].token <= accounts[a].token
    BY <2>4, <2>5
  <2> QED BY <1>2, <2>5, <2>6 DEF Newest
<1> QED BY <1>1, <1>2

LEMMA DeletedIsDocument ==
  ASSUME NEW d \in AccountDocuments, NEW a \in Accounts
  PROVE  Deleted(d, a) \in AccountDocuments
<1> DEFINE accounts == [d.accounts EXCEPT ![a] = NoRecord]
<1>1. accounts \in [Accounts -> Records]
  BY DEF AccountDocuments, Records
<1>2. Newest(accounts) \in Accounts \cup {Unset}
  <2> HIDE DEF accounts
  <2> QED BY <1>1, NewestIsKnown
<1>3. d.default \in Accounts \cup {Unset}
  BY DEF AccountDocuments
<1> QED BY <1>1, <1>2, <1>3 DEF Deleted, AccountDocuments

LEMMA RewrittenIsDocument ==
  ASSUME NEW d \in AccountDocuments, NEW a \in Accounts, NEW record \in Records
  PROVE  [d EXCEPT !.accounts[a] = record] \in AccountDocuments
BY DEF AccountDocuments

LEMMA SubmitTypes ==
  ASSUME NEW c \in Actions, NEW kind \in Kinds, NEW a \in Accounts, AccountTypes, GateInv,
         Submit(c, kind, a)
  PROVE  AccountTypes'
<1> USE CallersAssumption, BoundsAssumption DEF AccountTypes
<1>1. /\ FileTypes' /\ StagedType' /\ RowType' /\ CatalogType' /\ JobType'
      /\ RequestType' /\ FlowType' /\ NumberTypes'
  BY DEF Submit, FileTypes, StagedType, RowType, CatalogType, JobType, RequestType,
         FlowType, NumberTypes, durable
<1>2. SetTypes'
  BY DEF Submit, SetTypes, durable, Free, NoJob, Present, GateInv, JobType, Jobs
<1>3. ActionType'
  <2> DEFINE entry == [kind |-> kind, account |-> IF kind = "follow" THEN Unset ELSE a,
                       revision |-> catalog.revision, answer |-> Unset]
  <2>1. entry \in [kind : Kinds \cup {Unset}, account : Accounts \cup {Unset},
                  revision : Nat, answer : Outcomes]
    BY DEF CatalogType, Outcomes
  <2>2. entry.kind \in {"delete", "default", "fixed"} => entry.account \in Accounts
    OBVIOUS
  <2>3. action' = [action EXCEPT ![c] = entry]
    BY DEF Submit
  <2> HIDE DEF entry
  <2> QED BY <2>1, <2>2, <2>3 DEF ActionType
<1> QED BY <1>1, <1>2, <1>3

LEMMA ApplyTypes ==
  ASSUME NEW c \in Actions, AccountTypes, GateInv, Apply(c)
  PROVE  AccountTypes'
<1> USE CallersAssumption, BoundsAssumption DEF AccountTypes
<1>1. /\ FileTypes' /\ StagedType' /\ RowType' /\ CatalogType' /\ SetTypes'
      /\ RequestType' /\ FlowType'
  BY DEF Apply, FileTypes, StagedType, RowType, CatalogType, SetTypes, RequestType,
         FlowType, durable
<1>2. JobType'
  <2>1. ASSUME ~Refused(c), action[c].kind # Unset PROVE DesiredBy(c) \in AccountDocuments
    <3>1. CASE action[c].kind = "delete"
      <4>1. action[c].account \in Accounts
        BY <3>1 DEF ActionType
      <4> QED BY <3>1, <4>1, DeletedIsDocument DEF DesiredBy, FileTypes
    <3>2. CASE action[c].kind = "default"
      <4>1. action[c].account \in Accounts
        BY <3>2 DEF ActionType
      <4> QED BY <3>2, <4>1 DEF DesiredBy, FileTypes, AccountDocuments
    <3>3. CASE action[c].kind \notin {"delete", "default"}
      BY <3>3 DEF DesiredBy, FileTypes
    <3> QED BY <3>1, <3>2, <3>3
  <2>2. CASE job' = job
    BY <2>2 DEF JobType
  <2>3. CASE job' # job
    <3>1. ~Refused(c) /\ action[c].kind # Unset
      BY <2>3 DEF Apply
    <3>2. DesiredBy(c) \in AccountDocuments /\ doc \in AccountDocuments
      BY <2>1, <3>1 DEF FileTypes
    <3>3. PICK d \in AccountDocuments, p \in {"stage", "commit"} :
            job' = [by |-> c, phase |-> p, before |-> doc, desired |-> d, id |-> 0,
                    touched |-> FALSE]
      <4>1. CASE Take(c, DesiredBy(c))
        BY <3>2, <4>1 DEF Take
      <4>2. CASE ~Take(c, DesiredBy(c))
        BY <2>3, <3>2, <4>2 DEF Apply
      <4> QED BY <4>1, <4>2
    <3> QED BY <3>2, <3>3 DEF JobType, Jobs, Callers, Phases
  <2> QED BY <2>2, <2>3
<1>3. ActionType'
  BY DEF Apply, ActionType, durable, Free, NoJob, Present, Take, Outcomes, Kinds,
         GateInv, JobType, Jobs
<1>4. NumberTypes'
  BY DEF Apply, NumberTypes, durable, Free, NoJob, Present, Take
<1> QED BY <1>1, <1>2, <1>3, <1>4

LEMMA ReadAccountTypes ==
  ASSUME NEW r \in Requests, AccountTypes, GateInv, ReadAccount(r)
  PROVE  AccountTypes'
<1> USE CallersAssumption, BoundsAssumption DEF AccountTypes
<1>1. /\ FileTypes' /\ StagedType' /\ RowType' /\ CatalogType' /\ SetTypes' /\ JobType'
      /\ ActionType' /\ FlowType' /\ NumberTypes'
  BY DEF ReadAccount, FileTypes, StagedType, RowType, CatalogType, SetTypes, JobType,
         ActionType, FlowType, NumberTypes, durable
<1>2. RequestType'
  BY DEF ReadAccount, RequestType, durable, Present, At, RequestPlaces, Records,
         FileTypes, AccountDocuments
<1> QED BY <1>1, <1>2

LEMMA RefreshTypes ==
  ASSUME NEW r \in Requests, AccountTypes, GateInv, Refresh(r)
  PROVE  AccountTypes'
<1> USE CallersAssumption, BoundsAssumption DEF AccountTypes
<1>1. /\ FileTypes' /\ StagedType' /\ RowType' /\ CatalogType' /\ SetTypes' /\ JobType'
      /\ ActionType' /\ FlowType'
  BY DEF Refresh, FileTypes, StagedType, RowType, CatalogType, SetTypes, JobType,
         ActionType, FlowType, durable
<1>2. RequestType'
  <2>1. CASE request' = [request EXCEPT ![r] = At("done")]
    BY <2>1 DEF RequestType, At, RequestPlaces, Records
  <2>2. ASSUME NEW token \in 0 .. MaxToken, NEW ok \in BOOLEAN, request[r].at = "remote",
               request' = [request EXCEPT ![r].at = "record", ![r].answer = Record(token, ok)]
        PROVE  RequestType'
    <3>1. Record(token, ok) \in Records /\ Record(token, ok) # NoRecord
      BY DEF Record, Records
    <3> QED BY <2>2, <3>1 DEF RequestType, RequestPlaces
  <2>3. counts.issued < MaxToken => counts.issued + 1 \in 0 .. MaxToken
    BY DEF NumberTypes
  <2>4. 0 \in 0 .. MaxToken
    OBVIOUS
  <2> QED BY <2>1, <2>2, <2>3, <2>4 DEF Refresh
<1>3. NumberTypes'
  <2>1. CASE UNCHANGED <<live, counts>>
    BY <2>1 DEF NumberTypes
  <2>2. CASE /\ counts.issued < MaxToken /\ Count("issued")
             /\ live' \subseteq live \cup {counts.issued + 1}
    <3>1. counts.issued + 1 \in 0 .. MaxToken
      BY <2>2 DEF NumberTypes
    <3> QED BY <2>2, <3>1 DEF NumberTypes, Count
  <2> QED BY <2>1, <2>2 DEF Refresh
<1> QED BY <1>1, <1>2, <1>3

LEMMA RecordRefreshTypes ==
  ASSUME NEW r \in Requests, AccountTypes, GateInv, RecordRefresh(r)
  PROVE  AccountTypes'
<1> USE CallersAssumption, BoundsAssumption DEF AccountTypes
<1>1. /\ FileTypes' /\ StagedType' /\ RowType' /\ CatalogType' /\ SetTypes'
      /\ ActionType' /\ FlowType' /\ NumberTypes'
  BY DEF RecordRefresh, FileTypes, StagedType, RowType, CatalogType, SetTypes,
         ActionType, FlowType, NumberTypes, durable
<1>2. JobType'
  <2> DEFINE a == request[r].account
             record == Refreshed(doc.accounts[a], request[r].answer)
  <2>1. CASE ~Unchanged(r) \/ catalog.recovery = "required"
    BY <2>1 DEF RecordRefresh, JobType
  <2>2. CASE Unchanged(r) /\ catalog.recovery # "required"
    <3>1. a \in Accounts /\ doc.accounts[a] # NoRecord /\ request[r].answer # NoRecord
      BY <2>2 DEF RecordRefresh, Unchanged, RequestType
    <3>2. doc.accounts[a] \in Records /\ request[r].answer \in Records
      BY <3>1 DEF FileTypes, AccountDocuments, RequestType
    <3>3. record \in Records
      BY <3>1, <3>2 DEF Refreshed, Record, Records
    <3>4. [doc EXCEPT !.accounts[a] = record] \in AccountDocuments
      <4>1. doc \in AccountDocuments
        BY DEF FileTypes
      <4> HIDE DEF record, a
      <4> QED BY <3>1, <3>3, <4>1, RewrittenIsDocument
    <3>5. Take(r, [doc EXCEPT !.accounts[a] = record])
      BY <2>2 DEF RecordRefresh
    <3> HIDE DEF record, a
    <3> QED BY <3>4, <3>5 DEF Take, JobType, Jobs, Callers, Phases, FileTypes
  <2> QED BY <2>1, <2>2
<1>3. RequestType'
  BY DEF RecordRefresh, RequestType, durable, Free, NoJob, At, Take, Record,
         RequestPlaces, Records
<1> QED BY <1>1, <1>2, <1>3

LEMMA GrantTypes ==
  ASSUME NEW a \in Accounts, AccountTypes, GateInv, Grant(a)
  PROVE  AccountTypes'
<1> USE CallersAssumption, BoundsAssumption DEF AccountTypes
<1>1. /\ FileTypes' /\ StagedType' /\ RowType' /\ CatalogType' /\ SetTypes' /\ JobType'
      /\ RequestType' /\ ActionType'
  BY DEF Grant, FileTypes, StagedType, RowType, CatalogType, SetTypes, JobType,
         RequestType, ActionType, durable
<1>2. FlowType'
  <2>1. counts.issued + 1 \in 0 .. MaxToken
    BY DEF Grant, NumberTypes
  <2> QED BY <2>1 DEF Grant, FlowType
<1>3. NumberTypes'
  BY DEF Grant, NumberTypes, durable, Count
<1> QED BY <1>1, <1>2, <1>3

LEMMA EditOutsideTypes ==
  ASSUME NEW a \in Accounts, AccountTypes, GateInv, EditOutside(a)
  PROVE  AccountTypes'
<1> USE CallersAssumption, BoundsAssumption DEF AccountTypes
<1>1. StagedType' /\ RowType' /\ CatalogType' /\ SetTypes' /\ RequestType' /\ ActionType' /\ FlowType'
  BY DEF EditOutside, StagedType, RowType, CatalogType, SetTypes, RequestType,
         ActionType, FlowType, callers
<1>2. FileTypes'
  <2>1. Record(0, TRUE) \in Records
    BY DEF Record, Records
  <2> QED BY <2>1, RewrittenIsDocument DEF EditOutside, FileTypes
<1>3. JobType'
  BY DEF EditOutside, JobType, callers, Trouble, Present, Count, Record, NoJob, Jobs,
         Callers, Phases, GateInv
<1>4. NumberTypes'
  BY DEF EditOutside, NumberTypes, callers, Trouble, Present, Count, Record, NoJob
<1> QED BY <1>1, <1>2, <1>3, <1>4

LEMMA CancelTypes ==
  ASSUME AccountTypes, GateInv, Cancel
  PROVE  AccountTypes'
<1> USE CallersAssumption, BoundsAssumption DEF AccountTypes
<1>1. /\ FileTypes' /\ StagedType' /\ RowType' /\ CatalogType' /\ SetTypes' /\ JobType'
      /\ RequestType' /\ ActionType' /\ NumberTypes'
  BY DEF Cancel, FileTypes, StagedType, RowType, CatalogType, SetTypes, JobType,
         RequestType, ActionType, NumberTypes, durable
<1>2. FlowType'
  BY DEF Cancel, FlowType, durable, GateInv, JobType, Jobs
<1> QED BY <1>1, <1>2

LEMMA RecordAuthorizationTypes ==
  ASSUME AccountTypes, GateInv, RecordAuthorization
  PROVE  AccountTypes'
<1> USE CallersAssumption, BoundsAssumption DEF AccountTypes
<1>1. /\ FileTypes' /\ StagedType' /\ RowType' /\ CatalogType' /\ SetTypes'
      /\ RequestType' /\ ActionType' /\ NumberTypes'
  BY DEF RecordAuthorization, FileTypes, StagedType, RowType, CatalogType, SetTypes,
         RequestType, ActionType, NumberTypes, durable
<1>2. JobType'
  <2> DEFINE a == flow.account
             accounts == [doc.accounts EXCEPT ![a] = Record(flow.token, TRUE)]
             desired == [accounts |-> accounts,
                         default |-> IF doc.default = Unset THEN a ELSE doc.default]
  <2>1. CASE CancelledBeforeCommit \/ catalog.recovery = "required"
    BY <2>1 DEF RecordAuthorization, JobType
  <2>2. CASE ~CancelledBeforeCommit /\ catalog.recovery # "required"
    <3>1. a \in Accounts /\ Record(flow.token, TRUE) \in Records
      BY <2>2 DEF RecordAuthorization, FlowType, Record, Records
    <3>2. accounts \in [Accounts -> Records] /\ doc.default \in Accounts \cup {Unset}
      BY <3>1 DEF FileTypes, AccountDocuments
    <3>3. desired \in AccountDocuments
      <4> HIDE DEF accounts
      <4> QED BY <3>1, <3>2 DEF AccountDocuments
    <3>4. Take(Flow, desired)
      BY <2>2 DEF RecordAuthorization
    <3> HIDE DEF desired
    <3> QED BY <3>3, <3>4 DEF Take, JobType, Jobs, Callers, Phases, FileTypes
  <2> QED BY <2>1, <2>2
<1>3. FlowType'
  BY DEF RecordAuthorization, FlowType, durable, Free, NoJob, CancelledBeforeCommit,
         Take, Record, GateInv, JobType, Jobs
<1> QED BY <1>1, <1>2, <1>3

LEMMA StageTypes ==
  ASSUME AccountTypes, GateInv, Stage
  PROVE  AccountTypes'
<1> USE CallersAssumption, BoundsAssumption DEF AccountTypes
<1>1. FileTypes' /\ RowType' /\ CatalogType'
  BY DEF Stage, FileTypes, RowType, CatalogType, callers
<1>2. StagedType'
  BY DEF Stage, StagedType, callers, NoJob, Count, Ended, At, Trouble, JobType, Jobs,
         NumberTypes
<1>3. SetTypes'
  BY DEF Stage, SetTypes, callers, NoJob, Count, Ended, At, Trouble, GateInv, JobType,
         Jobs
<1>4. JobType'
  <2>1. CASE job' = NoJob
    BY <2>1 DEF JobType
  <2>2. CASE job' = [job EXCEPT !.phase = "begin", !.id = counts.intents + 1]
    <3>1. counts.intents + 1 \in 0 .. MaxIntents /\ job \in Jobs
      BY DEF Stage, NumberTypes, JobType
    <3> QED BY <2>2, <3>1 DEF JobType, Jobs, Phases
  <2> QED BY <2>1, <2>2 DEF Stage, Ended
<1>5. RequestType'
  BY DEF Stage, RequestType, callers, NoJob, Count, Ended, At, Trouble, RequestPlaces,
         Records
<1>6. ActionType'
  BY DEF Stage, ActionType, callers, NoJob, Count, Ended, At, Trouble, Outcomes, Kinds,
         GateInv, JobType, Jobs
<1>7. FlowType'
  BY DEF Stage, FlowType, callers, NoJob, Count, Ended, At, Trouble, GateInv, JobType,
         Jobs
<1>8. NumberTypes'
  BY DEF Stage, NumberTypes, callers, NoJob, Count, Ended, At, Trouble
<1> QED BY <1>1, <1>2, <1>3, <1>4, <1>5, <1>6, <1>7, <1>8

LEMMA BeginTypes ==
  ASSUME AccountTypes, GateInv, Begin
  PROVE  AccountTypes'
<1> USE CallersAssumption, BoundsAssumption DEF AccountTypes
<1>1. FileTypes' /\ CatalogType'
  BY DEF Begin, FileTypes, CatalogType, callers
<1>2. StagedType'
  BY DEF Begin, StagedType, callers, NoJob, Pending, Trouble, Count, Ended, At
<1>3. RowType'
  BY DEF Begin, RowType, callers, NoJob, Pending, Trouble, Count, Ended, At, JobType,
         Jobs
<1>4. SetTypes'
  BY DEF Begin, SetTypes, callers, NoJob, Pending, Trouble, Count, Ended, At, GateInv,
         JobType, Jobs
<1>5. JobType'
  BY DEF Begin, JobType, callers, NoJob, Pending, Trouble, Count, Ended, At, Jobs,
         Callers, Phases, GateInv
<1>6. RequestType'
  BY DEF Begin, RequestType, callers, NoJob, Pending, Trouble, Count, Ended, At,
         RequestPlaces, Records
<1>7. ActionType'
  BY DEF Begin, ActionType, callers, NoJob, Pending, Trouble, Count, Ended, At,
         Outcomes, Kinds, GateInv, JobType, Jobs
<1>8. FlowType'
  BY DEF Begin, FlowType, callers, NoJob, Pending, Trouble, Count, Ended, At, GateInv,
         JobType, Jobs
<1>9. NumberTypes'
  BY DEF Begin, NumberTypes, callers, NoJob, Pending, Trouble, Count, Ended, At
<1> QED BY <1>1, <1>2, <1>3, <1>4, <1>5, <1>6, <1>7, <1>8, <1>9

LEMMA WriteFileTypes ==
  ASSUME AccountTypes, GateInv, WriteFile
  PROVE  AccountTypes'
<1> USE CallersAssumption, BoundsAssumption DEF AccountTypes
<1>1. StagedType' /\ RowType' /\ CatalogType' /\ SetTypes' /\ RequestType' /\ ActionType' /\ FlowType'
  BY DEF WriteFile, StagedType, RowType, CatalogType, SetTypes, RequestType, ActionType,
         FlowType, callers
<1>2. FileTypes'
  BY DEF WriteFile, FileTypes, callers, NoJob, Trouble, Count, JobType, Jobs
<1>3. JobType'
  BY DEF WriteFile, JobType, callers, NoJob, Trouble, Count, Jobs, Callers, Phases,
         GateInv
<1>4. NumberTypes'
  BY DEF WriteFile, NumberTypes, callers, NoJob, Trouble, Count
<1> QED BY <1>1, <1>2, <1>3, <1>4

LEMMA CommitTypes ==
  ASSUME AccountTypes, GateInv, Commit
  PROVE  AccountTypes'
<1> USE CallersAssumption, BoundsAssumption DEF AccountTypes
<1>1. StagedType'
  BY DEF Commit, StagedType, callers
<1>2. FileTypes'
  BY DEF Commit, FileTypes, callers, Present, NoJob, Bound, Trouble, Count, Ended, At,
         JobType, Jobs
<1>3. RowType'
  BY DEF Commit, RowType, callers, Present, NoJob, Bound, Trouble, Count, Ended, At
<1>4. CatalogType'
  <2>1. ASSUME job.by \in Actions PROVE Bound(job.by) \in Accounts \cup {Unset}
    BY <2>1 DEF Bound, ActionType, CatalogType
  <2>2. CASE UNCHANGED catalog
    BY <2>2 DEF CatalogType
  <2>3. CASE catalog' = [catalog EXCEPT !.revision = @ + 1,
                           !.binding = IF job.by \in Actions THEN Bound(job.by) ELSE @]
    <3> DEFINE b == IF job.by \in Actions THEN Bound(job.by) ELSE catalog.binding
    <3>1. b \in Accounts \cup {Unset}
      BY <2>1 DEF CatalogType
    <3>2. catalog' = [catalog EXCEPT !.revision = @ + 1, !.binding = b]
      BY <2>3
    <3>3. catalog.revision + 1 \in Nat
      BY DEF CatalogType
    <3> HIDE DEF b
    <3> HIDE CallersAssumption, BoundsAssumption
    <3> QED BY <3>1, <3>2, <3>3 DEF CatalogType
  <2> QED BY <2>2, <2>3 DEF Commit
<1>5. SetTypes'
  BY DEF Commit, SetTypes, callers, Present, NoJob, Bound, Trouble, Count, Ended, At,
         GateInv, JobType, Jobs
<1>6. JobType'
  BY DEF Commit, JobType, callers, Present, NoJob, Bound, Trouble, Count, Ended, At,
         Jobs, Callers, Phases, GateInv
<1>7. RequestType'
  BY DEF Commit, RequestType, callers, Present, NoJob, Bound, Trouble, Count, Ended, At,
         RequestPlaces, Records
<1>8. ActionType'
  BY DEF Commit, ActionType, callers, Present, NoJob, Bound, Trouble, Count, Ended, At,
         Outcomes, Kinds, GateInv, JobType, Jobs
<1>9. FlowType'
  BY DEF Commit, FlowType, callers, Present, NoJob, Bound, Trouble, Count, Ended, At,
         GateInv, JobType, Jobs
<1>10. NumberTypes'
  BY DEF Commit, NumberTypes, callers, Present, NoJob, Bound, Trouble, Count, Ended, At
<1> QED BY <1>1, <1>2, <1>3, <1>4, <1>5, <1>6, <1>7, <1>8, <1>9, <1>10

LEMMA UnstageTypes ==
  ASSUME AccountTypes, GateInv, Unstage
  PROVE  AccountTypes'
<1> USE CallersAssumption, BoundsAssumption DEF AccountTypes
<1>1. FileTypes' /\ RowType' /\ CatalogType'
  BY DEF Unstage, FileTypes, RowType, CatalogType
<1>2. StagedType'
  BY DEF Unstage, StagedType, NoJob, Trouble, Count, Ended, At
<1>3. SetTypes'
  BY DEF Unstage, SetTypes, NoJob, Trouble, Count, Ended, At, GateInv, JobType, Jobs
<1>4. JobType'
  BY DEF Unstage, JobType, NoJob, Trouble, Count, Ended, At, Jobs, Callers, Phases,
         GateInv
<1>5. RequestType'
  BY DEF Unstage, RequestType, NoJob, Trouble, Count, Ended, At, RequestPlaces, Records
<1>6. ActionType'
  BY DEF Unstage, ActionType, NoJob, Trouble, Count, Ended, At, Outcomes, Kinds,
         GateInv, JobType, Jobs
<1>7. FlowType'
  BY DEF Unstage, FlowType, NoJob, Trouble, Count, Ended, At, GateInv, JobType, Jobs
<1>8. NumberTypes'
  BY DEF Unstage, NumberTypes, NoJob, Trouble, Count, Ended, At
<1> QED BY <1>1, <1>2, <1>3, <1>4, <1>5, <1>6, <1>7, <1>8

LEMMA UndoWriteTypes ==
  ASSUME AccountTypes, GateInv, UndoWrite
  PROVE  AccountTypes'
<1> USE CallersAssumption, BoundsAssumption DEF AccountTypes
<1>1. StagedType'
  BY DEF UndoWrite, StagedType, callers
<1>2. FileTypes'
  BY DEF UndoWrite, FileTypes, callers, NoJob, Require, Ended, At, Trouble, Count,
         JobType, Jobs
<1>3. RowType'
  BY DEF UndoWrite, RowType, callers, NoJob, Require, Ended, At, Trouble, Count
<1>4. CatalogType'
  BY DEF UndoWrite, CatalogType, callers, NoJob, Require, Ended, At, Trouble, Count
<1>5. SetTypes'
  BY DEF UndoWrite, SetTypes, callers, NoJob, Require, Ended, At, Trouble, Count,
         GateInv, JobType, Jobs
<1>6. JobType'
  BY DEF UndoWrite, JobType, callers, NoJob, Require, Ended, At, Trouble, Count, Jobs,
         Callers, Phases, GateInv
<1>7. RequestType'
  BY DEF UndoWrite, RequestType, callers, NoJob, Require, Ended, At, Trouble, Count,
         RequestPlaces, Records
<1>8. ActionType'
  BY DEF UndoWrite, ActionType, callers, NoJob, Require, Ended, At, Trouble, Count,
         Outcomes, Kinds, GateInv, JobType, Jobs
<1>9. FlowType'
  BY DEF UndoWrite, FlowType, callers, NoJob, Require, Ended, At, Trouble, Count,
         GateInv, JobType, Jobs
<1>10. NumberTypes'
  BY DEF UndoWrite, NumberTypes, callers, NoJob, Require, Ended, At, Trouble, Count
<1> QED BY <1>1, <1>2, <1>3, <1>4, <1>5, <1>6, <1>7, <1>8, <1>9, <1>10

LEMMA MarkUndoneTypes ==
  ASSUME AccountTypes, GateInv, MarkUndone
  PROVE  AccountTypes'
<1> USE CallersAssumption, BoundsAssumption DEF AccountTypes
<1>1. FileTypes' /\ StagedType' /\ CatalogType'
  BY DEF MarkUndone, FileTypes, StagedType, CatalogType, callers
<1>2. RowType'
  BY DEF MarkUndone, RowType, callers, NoJob, Trouble, Count, Ended, At
<1>3. SetTypes'
  BY DEF MarkUndone, SetTypes, callers, NoJob, Trouble, Count, Ended, At, GateInv,
         JobType, Jobs
<1>4. JobType'
  BY DEF MarkUndone, JobType, callers, NoJob, Trouble, Count, Ended, At, Jobs, Callers,
         Phases, GateInv
<1>5. RequestType'
  BY DEF MarkUndone, RequestType, callers, NoJob, Trouble, Count, Ended, At,
         RequestPlaces, Records
<1>6. ActionType'
  BY DEF MarkUndone, ActionType, callers, NoJob, Trouble, Count, Ended, At, Outcomes,
         Kinds, GateInv, JobType, Jobs
<1>7. FlowType'
  BY DEF MarkUndone, FlowType, callers, NoJob, Trouble, Count, Ended, At, GateInv,
         JobType, Jobs
<1>8. NumberTypes'
  BY DEF MarkUndone, NumberTypes, callers, NoJob, Trouble, Count, Ended, At
<1> QED BY <1>1, <1>2, <1>3, <1>4, <1>5, <1>6, <1>7, <1>8

LEMMA RecoverPendingTypes ==
  ASSUME AccountTypes, GateInv, RecoverPending
  PROVE  AccountTypes'
<1> USE CallersAssumption, BoundsAssumption DEF AccountTypes
<1>1. StagedType' /\ RequestType' /\ ActionType' /\ FlowType'
  BY DEF RecoverPending, StagedType, RequestType, ActionType, FlowType, callers
<1>2. FileTypes'
  BY DEF RecoverPending, FileTypes, callers, Pending, StateOfStaged, GiveUp, Require,
         Trouble, Count, Recovered, StagedType
<1>3. RowType'
  BY DEF RecoverPending, RowType, callers, Pending, StateOfStaged, GiveUp, Require,
         Trouble, Count, Recovered
<1>4. CatalogType'
  BY DEF RecoverPending, CatalogType, callers, Pending, StateOfStaged, GiveUp, Require,
         Trouble, Count, Recovered
<1>5. SetTypes'
  BY DEF RecoverPending, SetTypes, callers, Pending, StateOfStaged, GiveUp, Require,
         Trouble, Count, Recovered, GateInv, JobType, Jobs
<1>6. JobType'
  <2>1. CASE job' = job
    BY <2>1 DEF JobType
  <2>2. CASE job' # job
    <3>1. job' = [by |-> Start, phase |-> "finish", before |-> staged.before,
                  desired |-> staged.desired, id |-> row.id, touched |-> FALSE]
      BY <2>2 DEF RecoverPending
    <3>2. staged.before \in AccountDocuments /\ staged.desired \in AccountDocuments
      BY <2>2 DEF RecoverPending, StagedType
    <3> QED BY <3>1, <3>2 DEF JobType, Jobs, Callers, Phases, RowType
  <2> QED BY <2>1, <2>2
<1>7. NumberTypes'
  BY DEF RecoverPending, NumberTypes, callers, Pending, StateOfStaged, GiveUp, Require,
         Trouble, Count, Recovered
<1> QED BY <1>1, <1>2, <1>3, <1>4, <1>5, <1>6, <1>7

LEMMA RecoverSettledTypes ==
  ASSUME AccountTypes, GateInv, RecoverSettled
  PROVE  AccountTypes'
<1> USE CallersAssumption, BoundsAssumption DEF AccountTypes
<1>1. FileTypes' /\ RowType' /\ JobType' /\ RequestType' /\ ActionType' /\ FlowType'
  BY DEF RecoverSettled, FileTypes, RowType, JobType, RequestType, ActionType, FlowType,
         callers
<1>2. StagedType'
  BY DEF RecoverSettled, StagedType, callers, Pending, StagedIsSettled, StateOfStaged,
         Trouble, Count, Require
<1>3. CatalogType'
  BY DEF RecoverSettled, CatalogType, callers, Pending, StagedIsSettled, StateOfStaged,
         Trouble, Count, Require
<1>4. SetTypes'
  BY DEF RecoverSettled, SetTypes, callers, Pending, StagedIsSettled, StateOfStaged,
         Trouble, Count, Require, GateInv, JobType, Jobs
<1>5. NumberTypes'
  BY DEF RecoverSettled, NumberTypes, callers, Pending, StagedIsSettled, StateOfStaged,
         Trouble, Count, Require
<1> QED BY <1>1, <1>2, <1>3, <1>4, <1>5

LEMMA RecoverCleanupTypes ==
  ASSUME AccountTypes, GateInv, RecoverCleanup
  PROVE  AccountTypes'
<1> USE CallersAssumption, BoundsAssumption DEF AccountTypes
<1>1. FileTypes' /\ RowType'
  BY DEF RecoverCleanup, FileTypes, RowType
<1>2. StagedType'
  BY DEF RecoverCleanup, StagedType, Trouble, Count, Require, Ended, NoJob, At
<1>3. CatalogType'
  BY DEF RecoverCleanup, CatalogType, Trouble, Count, Require, Ended, NoJob, At
<1>4. SetTypes'
  BY DEF RecoverCleanup, SetTypes, Trouble, Count, Require, Ended, NoJob, At, GateInv,
         JobType, Jobs
<1>5. JobType'
  BY DEF RecoverCleanup, JobType, Trouble, Count, Require, Ended, NoJob, At, Jobs,
         Callers, Phases, GateInv
<1>6. RequestType'
  BY DEF RecoverCleanup, RequestType, Trouble, Count, Require, Ended, NoJob, At,
         RequestPlaces, Records
<1>7. ActionType'
  BY DEF RecoverCleanup, ActionType, Trouble, Count, Require, Ended, NoJob, At,
         Outcomes, Kinds, GateInv, JobType, Jobs
<1>8. FlowType'
  BY DEF RecoverCleanup, FlowType, Trouble, Count, Require, Ended, NoJob, At, GateInv,
         JobType, Jobs
<1>9. NumberTypes'
  BY DEF RecoverCleanup, NumberTypes, Trouble, Count, Require, Ended, NoJob, At
<1> QED BY <1>1, <1>2, <1>3, <1>4, <1>5, <1>6, <1>7, <1>8, <1>9

LEMMA ProcessStopsTypes ==
  ASSUME AccountTypes, GateInv, ProcessStops
  PROVE  AccountTypes'
<1> USE CallersAssumption, BoundsAssumption DEF AccountTypes
<1>1. FileTypes' /\ StagedType' /\ RowType' /\ CatalogType' /\ ActionType'
  BY DEF ProcessStops, FileTypes, StagedType, RowType, CatalogType, ActionType, durable
<1>2. SetTypes'
  BY DEF ProcessStops, SetTypes, durable, Trouble, Count, NoJob, At, GateInv, JobType,
         Jobs
<1>3. JobType'
  BY DEF ProcessStops, JobType, durable, Trouble, Count, NoJob, At, Jobs, Callers,
         Phases, GateInv
<1>4. RequestType'
  BY DEF ProcessStops, RequestType, durable, Trouble, Count, NoJob, At, RequestPlaces,
         Records
<1>5. FlowType'
  BY DEF ProcessStops, FlowType, durable, Trouble, Count, NoJob, At, GateInv, JobType,
         Jobs
<1>6. NumberTypes'
  BY DEF ProcessStops, NumberTypes, durable, Trouble, Count, NoJob, At
<1> QED BY <1>1, <1>2, <1>3, <1>4, <1>5, <1>6

LEMMA LoseStagedTypes ==
  ASSUME AccountTypes, GateInv, LoseStaged
  PROVE  AccountTypes'
<1> USE CallersAssumption, BoundsAssumption DEF AccountTypes
<1>1. /\ FileTypes' /\ RowType' /\ CatalogType' /\ SetTypes' /\ JobType' /\ RequestType'
      /\ ActionType' /\ FlowType'
  BY DEF LoseStaged, FileTypes, RowType, CatalogType, SetTypes, JobType, RequestType,
         ActionType, FlowType, callers
<1>2. StagedType'
  BY DEF LoseStaged, StagedType, callers, Trouble, Count
<1>3. NumberTypes'
  BY DEF LoseStaged, NumberTypes, callers, Trouble, Count
<1> QED BY <1>1, <1>2, <1>3

-----------------------------------------------------------------------------
(* A step of a job: it goes on under the gate, or ends and releases it.       *)
GoesOn ==
  /\ job # NoJob /\ job' # NoJob
  /\ job'.by = job.by /\ job'.touched = job.touched
  /\ job'.before = job.before /\ job'.desired = job.desired
  /\ UNCHANGED <<status, callers>>

Releases == job # NoJob /\ job' = NoJob

LEMMA StageAdvances ==
  ASSUME AccountsInv, Stage
  PROVE  GoesOn \/ Releases
BY CallersAssumption
   DEF AccountsInv, AccountTypes, JobType, Jobs, Callers, GoesOn, Releases, Stage,
       callers, NoJob, Count, Ended, At, Trouble

LEMMA BeginAdvances ==
  ASSUME AccountsInv, Begin
  PROVE  GoesOn \/ Releases
BY CallersAssumption
   DEF AccountsInv, AccountTypes, JobType, Jobs, Callers, GoesOn, Releases, Begin,
       callers, NoJob, Pending, Trouble, Count, Ended, At

LEMMA WriteFileAdvances ==
  ASSUME AccountsInv, WriteFile
  PROVE  GoesOn \/ Releases
BY CallersAssumption
   DEF AccountsInv, AccountTypes, JobType, Jobs, Callers, GoesOn, Releases, WriteFile,
       callers, NoJob, Trouble, Count

LEMMA CommitAdvances ==
  ASSUME AccountsInv, Commit
  PROVE  GoesOn \/ Releases
BY CallersAssumption
   DEF AccountsInv, AccountTypes, JobType, Jobs, Callers, GoesOn, Releases, Commit,
       callers, Present, NoJob, Bound, Trouble, Count, Ended, At

LEMMA UnstageAdvances ==
  ASSUME AccountsInv, Unstage
  PROVE  GoesOn \/ Releases
BY CallersAssumption
   DEF AccountsInv, AccountTypes, JobType, Jobs, Callers, GoesOn, Releases, Unstage,
       NoJob, Trouble, Count, Ended, At, callers

LEMMA UndoWriteAdvances ==
  ASSUME AccountsInv, UndoWrite
  PROVE  GoesOn \/ Releases
BY CallersAssumption
   DEF AccountsInv, AccountTypes, JobType, Jobs, Callers, GoesOn, Releases, UndoWrite,
       callers, NoJob, Require, Ended, At, Trouble, Count

LEMMA MarkUndoneAdvances ==
  ASSUME AccountsInv, MarkUndone
  PROVE  GoesOn \/ Releases
BY CallersAssumption
   DEF AccountsInv, AccountTypes, JobType, Jobs, Callers, GoesOn, Releases, MarkUndone,
       callers, NoJob, Trouble, Count, Ended, At

LEMMA GoesOnShape ==
  ASSUME AccountsInv, GoesOn
  PROVE  JobShape'
BY DEF AccountsInv, ShapeInv, JobShape, GoesOn, Foreign, callers

LEMMA ReleasesShape ==
  ASSUME Releases
  PROVE  JobShape'
BY DEF JobShape, Releases

LEMMA BeginShapeInv ==
  ASSUME AccountsInv, Begin
  PROVE  ShapeInv'
<1>1. JobShape'
  BY BeginAdvances, GoesOnShape, ReleasesShape
<1>2. staged' \in {staged, Unset}
  BY DEF Begin
<1> QED BY <1>1, <1>2 DEF AccountsInv, ShapeInv, Foreign

LEMMA WriteFileShapeInv ==
  ASSUME AccountsInv, WriteFile
  PROVE  ShapeInv'
<1>1. JobShape'
  BY WriteFileAdvances, GoesOnShape, ReleasesShape
<1>2. staged' \in {staged, Unset}
  BY DEF WriteFile
<1> QED BY <1>1, <1>2 DEF AccountsInv, ShapeInv, Foreign

LEMMA CommitShapeInv ==
  ASSUME AccountsInv, Commit
  PROVE  ShapeInv'
<1>1. JobShape'
  BY CommitAdvances, GoesOnShape, ReleasesShape
<1>2. staged' \in {staged, Unset}
  BY DEF Commit
<1> QED BY <1>1, <1>2 DEF AccountsInv, ShapeInv, Foreign

LEMMA UnstageShapeInv ==
  ASSUME AccountsInv, Unstage
  PROVE  ShapeInv'
<1>1. JobShape'
  BY UnstageAdvances, GoesOnShape, ReleasesShape
<1>2. staged' \in {staged, Unset}
  BY DEF Unstage
<1> QED BY <1>1, <1>2 DEF AccountsInv, ShapeInv, Foreign

LEMMA UndoWriteShapeInv ==
  ASSUME AccountsInv, UndoWrite
  PROVE  ShapeInv'
<1>1. JobShape'
  BY UndoWriteAdvances, GoesOnShape, ReleasesShape
<1>2. staged' \in {staged, Unset}
  BY DEF UndoWrite
<1> QED BY <1>1, <1>2 DEF AccountsInv, ShapeInv, Foreign

LEMMA MarkUndoneShapeInv ==
  ASSUME AccountsInv, MarkUndone
  PROVE  ShapeInv'
<1>1. JobShape'
  BY MarkUndoneAdvances, GoesOnShape, ReleasesShape
<1>2. staged' \in {staged, Unset}
  BY DEF MarkUndone
<1> QED BY <1>1, <1>2 DEF AccountsInv, ShapeInv, Foreign

LEMMA StageShapeInv ==
  ASSUME AccountsInv, Stage
  PROVE  ShapeInv'
<1>1. JobShape'
  BY StageAdvances, GoesOnShape, ReleasesShape
<1>2. \/ staged' = staged
      \/ staged'.before = job.before /\ staged'.desired = job.desired
  BY DEF Stage
<1>3. Foreign(job.before, job.desired)
  BY DEF Stage, AccountsInv, ShapeInv, JobShape
<1> QED BY <1>1, <1>2, <1>3 DEF AccountsInv, ShapeInv, Foreign

LEMMA RecoverPendingShapeInv ==
  ASSUME AccountsInv, RecoverPending
  PROVE  ShapeInv'
<1>1. job' = job \/ job' = [by |-> Start, phase |-> "finish", before |-> staged.before,
                  desired |-> staged.desired, id |-> row.id, touched |-> FALSE]
  BY DEF RecoverPending
<1>2. staged' = staged /\ request' = request /\ (job' # job => staged # Unset)
  BY DEF RecoverPending, callers
<1>3. CASE job' = job
  BY <1>2, <1>3 DEF AccountsInv, ShapeInv, JobShape, Foreign
<1>4. CASE job' # job
  <2>1. job'.by = "start" /\ job'.before = staged.before /\ job'.desired = staged.desired
    BY <1>1, <1>4
  <2> QED
      BY <1>2, <1>4, <2>1, CallersAssumption
         DEF AccountsInv, ShapeInv, JobShape, Foreign
<1> QED BY <1>3, <1>4

LEMMA RecoverCleanupShapeInv ==
  ASSUME AccountsInv, RecoverCleanup
  PROVE  ShapeInv'
<1>1. job' = NoJob /\ staged' \in {staged, Unset}
  BY DEF RecoverCleanup, Ended
<1> QED BY <1>1 DEF AccountsInv, ShapeInv, JobShape, Foreign

LEMMA ApplyShapeInv ==
  ASSUME NEW c \in Actions, AccountsInv, Apply(c)
  PROVE  ShapeInv'
<1>1. staged' = staged /\ request' = request
  BY DEF Apply, durable
<1>2. CASE job' = job
  BY <1>1, <1>2 DEF AccountsInv, ShapeInv, JobShape, Foreign
<1>3. CASE job' # job
  <2>1. job'.by = c /\ job'.before = doc /\ job'.desired \in {doc, DesiredBy(c)}
    BY <1>3 DEF Apply, Take
  <2>2. \A a \in Accounts : DesiredBy(c).accounts[a] \in {NoRecord, doc.accounts[a]}
    BY DEF DesiredBy, Deleted, AccountsInv, AccountTypes, FileTypes, AccountDocuments
  <2>3. \A a \in Accounts : job'.desired.accounts[a] \in {NoRecord, doc.accounts[a]}
    BY <2>1, <2>2
  <2>4. NoRecord # Record(0, TRUE)
    <3>1. Record(0, TRUE) \in [token : Nat, ok : BOOLEAN]
      BY DEF Record
    <3> QED BY <3>1, CallersAssumption
  <2> QED
      BY <1>1, <2>1, <2>3, <2>4, CallersAssumption
         DEF AccountsInv, ShapeInv, JobShape, Foreign
<1> QED BY <1>2, <1>3

LEMMA RecordRefreshShapeInv ==
  ASSUME NEW r \in Requests, AccountsInv, RecordRefresh(r)
  PROVE  ShapeInv'
<1> DEFINE a == request[r].account
           desired == [doc EXCEPT !.accounts[a] = Refreshed(@, request[r].answer)]
<1>1. staged' = staged /\ Free
  BY DEF RecordRefresh, durable
<1>2. CASE job' = job
  BY <1>1, <1>2 DEF AccountsInv, ShapeInv, JobShape, Foreign, Free
<1>3. CASE job' # job
  <2>1. /\ request' = request /\ request[r].at = "record" /\ Unchanged(r)
        /\ job'.by = r /\ job'.before = doc /\ job'.desired = desired
    BY <1>3 DEF RecordRefresh, Take
  <2>2. a \in Accounts /\ doc.accounts[a] = request[r].expected
    BY <2>1 DEF AccountsInv, AccountTypes, RequestType, Unchanged
  <2>3. /\ desired.accounts[a] = Refreshed(request[r].expected, request[r].answer)
        /\ \A b \in Accounts \ {a} : desired.accounts[b] = doc.accounts[b]
    BY <2>2 DEF AccountsInv, AccountTypes, FileTypes, AccountDocuments
  <2>4. /\ request[r].expected \in [token : 0 .. MaxToken, ok : BOOLEAN]
        /\ request[r].answer \in [token : 0 .. MaxToken, ok : BOOLEAN]
        /\ request[r].expected.ok
    BY <2>1, CallersAssumption
       DEF AccountsInv, AccountTypes, RequestType, TokenInv, Asking, Records
  <2>5. desired.accounts[a] = Record(0, TRUE) => doc.accounts[a] = Record(0, TRUE)
    <3>1. SUFFICES ASSUME Refreshed(request[r].expected, request[r].answer) = Record(0, TRUE)
                   PROVE  request[r].expected = Record(0, TRUE)
      BY <2>2, <2>3
    <3>2. request[r].expected.token = 0
      BY <2>4, <3>1 DEF Refreshed, Record
    <3> QED BY <2>4, <3>2 DEF Record
  <2>6. Foreign(doc, desired)
    BY <2>3, <2>5 DEF Foreign
  <2> HIDE DEF desired
  <2> QED
      BY <1>1, <2>1, <2>2, <2>3, <2>6, CallersAssumption
         DEF AccountsInv, ShapeInv, JobShape, Foreign
<1> QED BY <1>2, <1>3

LEMMA RecordAuthorizationShapeInv ==
  ASSUME AccountsInv, RecordAuthorization
  PROVE  ShapeInv'
<1> DEFINE a == flow.account
           desired == [accounts |-> [doc.accounts EXCEPT ![a] = Record(flow.token, TRUE)],
                       default |-> IF doc.default = Unset THEN a ELSE doc.default]
<1>1. staged' = staged /\ request' = request
  BY DEF RecordAuthorization, durable
<1>2. CASE job' = job
  BY <1>1, <1>2 DEF AccountsInv, ShapeInv, JobShape, Foreign
<1>3. CASE job' # job
  <2>1. job'.by = "flow" /\ job'.before = doc /\ job'.desired = desired /\ flow.at = "granted"
    <3>1. flow.at = "granted" /\ Take(Flow, desired)
      BY <1>3 DEF RecordAuthorization
    <3> HIDE DEF desired
    <3> QED BY <3>1 DEF Take
  <2>2. a \in Accounts /\ flow.token # 0
    BY <2>1 DEF AccountsInv, AccountTypes, FlowType, FlowInv
  <2>3. /\ desired.accounts[a] = Record(flow.token, TRUE)
        /\ \A b \in Accounts \ {a} : desired.accounts[b] = doc.accounts[b]
    BY <2>2 DEF AccountsInv, AccountTypes, FileTypes, AccountDocuments
  <2>4. Record(flow.token, TRUE) # Record(0, TRUE)
    BY <2>2 DEF Record
  <2>5. Foreign(doc, desired)
    BY <2>3, <2>4 DEF Foreign
  <2> HIDE DEF desired
  <2> QED
      BY <1>1, <2>1, <2>5, CallersAssumption
         DEF AccountsInv, ShapeInv, JobShape, Foreign
<1> QED BY <1>2, <1>3

LEMMA SubmitGateInv ==
  ASSUME NEW c \in Actions, NEW kind \in Kinds, NEW a \in Accounts, AccountsInv, Submit(c,
         kind, a)
  PROVE  GateInv'
BY CallersAssumption, BoundsAssumption
   DEF AccountsInv, GateInv, Submit, durable, Free, NoJob, Present, AccountTypes,
       SetTypes, JobType, Jobs, Callers, RowType, StagedType, NumberTypes

LEMMA ApplyGateInv ==
  ASSUME NEW c \in Actions, AccountsInv, Apply(c)
  PROVE  GateInv'
BY CallersAssumption, BoundsAssumption
   DEF AccountsInv, GateInv, Apply, durable, Free, NoJob, Answered, Refused, Present,
       DesiredBy, Deleted, Take, AccountTypes, SetTypes, JobType, Jobs, Callers,
       RowType, StagedType, NumberTypes

LEMMA ReadAccountGateInv ==
  ASSUME NEW r \in Requests, AccountsInv, ReadAccount(r)
  PROVE  GateInv'
BY CallersAssumption, BoundsAssumption
   DEF AccountsInv, GateInv, ReadAccount, durable, Present, At, AccountTypes, SetTypes,
       JobType, Jobs, Callers, RowType, StagedType, NumberTypes

LEMMA RefreshGateInv ==
  ASSUME NEW r \in Requests, AccountsInv, Refresh(r)
  PROVE  GateInv'
BY CallersAssumption, BoundsAssumption
   DEF AccountsInv, GateInv, Refresh, durable, At, Record, Count, AccountTypes,
       SetTypes, JobType, Jobs, Callers, RowType, StagedType, NumberTypes

LEMMA RecordRefreshGateInv ==
  ASSUME NEW r \in Requests, AccountsInv, RecordRefresh(r)
  PROVE  GateInv'
BY CallersAssumption, BoundsAssumption
   DEF AccountsInv, GateInv, RecordRefresh, durable, Free, NoJob, Unchanged, At, Take,
       Refreshed, Record, AccountTypes, SetTypes, JobType, Jobs, Callers, RowType,
       StagedType, NumberTypes

LEMMA GrantGateInv ==
  ASSUME NEW a \in Accounts, AccountsInv, Grant(a)
  PROVE  GateInv'
BY CallersAssumption, BoundsAssumption
   DEF AccountsInv, GateInv, Grant, durable, Count, AccountTypes, SetTypes, JobType,
       Jobs, Callers, RowType, StagedType, NumberTypes

LEMMA EditOutsideGateInv ==
  ASSUME NEW a \in Accounts, AccountsInv, EditOutside(a)
  PROVE  GateInv'
BY CallersAssumption, BoundsAssumption
   DEF AccountsInv, GateInv, EditOutside, callers, Trouble, Present, Count, Record,
       NoJob, AccountTypes, SetTypes, JobType, Jobs, Callers, RowType, StagedType,
       NumberTypes

LEMMA CancelGateInv ==
  ASSUME AccountsInv, Cancel
  PROVE  GateInv'
BY CallersAssumption, BoundsAssumption
   DEF AccountsInv, GateInv, Cancel, durable, AccountTypes, SetTypes, JobType, Jobs,
       Callers, RowType, StagedType, NumberTypes

LEMMA RecordAuthorizationGateInv ==
  ASSUME AccountsInv, RecordAuthorization
  PROVE  GateInv'
BY CallersAssumption, BoundsAssumption
   DEF AccountsInv, GateInv, RecordAuthorization, durable, Free, NoJob,
       CancelledBeforeCommit, Take, Record, AccountTypes, SetTypes, JobType, Jobs,
       Callers, RowType, StagedType, NumberTypes

LEMMA WriteFileGateInv ==
  ASSUME AccountsInv, WriteFile
  PROVE  GateInv'
BY CallersAssumption, BoundsAssumption
   DEF AccountsInv, GateInv, WriteFile, callers, NoJob, Trouble, Count, AccountTypes,
       SetTypes, JobType, Jobs, Callers, RowType, StagedType, NumberTypes

LEMMA UnstageGateInv ==
  ASSUME AccountsInv, Unstage
  PROVE  GateInv'
BY CallersAssumption, BoundsAssumption
   DEF AccountsInv, GateInv, Unstage, NoJob, Trouble, Count, Ended, At, AccountTypes,
       SetTypes, JobType, Jobs, Callers, RowType, StagedType, NumberTypes

LEMMA RecoverPendingGateInv ==
  ASSUME AccountsInv, RecoverPending
  PROVE  GateInv'
BY CallersAssumption, BoundsAssumption
   DEF AccountsInv, GateInv, RecoverPending, callers, Pending, StateOfStaged, GiveUp,
       Require, Trouble, Count, Recovered, AccountTypes, SetTypes, JobType, Jobs,
       Callers, RowType, StagedType, NumberTypes

LEMMA RecoverSettledGateInv ==
  ASSUME AccountsInv, RecoverSettled
  PROVE  GateInv'
BY CallersAssumption, BoundsAssumption
   DEF AccountsInv, GateInv, RecoverSettled, callers, Pending, StagedIsSettled,
       StateOfStaged, Trouble, Count, Require, AccountTypes, SetTypes, JobType, Jobs,
       Callers, RowType, StagedType, NumberTypes

LEMMA RecoverCleanupGateInv ==
  ASSUME AccountsInv, RecoverCleanup
  PROVE  GateInv'
BY CallersAssumption, BoundsAssumption
   DEF AccountsInv, GateInv, RecoverCleanup, Trouble, Count, Require, Ended, NoJob, At,
       AccountTypes, SetTypes, JobType, Jobs, Callers, RowType, StagedType, NumberTypes

LEMMA ProcessStopsGateInv ==
  ASSUME AccountsInv, ProcessStops
  PROVE  GateInv'
BY CallersAssumption, BoundsAssumption
   DEF AccountsInv, GateInv, ProcessStops, durable, Trouble, Count, NoJob, At,
       AccountTypes, SetTypes, JobType, Jobs, Callers, RowType, StagedType, NumberTypes

LEMMA LoseStagedGateInv ==
  ASSUME AccountsInv, LoseStaged
  PROVE  GateInv'
BY CallersAssumption, BoundsAssumption
   DEF AccountsInv, GateInv, LoseStaged, callers, Trouble, Count, AccountTypes,
       SetTypes, JobType, Jobs, Callers, RowType, StagedType, NumberTypes

LEMMA SubmitShapeInv ==
  ASSUME NEW c \in Actions, NEW kind \in Kinds, NEW a \in Accounts, AccountsInv, Submit(c,
         kind, a)
  PROVE  ShapeInv'
BY CallersAssumption, BoundsAssumption
   DEF AccountsInv, ShapeInv, JobShape, Submit, durable, Free, NoJob, Present, GateInv,
       AccountTypes, SetTypes, JobType, Jobs, Callers, Foreign, RequestType,
       RequestPlaces

LEMMA ReadAccountShapeInv ==
  ASSUME NEW r \in Requests, AccountsInv, ReadAccount(r)
  PROVE  ShapeInv'
BY CallersAssumption, BoundsAssumption
   DEF AccountsInv, ShapeInv, JobShape, ReadAccount, durable, Present, At, GateInv,
       AccountTypes, SetTypes, JobType, Jobs, Callers, Foreign, RequestType,
       RequestPlaces

LEMMA RefreshShapeInv ==
  ASSUME NEW r \in Requests, AccountsInv, Refresh(r)
  PROVE  ShapeInv'
<1>1. DOMAIN request = Requests BY DEF AccountsInv, AccountTypes, RequestType
<1>2. staged' = staged /\ job' = job BY DEF Refresh, durable
<1>3. ASSUME NEW q \in Requests, request[q].at = "record" PROVE request'[q] = request[q]
  <2>1. q # r BY <1>3 DEF Refresh
  <2> QED BY <1>1, <2>1 DEF Refresh
<1>4. (staged # Unset => Foreign(staged.before, staged.desired))'
  BY <1>2 DEF AccountsInv, ShapeInv, Foreign
<1>5. ShapeInv BY DEF AccountsInv
<1>6. JobShape' BY <1>2, <1>3, <1>5 DEF ShapeInv, JobShape, Foreign
<1> QED BY <1>4, <1>6 DEF ShapeInv

LEMMA GrantShapeInv ==
  ASSUME NEW a \in Accounts, AccountsInv, Grant(a)
  PROVE  ShapeInv'
BY CallersAssumption, BoundsAssumption
   DEF AccountsInv, ShapeInv, JobShape, Grant, durable, Count, GateInv, AccountTypes,
       SetTypes, JobType, Jobs, Callers, Foreign, RequestType, RequestPlaces

LEMMA EditOutsideShapeInv ==
  ASSUME NEW a \in Accounts, AccountsInv, EditOutside(a)
  PROVE  ShapeInv'
BY CallersAssumption, BoundsAssumption
   DEF AccountsInv, ShapeInv, JobShape, EditOutside, callers, Trouble, Present, Count,
       Record, NoJob, GateInv, AccountTypes, SetTypes, JobType, Jobs, Callers, Foreign,
       RequestType, RequestPlaces

LEMMA CancelShapeInv ==
  ASSUME AccountsInv, Cancel
  PROVE  ShapeInv'
BY CallersAssumption, BoundsAssumption
   DEF AccountsInv, ShapeInv, JobShape, Cancel, durable, GateInv, AccountTypes,
       SetTypes, JobType, Jobs, Callers, Foreign, RequestType, RequestPlaces

LEMMA RecoverSettledShapeInv ==
  ASSUME AccountsInv, RecoverSettled
  PROVE  ShapeInv'
BY CallersAssumption, BoundsAssumption
   DEF AccountsInv, ShapeInv, JobShape, RecoverSettled, callers, Pending,
       StagedIsSettled, StateOfStaged, Trouble, Count, Require, GateInv, AccountTypes,
       SetTypes, JobType, Jobs, Callers, Foreign, RequestType, RequestPlaces

LEMMA ProcessStopsShapeInv ==
  ASSUME AccountsInv, ProcessStops
  PROVE  ShapeInv'
BY CallersAssumption, BoundsAssumption
   DEF AccountsInv, ShapeInv, JobShape, ProcessStops, durable, Trouble, Count, NoJob,
       At, GateInv, AccountTypes, SetTypes, JobType, Jobs, Callers, Foreign,
       RequestType, RequestPlaces

LEMMA LoseStagedShapeInv ==
  ASSUME AccountsInv, LoseStaged
  PROVE  ShapeInv'
BY CallersAssumption, BoundsAssumption
   DEF AccountsInv, ShapeInv, JobShape, LoseStaged, callers, Trouble, Count, GateInv,
       AccountTypes, SetTypes, JobType, Jobs, Callers, Foreign, RequestType,
       RequestPlaces

LEMMA SubmitCallerInv ==
  ASSUME NEW c \in Actions, NEW kind \in Kinds, NEW a \in Accounts, AccountsInv, Submit(c,
         kind, a)
  PROVE  CallerInv'
BY CallersAssumption, BoundsAssumption
   DEF AccountsInv, CallerInv, Submit, durable, Free, NoJob, Present, GateInv, PhaseInv,
       AccountTypes, SetTypes, JobType, Jobs, Callers, RowType, ActionType, Outcomes

LEMMA ApplyCallerInv ==
  ASSUME NEW c \in Actions, AccountsInv, Apply(c)
  PROVE  CallerInv'
BY CallersAssumption, BoundsAssumption
   DEF AccountsInv, CallerInv, Apply, durable, Free, NoJob, Answered, Refused, Present,
       DesiredBy, Deleted, Take, GateInv, PhaseInv, AccountTypes, SetTypes, JobType,
       Jobs, Callers, RowType, ActionType, Outcomes

LEMMA ReadAccountCallerInv ==
  ASSUME NEW r \in Requests, AccountsInv, ReadAccount(r)
  PROVE  CallerInv'
BY CallersAssumption, BoundsAssumption
   DEF AccountsInv, CallerInv, ReadAccount, durable, Present, At, GateInv, PhaseInv,
       AccountTypes, SetTypes, JobType, Jobs, Callers, RowType, ActionType, Outcomes

LEMMA RefreshCallerInv ==
  ASSUME NEW r \in Requests, AccountsInv, Refresh(r)
  PROVE  CallerInv'
BY CallersAssumption, BoundsAssumption
   DEF AccountsInv, CallerInv, Refresh, durable, At, Record, Count, GateInv, PhaseInv,
       AccountTypes, SetTypes, JobType, Jobs, Callers, RowType, ActionType, Outcomes

LEMMA RecordRefreshCallerInv ==
  ASSUME NEW r \in Requests, AccountsInv, RecordRefresh(r)
  PROVE  CallerInv'
BY CallersAssumption, BoundsAssumption
   DEF AccountsInv, CallerInv, RecordRefresh, durable, Free, NoJob, Unchanged, At, Take,
       Refreshed, Record, GateInv, PhaseInv, AccountTypes, SetTypes, JobType, Jobs,
       Callers, RowType, ActionType, Outcomes

LEMMA GrantCallerInv ==
  ASSUME NEW a \in Accounts, AccountsInv, Grant(a)
  PROVE  CallerInv'
BY CallersAssumption, BoundsAssumption
   DEF AccountsInv, CallerInv, Grant, durable, Count, GateInv, PhaseInv, AccountTypes,
       SetTypes, JobType, Jobs, Callers, RowType, ActionType, Outcomes

LEMMA EditOutsideCallerInv ==
  ASSUME NEW a \in Accounts, AccountsInv, EditOutside(a)
  PROVE  CallerInv'
BY CallersAssumption, BoundsAssumption
   DEF AccountsInv, CallerInv, EditOutside, callers, Trouble, Present, Count, Record,
       NoJob, GateInv, PhaseInv, AccountTypes, SetTypes, JobType, Jobs, Callers,
       RowType, ActionType, Outcomes

LEMMA CancelCallerInv ==
  ASSUME AccountsInv, Cancel
  PROVE  CallerInv'
BY CallersAssumption, BoundsAssumption
   DEF AccountsInv, CallerInv, Cancel, durable, GateInv, PhaseInv, AccountTypes,
       SetTypes, JobType, Jobs, Callers, RowType, ActionType, Outcomes

LEMMA RecordAuthorizationCallerInv ==
  ASSUME AccountsInv, RecordAuthorization
  PROVE  CallerInv'
BY CallersAssumption, BoundsAssumption
   DEF AccountsInv, CallerInv, RecordAuthorization, durable, Free, NoJob,
       CancelledBeforeCommit, Take, Record, GateInv, PhaseInv, AccountTypes, SetTypes,
       JobType, Jobs, Callers, RowType, ActionType, Outcomes

LEMMA BeginCallerInv ==
  ASSUME AccountsInv, Begin
  PROVE  CallerInv'
BY CallersAssumption, BoundsAssumption
   DEF AccountsInv, CallerInv, Begin, callers, NoJob, Pending, Trouble, Count, Ended,
       At, GateInv, PhaseInv, AccountTypes, SetTypes, JobType, Jobs, Callers, RowType,
       ActionType, Outcomes

LEMMA WriteFileCallerInv ==
  ASSUME AccountsInv, WriteFile
  PROVE  CallerInv'
BY CallersAssumption, BoundsAssumption
   DEF AccountsInv, CallerInv, WriteFile, callers, NoJob, Trouble, Count, GateInv,
       PhaseInv, AccountTypes, SetTypes, JobType, Jobs, Callers, RowType, ActionType,
       Outcomes

LEMMA CommitCallerInv ==
  ASSUME AccountsInv, Commit
  PROVE  CallerInv'
BY CallersAssumption, BoundsAssumption
   DEF AccountsInv, CallerInv, Commit, callers, Present, NoJob, Bound, Trouble, Count,
       Ended, At, GateInv, PhaseInv, AccountTypes, SetTypes, JobType, Jobs, Callers,
       RowType, ActionType, Outcomes

LEMMA UnstageCallerInv ==
  ASSUME AccountsInv, Unstage
  PROVE  CallerInv'
BY CallersAssumption, BoundsAssumption
   DEF AccountsInv, CallerInv, Unstage, NoJob, Trouble, Count, Ended, At, GateInv,
       PhaseInv, AccountTypes, SetTypes, JobType, Jobs, Callers, RowType, ActionType,
       Outcomes

LEMMA UndoWriteCallerInv ==
  ASSUME AccountsInv, UndoWrite
  PROVE  CallerInv'
BY CallersAssumption, BoundsAssumption
   DEF AccountsInv, CallerInv, UndoWrite, callers, NoJob, Require, Ended, At, Trouble,
       Count, GateInv, PhaseInv, AccountTypes, SetTypes, JobType, Jobs, Callers,
       RowType, ActionType, Outcomes

LEMMA MarkUndoneCallerInv ==
  ASSUME AccountsInv, MarkUndone
  PROVE  CallerInv'
BY CallersAssumption, BoundsAssumption
   DEF AccountsInv, CallerInv, MarkUndone, callers, NoJob, Trouble, Count, Ended, At,
       GateInv, PhaseInv, AccountTypes, SetTypes, JobType, Jobs, Callers, RowType,
       ActionType, Outcomes

LEMMA RecoverPendingCallerInv ==
  ASSUME AccountsInv, RecoverPending
  PROVE  CallerInv'
BY CallersAssumption, BoundsAssumption
   DEF AccountsInv, CallerInv, RecoverPending, callers, Pending, StateOfStaged, GiveUp,
       Require, Trouble, Count, Recovered, GateInv, PhaseInv, AccountTypes, SetTypes,
       JobType, Jobs, Callers, RowType, ActionType, Outcomes

LEMMA RecoverSettledCallerInv ==
  ASSUME AccountsInv, RecoverSettled
  PROVE  CallerInv'
BY CallersAssumption, BoundsAssumption
   DEF AccountsInv, CallerInv, RecoverSettled, callers, Pending, StagedIsSettled,
       StateOfStaged, Trouble, Count, Require, GateInv, PhaseInv, AccountTypes,
       SetTypes, JobType, Jobs, Callers, RowType, ActionType, Outcomes

LEMMA RecoverCleanupCallerInv ==
  ASSUME AccountsInv, RecoverCleanup
  PROVE  CallerInv'
BY CallersAssumption, BoundsAssumption
   DEF AccountsInv, CallerInv, RecoverCleanup, Trouble, Count, Require, Ended, NoJob,
       At, GateInv, PhaseInv, AccountTypes, SetTypes, JobType, Jobs, Callers, RowType,
       ActionType, Outcomes

LEMMA ProcessStopsCallerInv ==
  ASSUME AccountsInv, ProcessStops
  PROVE  CallerInv'
BY CallersAssumption, BoundsAssumption
   DEF AccountsInv, CallerInv, ProcessStops, durable, Trouble, Count, NoJob, At,
       GateInv, PhaseInv, AccountTypes, SetTypes, JobType, Jobs, Callers, RowType,
       ActionType, Outcomes

LEMMA LoseStagedCallerInv ==
  ASSUME AccountsInv, LoseStaged
  PROVE  CallerInv'
BY CallersAssumption, BoundsAssumption
   DEF AccountsInv, CallerInv, LoseStaged, callers, Trouble, Count, GateInv, PhaseInv,
       AccountTypes, SetTypes, JobType, Jobs, Callers, RowType, ActionType, Outcomes

LEMMA StageGateInv ==
  ASSUME AccountsInv, Stage
  PROVE  GateInv'
<1> USE CallersAssumption, BoundsAssumption
<1>1. status = "up" /\ job # NoJob /\ row' = row /\ status' = "up"
  BY DEF Stage, Ended, AccountsInv, GateInv, callers
<1>2. CASE job' = NoJob
  <2>1. staged' = staged /\ counts'.intents = counts.intents
    BY <1>2
       DEF Stage, Count, AccountsInv, AccountTypes, NumberTypes, JobType, Jobs, Callers,
           NoJob
  <2> QED BY <1>1, <1>2, <2>1 DEF AccountsInv, GateInv, NoJob
<1>3. CASE job' = [job EXCEPT !.phase = "begin", !.id = counts.intents + 1]
  <2>1. /\ job'.by = job.by /\ job'.before = job.before /\ job'.desired = job.desired
        /\ job'.id = counts.intents + 1 /\ job' # NoJob
    BY <1>1, <1>3 DEF AccountsInv, AccountTypes, JobType, Jobs, Callers, NoJob
  <2>2. /\ UNCHANGED <<status, callers>> /\ counts'.intents = counts.intents + 1
        /\ staged'.id = counts.intents + 1
        /\ staged'.before = job.before /\ staged'.desired = job.desired
    BY <1>1, <2>1 DEF Stage, Ended, Count, AccountsInv, AccountTypes, NumberTypes
  <2>3. counts.intents \in Nat /\ row.id \in Nat
    BY DEF AccountsInv, AccountTypes, NumberTypes, RowType
  <2> QED BY <1>1, <2>1, <2>2, <2>3 DEF AccountsInv, GateInv, callers
<1> QED BY <1>2, <1>3 DEF Stage, Ended

LEMMA BeginGateInv ==
  ASSUME AccountsInv, Begin
  PROVE  GateInv'
<1> USE CallersAssumption, BoundsAssumption
<1>1. /\ status = "up" /\ job # NoJob /\ staged' \in {staged, Unset}
      /\ (row' = row \/ row' = [id |-> job.id, state |-> "pending"])
  BY DEF Begin
<1>2. counts'.intents = counts.intents /\ status' = "up"
  BY DEF Begin, Ended, Count, AccountsInv, GateInv, callers, AccountTypes, NumberTypes
<1>3. row'.id <= counts.intents /\ (row'.id = 0 <=> row'.state = Unset)
  BY <1>1
     DEF AccountsInv, GateInv, PhaseInv, AccountTypes, RowType, JobType, Jobs, Begin,
         Pending
<1>4. CASE GoesOn
  <2>1. job'.id = job.id /\ job' # NoJob
    BY <1>1, <1>4 DEF Begin, GoesOn, AccountsInv, AccountTypes, JobType, Jobs, Ended
  <2> QED BY <1>1, <1>2, <1>3, <1>4, <2>1 DEF AccountsInv, GateInv, GoesOn, callers
<1>5. CASE Releases
  BY <1>1, <1>2, <1>3, <1>5 DEF AccountsInv, GateInv, Releases, NoJob
<1> QED BY <1>4, <1>5, BeginAdvances

LEMMA CommitGateInv ==
  ASSUME AccountsInv, Commit
  PROVE  GateInv'
<1> USE CallersAssumption, BoundsAssumption
<1>1. /\ status = "up" /\ job # NoJob /\ staged' = staged
      /\ (row' = row \/ (row' = [row EXCEPT !.state = "committed"] /\ job.id # 0))
  BY DEF Commit
<1>2. counts'.intents = counts.intents /\ status' = "up"
  BY DEF Commit, Ended, Count, AccountsInv, GateInv, callers, AccountTypes, NumberTypes
<1>3. row'.id <= counts.intents /\ (row'.id = 0 <=> row'.state = Unset)
  BY <1>1
     DEF AccountsInv, GateInv, PhaseInv, AccountTypes, RowType, JobType, Jobs, Commit,
         Pending
<1>4. CASE GoesOn
  <2>1. job'.id = job.id /\ job' # NoJob
    BY <1>1, <1>4 DEF Commit, GoesOn, AccountsInv, AccountTypes, JobType, Jobs, Ended
  <2> QED BY <1>1, <1>2, <1>3, <1>4, <2>1 DEF AccountsInv, GateInv, GoesOn, callers
<1>5. CASE Releases
  BY <1>1, <1>2, <1>3, <1>5 DEF AccountsInv, GateInv, Releases, NoJob
<1> QED BY <1>4, <1>5, CommitAdvances

LEMMA UndoWriteGateInv ==
  ASSUME AccountsInv, UndoWrite
  PROVE  GateInv'
<1> USE CallersAssumption, BoundsAssumption
<1>1. /\ status = "up" /\ job # NoJob /\ staged' = staged
      /\ (row' = row \/ row' = [row EXCEPT !.state = "recovery-required"])
  BY DEF UndoWrite
<1>2. counts'.intents = counts.intents /\ status' = "up"
  BY DEF UndoWrite, Ended, Count, AccountsInv, GateInv, callers, AccountTypes,
         NumberTypes
<1>3. row'.id <= counts.intents /\ (row'.id = 0 <=> row'.state = Unset)
  BY <1>1
     DEF AccountsInv, GateInv, PhaseInv, AccountTypes, RowType, JobType, Jobs,
         UndoWrite, Pending
<1>4. CASE GoesOn
  <2>1. job'.id = job.id /\ job' # NoJob
    BY <1>1, <1>4 DEF UndoWrite, GoesOn, AccountsInv, AccountTypes, JobType, Jobs, Ended
  <2> QED BY <1>1, <1>2, <1>3, <1>4, <2>1 DEF AccountsInv, GateInv, GoesOn, callers
<1>5. CASE Releases
  BY <1>1, <1>2, <1>3, <1>5 DEF AccountsInv, GateInv, Releases, NoJob
<1> QED BY <1>4, <1>5, UndoWriteAdvances

LEMMA MarkUndoneGateInv ==
  ASSUME AccountsInv, MarkUndone
  PROVE  GateInv'
<1> USE CallersAssumption, BoundsAssumption
<1>1. /\ job # NoJob /\ staged' = staged
      /\ (row' = row \/ row' = [row EXCEPT !.state = "rolled-back"])
  BY DEF MarkUndone
<1>2. counts'.intents = counts.intents
  BY DEF MarkUndone, Ended, Count, AccountsInv, AccountTypes, NumberTypes
<1>3. row'.id = row.id /\ (row'.id = 0 <=> row'.state = Unset)
  BY <1>1 DEF AccountsInv, GateInv, PhaseInv, AccountTypes, RowType, MarkUndone, Pending
<1>4. CASE GoesOn
  <2>1. job'.id = job.id /\ job' # NoJob /\ status' = status
    BY <1>1, <1>4
       DEF MarkUndone, GoesOn, AccountsInv, AccountTypes, JobType, Jobs, Ended
  <2> QED BY <1>1, <1>2, <1>3, <1>4, <2>1 DEF AccountsInv, GateInv, GoesOn, callers
<1>5. CASE Releases
  <2>1. status' \in {"up", "down"}
    BY <1>1, <1>5 DEF Releases, MarkUndone, Ended, AccountsInv, GateInv, callers,
       AccountTypes,
      JobType, Jobs, Callers, NoJob
  <2> QED BY <1>1, <1>2, <1>3, <1>5, <2>1 DEF AccountsInv, GateInv, Releases, NoJob
<1> QED BY <1>4, <1>5, MarkUndoneAdvances

LEMMA StageCallerInv ==
  ASSUME AccountsInv, Stage
  PROVE  CallerInv'
<1> USE CallersAssumption
<1>1. job # NoJob /\ job.phase = "stage" /\ receipts' = receipts /\ row' = row
  BY DEF Stage
<1>2. CASE GoesOn
  <2>1. job'.phase = "begin"
    BY <1>1, <1>2 DEF Stage, GoesOn, AccountsInv, AccountTypes, JobType, Jobs, Ended
  <2> QED BY <1>1, <1>2, <2>1 DEF AccountsInv, CallerInv, GoesOn, callers
<1>3. CASE Releases
  <2>1. Ended("failed")
    BY <1>1, <1>3
       DEF Stage, Releases, AccountsInv, AccountTypes, JobType, Jobs, Callers, NoJob
  <2> QED
      BY <1>1, <1>3, <2>1
         DEF AccountsInv, CallerInv, Releases, NoJob, Ended, AccountTypes, ActionType
<1> QED BY <1>2, <1>3, StageAdvances

LEMMA SubmitFileInv ==
  ASSUME NEW c \in Actions, NEW kind \in Kinds, NEW a \in Accounts, AccountsInv, Submit(c,
         kind, a)
  PROVE  FileInv'
BY CallersAssumption, BoundsAssumption
   DEF AccountsInv, FileInv, Submit, durable, Free, NoJob, Present, GateInv, PhaseInv,
       AccountTypes, SetTypes, JobType, Jobs, Callers, RowType, StagedType, Marked,
       Anchored, Pending, ShapeInv, Foreign, NumberTypes

LEMMA ApplyFileInv ==
  ASSUME NEW c \in Actions, AccountsInv, Apply(c)
  PROVE  FileInv'
BY CallersAssumption, BoundsAssumption
   DEF AccountsInv, FileInv, Apply, durable, Free, NoJob, Answered, Refused, Present,
       DesiredBy, Deleted, Take, GateInv, PhaseInv, AccountTypes, SetTypes, JobType,
       Jobs, Callers, RowType, StagedType, Marked, Anchored, Pending, ShapeInv, Foreign,
       NumberTypes

LEMMA ReadAccountFileInv ==
  ASSUME NEW r \in Requests, AccountsInv, ReadAccount(r)
  PROVE  FileInv'
BY CallersAssumption, BoundsAssumption
   DEF AccountsInv, FileInv, ReadAccount, durable, Present, At, GateInv, PhaseInv,
       AccountTypes, SetTypes, JobType, Jobs, Callers, RowType, StagedType, Marked,
       Anchored, Pending, ShapeInv, Foreign, NumberTypes

LEMMA RefreshFileInv ==
  ASSUME NEW r \in Requests, AccountsInv, Refresh(r)
  PROVE  FileInv'
BY CallersAssumption, BoundsAssumption
   DEF AccountsInv, FileInv, Refresh, durable, At, Record, Count, GateInv, PhaseInv,
       AccountTypes, SetTypes, JobType, Jobs, Callers, RowType, StagedType, Marked,
       Anchored, Pending, ShapeInv, Foreign, NumberTypes

LEMMA RecordRefreshFileInv ==
  ASSUME NEW r \in Requests, AccountsInv, RecordRefresh(r)
  PROVE  FileInv'
BY CallersAssumption, BoundsAssumption
   DEF AccountsInv, FileInv, RecordRefresh, durable, Free, NoJob, Unchanged, At, Take,
       Refreshed, Record, GateInv, PhaseInv, AccountTypes, SetTypes, JobType, Jobs,
       Callers, RowType, StagedType, Marked, Anchored, Pending, ShapeInv, Foreign,
       NumberTypes

LEMMA GrantFileInv ==
  ASSUME NEW a \in Accounts, AccountsInv, Grant(a)
  PROVE  FileInv'
BY CallersAssumption, BoundsAssumption
   DEF AccountsInv, FileInv, Grant, durable, Count, GateInv, PhaseInv, AccountTypes,
       SetTypes, JobType, Jobs, Callers, RowType, StagedType, Marked, Anchored, Pending,
       ShapeInv, Foreign, NumberTypes

LEMMA CancelFileInv ==
  ASSUME AccountsInv, Cancel
  PROVE  FileInv'
BY CallersAssumption, BoundsAssumption
   DEF AccountsInv, FileInv, Cancel, durable, GateInv, PhaseInv, AccountTypes, SetTypes,
       JobType, Jobs, Callers, RowType, StagedType, Marked, Anchored, Pending, ShapeInv,
       Foreign, NumberTypes

LEMMA RecordAuthorizationFileInv ==
  ASSUME AccountsInv, RecordAuthorization
  PROVE  FileInv'
BY CallersAssumption, BoundsAssumption
   DEF AccountsInv, FileInv, RecordAuthorization, durable, Free, NoJob,
       CancelledBeforeCommit, Take, Record, GateInv, PhaseInv, AccountTypes, SetTypes,
       JobType, Jobs, Callers, RowType, StagedType, Marked, Anchored, Pending, ShapeInv,
       Foreign, NumberTypes

(* A job writes over what it read only; what it is anchored in stays.        *)
LEMMA WriteFileDoes ==
  ASSUME AccountsInv, WriteFile
  PROVE  /\ job \in Jobs /\ job.id # 0 /\ job.by # Start
         /\ Pending /\ row.id = job.id /\ UNCHANGED <<staged, row, catalog, last>>
         /\ \/ doc = job.before /\ last = job.before
            \/ doc' = doc /\ job' = [job EXCEPT !.phase = "undo"]
         /\ \/ doc' = job.desired /\ job' = [job EXCEPT !.phase = "commit"]
            \/ job' = [job EXCEPT !.phase = "undo"]
         /\ Anchored(job.before, job.desired)'
<1>1. job \in Jobs BY DEF AccountsInv, AccountTypes, JobType, WriteFile
<1>2. /\ job.id # 0 /\ job.by # Start /\ Pending /\ row.id = job.id
      /\ Anchored(job.before, job.desired)
  BY DEF AccountsInv, PhaseInv, WriteFile
<1>3. UNCHANGED <<staged, row, catalog, last>> BY DEF WriteFile
<1>4. doc = job.before => last = job.before BY <1>2 DEF Anchored
<1>5. \/ doc = job.before
      \/ doc' = doc /\ job' = [job EXCEPT !.phase = "undo"]
  BY DEF WriteFile
<1>6. \/ doc' = job.desired /\ job' = [job EXCEPT !.phase = "commit"]
      \/ job' = [job EXCEPT !.phase = "undo"]
  BY DEF WriteFile
<1>7. Anchored(job.before, job.desired)'
  <2>1. job'.before = job.before /\ job'.desired = job.desired BY <1>1, <1>6 DEF Jobs
  <2>. QED BY <1>2, <1>3, <1>4, <1>5, <2>1 DEF Anchored, Marked
<1> QED BY <1>1, <1>2, <1>3, <1>4, <1>5, <1>6, <1>7

LEMMA WriteFileFileInv ==
  ASSUME AccountsInv, WriteFile
  PROVE  FileInv'
<1>1. Pending' BY WriteFileDoes DEF Pending
<1>2. ASSUME staged' # Unset, staged'.id = row'.id
      PROVE  Anchored(staged.before, staged.desired)'
  <2>1. /\ staged' = staged /\ last' = last /\ staged # Unset /\ staged.id = row.id
        /\ staged.id = job.id /\ job # NoJob /\ Pending
    BY <1>2, WriteFileDoes DEF WriteFile
  <2>2. staged.before = job.before BY <2>1 DEF AccountsInv, GateInv
  <2>3. Anchored(staged.before, staged.desired) BY <2>1 DEF AccountsInv, FileInv
  <2>4. last = job.before \/ doc' = doc BY WriteFileDoes
  <2> QED BY <2>1, <2>2, <2>3, <2>4 DEF Anchored, Marked
<1> QED BY <1>1, <1>2 DEF FileInv

LEMMA UnstageFileInv ==
  ASSUME AccountsInv, Unstage
  PROVE  FileInv'
<1>1. staged' \in {staged, Unset} /\ UNCHANGED <<doc, row, catalog, last>>
  BY DEF Unstage
<1> QED BY <1>1 DEF AccountsInv, FileInv, Pending, Anchored, Marked

LEMMA MarkUndoneFileInv ==
  ASSUME AccountsInv, MarkUndone
  PROVE  FileInv'
BY CallersAssumption, BoundsAssumption
   DEF AccountsInv, FileInv, MarkUndone, callers, NoJob, Trouble, Count, Ended, At,
       GateInv, PhaseInv, AccountTypes, SetTypes, JobType, Jobs, Callers, RowType,
       StagedType, Marked, Anchored, Pending, ShapeInv, Foreign, NumberTypes

LEMMA ProcessStopsFileInv ==
  ASSUME AccountsInv, ProcessStops
  PROVE  FileInv'
BY CallersAssumption, BoundsAssumption
   DEF AccountsInv, FileInv, ProcessStops, durable, Trouble, Count, NoJob, At, GateInv,
       PhaseInv, AccountTypes, SetTypes, JobType, Jobs, Callers, RowType, StagedType,
       Marked, Anchored, Pending, ShapeInv, Foreign, NumberTypes

LEMMA LoseStagedFileInv ==
  ASSUME AccountsInv, LoseStaged
  PROVE  FileInv'
BY CallersAssumption, BoundsAssumption
   DEF AccountsInv, FileInv, LoseStaged, callers, Trouble, Count, GateInv, PhaseInv,
       AccountTypes, SetTypes, JobType, Jobs, Callers, RowType, StagedType, Marked,
       Anchored, Pending, ShapeInv, Foreign, NumberTypes

LEMMA SubmitPhaseInv ==
  ASSUME NEW c \in Actions, NEW kind \in Kinds, NEW a \in Accounts, AccountsInv, Submit(c,
         kind, a)
  PROVE  PhaseInv'
BY CallersAssumption, BoundsAssumption
   DEF AccountsInv, PhaseInv, Submit, durable, Free, NoJob, Present, GateInv,
       AccountTypes, SetTypes, JobType, Jobs, Callers, RowType, Marked, Anchored,
       Pending, FileInv, NumberTypes

LEMMA ReadAccountPhaseInv ==
  ASSUME NEW r \in Requests, AccountsInv, ReadAccount(r)
  PROVE  PhaseInv'
BY CallersAssumption, BoundsAssumption
   DEF AccountsInv, PhaseInv, ReadAccount, durable, Present, At, GateInv, AccountTypes,
       SetTypes, JobType, Jobs, Callers, RowType, Marked, Anchored, Pending, FileInv,
       NumberTypes

LEMMA RefreshPhaseInv ==
  ASSUME NEW r \in Requests, AccountsInv, Refresh(r)
  PROVE  PhaseInv'
BY CallersAssumption, BoundsAssumption
   DEF AccountsInv, PhaseInv, Refresh, durable, At, Record, Count, GateInv,
       AccountTypes, SetTypes, JobType, Jobs, Callers, RowType, Marked, Anchored,
       Pending, FileInv, NumberTypes

LEMMA RecordRefreshPhaseInv ==
  ASSUME NEW r \in Requests, AccountsInv, RecordRefresh(r)
  PROVE  PhaseInv'
BY CallersAssumption, BoundsAssumption
   DEF AccountsInv, PhaseInv, RecordRefresh, durable, Free, NoJob, Unchanged, At, Take,
       Refreshed, Record, GateInv, AccountTypes, SetTypes, JobType, Jobs, Callers,
       RowType, Marked, Anchored, Pending, FileInv, NumberTypes

LEMMA GrantPhaseInv ==
  ASSUME NEW a \in Accounts, AccountsInv, Grant(a)
  PROVE  PhaseInv'
BY CallersAssumption, BoundsAssumption
   DEF AccountsInv, PhaseInv, Grant, durable, Count, GateInv, AccountTypes, SetTypes,
       JobType, Jobs, Callers, RowType, Marked, Anchored, Pending, FileInv, NumberTypes

LEMMA CancelPhaseInv ==
  ASSUME AccountsInv, Cancel
  PROVE  PhaseInv'
BY CallersAssumption, BoundsAssumption
   DEF AccountsInv, PhaseInv, Cancel, durable, GateInv, AccountTypes, SetTypes, JobType,
       Jobs, Callers, RowType, Marked, Anchored, Pending, FileInv, NumberTypes

LEMMA RecordAuthorizationPhaseInv ==
  ASSUME AccountsInv, RecordAuthorization
  PROVE  PhaseInv'
BY CallersAssumption, BoundsAssumption
   DEF AccountsInv, PhaseInv, RecordAuthorization, durable, Free, NoJob,
       CancelledBeforeCommit, Take, Record, GateInv, AccountTypes, SetTypes, JobType,
       Jobs, Callers, RowType, Marked, Anchored, Pending, FileInv, NumberTypes

LEMMA WriteFilePhaseInv ==
  ASSUME AccountsInv, WriteFile
  PROVE  PhaseInv'
<1>1. /\ job'.by = job.by /\ job'.id = job.id /\ job'.before = job.before
      /\ job'.desired = job.desired /\ job'.touched = job.touched
      /\ \/ job'.phase = "commit" /\ doc' = job.desired /\ last = job.before
         \/ job'.phase = "undo"
  <2>1. job \in Jobs BY WriteFileDoes
  <2>2. CASE job' = [job EXCEPT !.phase = "undo"] BY <2>1, <2>2 DEF Jobs
  <2>3. CASE job' = [job EXCEPT !.phase = "commit"]
    <3>1. job'.phase = "commit" BY <2>1, <2>3 DEF Jobs
    <3>2. job' # [job EXCEPT !.phase = "undo"] BY <2>1, <3>1 DEF Jobs
    <3>3. doc' = job.desired /\ last = job.before BY <3>2, WriteFileDoes
    <3> QED BY <2>1, <2>3, <3>1, <3>3 DEF Jobs
  <2> QED BY <2>2, <2>3, WriteFileDoes
<1>2. /\ job.id # 0 /\ job.by # Start /\ Pending' /\ row'.id = job.id /\ last' = last
      /\ Anchored(job.before, job.desired)'
  BY WriteFileDoes DEF Pending
<1> QED BY <1>1, <1>2 DEF PhaseInv

LEMMA UnstagePhaseInv ==
  ASSUME AccountsInv, Unstage
  PROVE  PhaseInv'
BY CallersAssumption, BoundsAssumption
   DEF AccountsInv, PhaseInv, Unstage, NoJob, Trouble, Count, Ended, At, GateInv,
       AccountTypes, SetTypes, JobType, Jobs, Callers, RowType, Marked, Anchored,
       Pending, FileInv, NumberTypes

LEMMA UndoWritePhaseInv ==
  ASSUME AccountsInv, UndoWrite
  PROVE  PhaseInv'
BY CallersAssumption, BoundsAssumption
   DEF AccountsInv, PhaseInv, UndoWrite, callers, NoJob, Require, Ended, At, Trouble,
       Count, GateInv, AccountTypes, SetTypes, JobType, Jobs, Callers, RowType, Marked,
       Anchored, Pending, FileInv, NumberTypes

LEMMA MarkUndonePhaseInv ==
  ASSUME AccountsInv, MarkUndone
  PROVE  PhaseInv'
<1>1. job \in Jobs /\ job.id # 0 /\ row.id = job.id /\ DOMAIN row = {"id", "state"}
  <2>1. job.id # 0 /\ row.id = job.id BY DEF AccountsInv, PhaseInv, MarkUndone
  <2> QED BY <2>1 DEF AccountsInv, AccountTypes, JobType, RowType, MarkUndone
<1>2. CASE job' = NoJob BY <1>2 DEF PhaseInv
<1>3. CASE job' # NoJob
  <2>1. /\ row' = [row EXCEPT !.state = "rolled-back"]
        /\ job' = [job EXCEPT !.phase = IF job.by = Start THEN "cleanup" ELSE "unstage"]
    BY <1>3 DEF MarkUndone, Ended
  <2>2. row'.id = row.id /\ row'.state = "rolled-back" BY <1>1, <2>1
  <2>3. /\ job'.by = job.by /\ job'.id = job.id
        /\ job'.phase = IF job.by = Start THEN "cleanup" ELSE "unstage"
    BY <1>1, <2>1 DEF Jobs
  <2>4. CASE job.by = Start
    <3>1. job'.phase = "cleanup" /\ job'.by = Start BY <2>3, <2>4
    <3>2. ~Pending' BY <2>2 DEF Pending
    <3>3. job'.id # 0 BY <1>1, <2>3
    <3> QED BY <3>1, <3>2, <3>3 DEF PhaseInv
  <2>5. CASE job.by # Start
    <3>1. job'.phase = "unstage" /\ job'.by # Start BY <2>3, <2>5
    <3>2. row'.id = job'.id BY <1>1, <2>2, <2>3
    <3> QED BY <2>2, <3>1, <3>2 DEF PhaseInv
  <2> QED BY <2>4, <2>5
<1> QED BY <1>2, <1>3

LEMMA RecoverSettledPhaseInv ==
  ASSUME AccountsInv, RecoverSettled
  PROVE  PhaseInv'
BY CallersAssumption, BoundsAssumption
   DEF AccountsInv, PhaseInv, RecoverSettled, callers, Pending, StagedIsSettled,
       StateOfStaged, Trouble, Count, Require, GateInv, AccountTypes, SetTypes, JobType,
       Jobs, Callers, RowType, Marked, Anchored, FileInv, NumberTypes

LEMMA RecoverCleanupPhaseInv ==
  ASSUME AccountsInv, RecoverCleanup
  PROVE  PhaseInv'
BY CallersAssumption, BoundsAssumption
   DEF AccountsInv, PhaseInv, RecoverCleanup, Trouble, Count, Require, Ended, NoJob, At,
       GateInv, AccountTypes, SetTypes, JobType, Jobs, Callers, RowType, Marked,
       Anchored, Pending, FileInv, NumberTypes

LEMMA ProcessStopsPhaseInv ==
  ASSUME AccountsInv, ProcessStops
  PROVE  PhaseInv'
BY CallersAssumption, BoundsAssumption
   DEF AccountsInv, PhaseInv, ProcessStops, durable, Trouble, Count, NoJob, At, GateInv,
       AccountTypes, SetTypes, JobType, Jobs, Callers, RowType, Marked, Anchored,
       Pending, FileInv, NumberTypes

LEMMA LoseStagedPhaseInv ==
  ASSUME AccountsInv, LoseStaged
  PROVE  PhaseInv'
BY CallersAssumption, BoundsAssumption
   DEF AccountsInv, PhaseInv, LoseStaged, callers, Trouble, Count, GateInv,
       AccountTypes, SetTypes, JobType, Jobs, Callers, RowType, Marked, Anchored,
       Pending, FileInv, NumberTypes

(* What an edit outside does to the file, and to what is known of it.         *)
LEMMA EditEffects ==
  ASSUME AccountsInv, NEW a \in Accounts, EditOutside(a)
  PROVE  /\ doc'.accounts[a] = Record(0, TRUE)
         /\ \A b \in Accounts \ {a} : doc'.accounts[b] = doc.accounts[b]
         /\ (doc.accounts[a] = Record(0, TRUE) => doc' = doc)
<1> DEFINE record == Record(0, TRUE)
<1>1. doc' = [doc EXCEPT !.accounts[a] = record]
  BY DEF EditOutside
<1>2. doc \in [accounts : [Accounts -> Records], default : Accounts \cup {Unset}]
  BY DEF AccountsInv, AccountTypes, FileTypes, AccountDocuments
<1> HIDE DEF record
<1>3. /\ doc'.accounts[a] = record
      /\ \A b \in Accounts \ {a} : doc'.accounts[b] = doc.accounts[b]
  BY <1>1, <1>2
<1>4. ASSUME doc.accounts[a] = record PROVE doc' = doc
  <2>1. [doc.accounts EXCEPT ![a] = record] = doc.accounts
    BY <1>2, <1>4
  <2>2. doc' = [doc EXCEPT !.accounts = doc.accounts]
    BY <1>1, <2>1
  <2> QED BY <1>2, <2>2
<1> QED BY <1>3, <1>4 DEF record

LEMMA EditMarks ==
  ASSUME AccountsInv, NEW a \in Accounts, EditOutside(a), NEW before, NEW desired,
         Foreign(before, desired), doc = before \/ Marked(desired)
  PROVE  doc' = before \/ \E b \in Accounts :
           doc'.accounts[b] = Record(0, TRUE) /\ desired.accounts[b] # Record(0, TRUE)
<1>1. CASE Marked(desired)
  BY <1>1, EditEffects DEF Marked
<1>2. CASE doc = before /\ doc.accounts[a] = Record(0, TRUE)
  BY <1>2, EditEffects
<1>3. CASE doc = before /\ doc.accounts[a] # Record(0, TRUE)
  BY <1>3, EditEffects DEF Foreign
<1> QED BY <1>1, <1>2, <1>3

LEMMA EditAnchors ==
  ASSUME AccountsInv, NEW a \in Accounts, EditOutside(a), NEW before, NEW desired,
         Foreign(before, desired), Anchored(before, desired)
  PROVE  \/ last' = before
         \/ /\ doc' = last'
            /\ \E b \in Accounts :
                 doc'.accounts[b] = Record(0, TRUE) /\ desired.accounts[b] # Record(0, TRUE)
<1>1. CASE doc # last
  BY <1>1 DEF EditOutside, Anchored
<1>2. CASE doc = last
  <2>1. last' = doc'
    BY <1>2 DEF EditOutside
  <2>2. doc = before \/ Marked(desired)
    BY <1>2 DEF Anchored
  <2> QED BY <2>1, <2>2, EditMarks
<1> QED BY <1>1, <1>2

(* A document that could still be undone: last is what it is undone to.       *)
LEMMA AnchorHolds ==
  ASSUME NEW before, NEW desired, Anchored(before, desired), doc \in {before, desired}
  PROVE  last = before
BY DEF Anchored, Marked

LEMMA EditOutsideFileInv ==
  ASSUME NEW a \in Accounts, AccountsInv, EditOutside(a)
  PROVE  FileInv'
<1>1. /\ staged' = staged /\ row' = row /\ catalog' = catalog
      /\ last' = IF doc = last THEN doc' ELSE last
  BY DEF EditOutside
<1>2. ASSUME Pending, staged # Unset, staged.id = row.id
      PROVE  Anchored(staged.before, staged.desired)'
  <2>1. /\ Foreign(staged.before, staged.desired)
        /\ Anchored(staged.before, staged.desired)
    BY <1>2 DEF AccountsInv, ShapeInv, FileInv
  <2>2. \/ last' = staged.before
        \/ /\ doc' = last'
           /\ \E b \in Accounts : doc'.accounts[b] = Record(0, TRUE)
                                 /\ staged.desired.accounts[b] # Record(0, TRUE)
    BY <2>1, EditAnchors
  <2> QED BY <1>1, <2>2 DEF Anchored, Marked
<1> QED BY <1>1, <1>2 DEF AccountsInv, FileInv, Pending

LEMMA EditOutsidePhaseInv ==
  ASSUME NEW a \in Accounts, AccountsInv, EditOutside(a)
  PROVE  PhaseInv'
<1>1. /\ row' = row /\ last' = IF doc = last THEN doc' ELSE last
      /\ job' = IF job = NoJob THEN job ELSE [job EXCEPT !.touched = TRUE]
  BY DEF EditOutside
<1>2. CASE job = NoJob
  BY <1>1, <1>2 DEF PhaseInv
<1>3. CASE job # NoJob
  <2>1. /\ job' # NoJob /\ job'.by = job.by /\ job'.phase = job.phase /\ job'.id = job.id
        /\ job'.before = job.before /\ job'.desired = job.desired /\ job'.touched
    BY <1>1, <1>3, CallersAssumption
       DEF AccountsInv, AccountTypes, JobType, Jobs, Callers, NoJob
  <2>2. Foreign(job.before, job.desired)
    BY <1>3 DEF AccountsInv, ShapeInv, JobShape
  <2>3. ASSUME job.phase \in {"stage", "begin"} PROVE doc' = job.before \/ Marked(job.desired)'
    <3>1. doc = job.before \/ Marked(job.desired)
      BY <1>3, <2>3 DEF AccountsInv, PhaseInv
    <3>2. doc' = job.before \/ \E b \in Accounts :
             doc'.accounts[b] = Record(0, TRUE) /\ job.desired.accounts[b] # Record(0, TRUE)
      BY <2>2, <3>1, EditMarks
    <3> QED BY <2>1, <3>2 DEF Marked
  <2>4. ASSUME job.phase \in {"write", "commit", "undo", "finish"}, job.id # 0
        PROVE  Anchored(job.before, job.desired)'
    <3>1. Anchored(job.before, job.desired)
      BY <1>3, <2>4 DEF AccountsInv, PhaseInv
    <3>2. \/ last' = job.before
          \/ /\ doc' = last'
             /\ \E b \in Accounts : doc'.accounts[b] = Record(0, TRUE)
                                   /\ job.desired.accounts[b] # Record(0, TRUE)
      BY <2>2, <3>1, EditAnchors
    <3> QED BY <2>1, <3>2 DEF Anchored, Marked
  <2> QED BY <1>1, <1>3, <2>1, <2>3, <2>4 DEF AccountsInv, PhaseInv, Pending
<1> QED BY <1>2, <1>3

LEMMA StageFileInv ==
  ASSUME AccountsInv, Stage
  PROVE  FileInv'
<1>1. /\ doc' = doc /\ last' = last /\ row' = row /\ catalog' = catalog
      /\ (staged' = staged \/ staged'.id = counts.intents + 1)
  BY DEF Stage
<1>2. row.id # counts.intents + 1
  BY DEF AccountsInv, GateInv, AccountTypes, RowType, NumberTypes
<1> QED BY <1>1, <1>2 DEF AccountsInv, FileInv, Pending, Anchored, Marked

LEMMA BeginFileInv ==
  ASSUME AccountsInv, Begin
  PROVE  FileInv'
<1>1. /\ doc' = doc /\ last' = last /\ catalog' = catalog
      /\ \/ row' = row /\ staged' = Unset
         \/ /\ ~Pending /\ catalog.recovery = "clean"
            /\ row' = [id |-> job.id, state |-> "pending"] /\ staged' = staged
  BY DEF Begin
<1>2. CASE row' = row /\ staged' = Unset
  BY <1>1, <1>2 DEF AccountsInv, FileInv, Pending
<1>3. CASE /\ ~Pending /\ catalog.recovery = "clean"
           /\ row' = [id |-> job.id, state |-> "pending"] /\ staged' = staged
  <2>1. doc = last /\ (doc = job.before \/ Marked(job.desired))
    BY <1>3 DEF AccountsInv, FileInv, PhaseInv, Begin
  <2>2. ASSUME staged # Unset, staged.id = job.id
        PROVE  staged.before = job.before /\ staged.desired = job.desired
    BY <2>2 DEF AccountsInv, GateInv, Begin
  <2> QED BY <1>1, <1>3, <2>1, <2>2 DEF FileInv, Pending, Anchored, Marked
<1> QED BY <1>1, <1>2, <1>3

LEMMA CommitFileInv ==
  ASSUME AccountsInv, Commit
  PROVE  FileInv'
<1>1. doc' = doc /\ staged' = staged /\ catalog'.recovery = catalog.recovery
  BY DEF Commit, AccountsInv, AccountTypes, CatalogType
<1>2. CASE row' = row /\ last' = last
  BY <1>1, <1>2 DEF AccountsInv, FileInv, Pending, Anchored, Marked
<1>3. CASE ~(row' = row /\ last' = last)
  <2>1. /\ job.id # 0 /\ row' = [row EXCEPT !.state = "committed"]
        /\ last' = IF job.touched THEN doc ELSE job.desired
    BY <1>3 DEF Commit
  <2>2. last' = doc
    BY <2>1 DEF Commit, AccountsInv, PhaseInv
  <2>3. row'.state = "committed"
    BY <2>1 DEF AccountsInv, AccountTypes, RowType
  <2> QED BY <1>1, <2>2, <2>3 DEF FileInv, Pending
<1> QED BY <1>2, <1>3

LEMMA UndoWriteFileInv ==
  ASSUME AccountsInv, UndoWrite
  PROVE  FileInv'
<1>1. staged' = staged /\ last' = last
  BY DEF UndoWrite
<1>2. CASE doc \in {job.before, job.desired} /\ doc' = job.before /\ row' = row
  <2>1. /\ Pending /\ row.id = job.id /\ Anchored(job.before, job.desired)
    BY DEF UndoWrite, AccountsInv, PhaseInv
  <2>2. last = job.before
    BY <1>2, <2>1, AnchorHolds
  <2>3. ASSUME staged # Unset, staged.id = row.id PROVE staged.before = job.before
    BY <2>1, <2>3 DEF UndoWrite, AccountsInv, GateInv
  <2> QED BY <1>1, <1>2, <2>1, <2>2, <2>3 DEF FileInv, Pending, Anchored
<1>3. CASE row' = [row EXCEPT !.state = "recovery-required"] /\ Require
  BY <1>3 DEF Require, FileInv, Pending, AccountsInv, AccountTypes, RowType, CatalogType
<1>4. CASE UNCHANGED <<doc, row, catalog>>
  BY <1>1, <1>4 DEF AccountsInv, FileInv, Pending, Anchored, Marked
<1> QED BY <1>2, <1>3, <1>4 DEF UndoWrite

LEMMA GiveUpFileInv ==
  ASSUME AccountsInv, GiveUp, UNCHANGED <<doc, staged, last>>
  PROVE  FileInv'
<1>1. CASE row' = [row EXCEPT !.state = "recovery-required"] /\ Require
  BY <1>1 DEF Require, FileInv, Pending, AccountsInv, AccountTypes, RowType, CatalogType
<1>2. CASE UNCHANGED <<row, catalog>>
  BY <1>2 DEF AccountsInv, FileInv, Pending, Anchored, Marked
<1> QED BY <1>1, <1>2 DEF GiveUp

LEMMA RecoverPendingFileInv ==
  ASSUME AccountsInv, RecoverPending
  PROVE  FileInv'
<1>1. Pending /\ staged' = staged /\ last' = last
  BY DEF RecoverPending
<1>2. CASE GiveUp /\ doc' = doc
  BY <1>1, <1>2, GiveUpFileInv
<1>3. CASE row' = [row EXCEPT !.state = "recovery-required"] /\ Require
  BY <1>3 DEF Require, FileInv, Pending, AccountsInv, AccountTypes, RowType, CatalogType
<1>4. CASE /\ staged # Unset /\ StateOfStaged = "pending"
           /\ doc \in {staged.before, staged.desired}
           /\ doc' = Recovered /\ UNCHANGED <<row, catalog>>
  <2>1. staged.id = row.id
    BY <1>4, CallersAssumption DEF StateOfStaged
  <2>2. last = staged.before
    BY <1>1, <1>4, <2>1, AnchorHolds DEF AccountsInv, FileInv
  <2> QED BY <1>1, <1>4, <2>2 DEF FileInv, Pending, Anchored, Recovered
<1> QED BY <1>2, <1>3, <1>4 DEF RecoverPending

LEMMA RecoverSettledFileInv ==
  ASSUME AccountsInv, RecoverSettled
  PROVE  FileInv'
<1>1. doc' = doc /\ last' = last /\ row' = row /\ ~Pending
  BY DEF RecoverSettled
<1>2. catalog' = catalog \/ Require
  BY DEF RecoverSettled
<1> QED
    BY <1>1, <1>2 DEF Require, FileInv, Pending, AccountsInv, AccountTypes, CatalogType

LEMMA RecoverCleanupFileInv ==
  ASSUME AccountsInv, RecoverCleanup
  PROVE  FileInv'
<1>1. doc' = doc /\ last' = last /\ row' = row
  BY DEF RecoverCleanup
<1>2. catalog' = catalog \/ Require
  BY DEF RecoverCleanup
<1>3. ~Pending
  BY CallersAssumption DEF RecoverCleanup, AccountsInv, GateInv, PhaseInv, NoJob
<1> QED
    BY <1>1, <1>2, <1>3
       DEF Require, FileInv, Pending, AccountsInv, AccountTypes, CatalogType

LEMMA ApplyPhaseInv ==
  ASSUME NEW c \in Actions, AccountsInv, Apply(c)
  PROVE  PhaseInv'
<1>1. doc' = doc /\ last' = last /\ row' = row
  BY DEF Apply, durable
<1>2. CASE job' = job
  BY <1>1, <1>2 DEF AccountsInv, PhaseInv, Pending, Anchored, Marked
<1>3. CASE job' # job
  <2>1. /\ job'.by = c /\ job'.id = 0 /\ job'.before = doc
        /\ (job'.phase = "stage" \/ (job'.phase = "commit" /\ job'.desired = doc))
    BY <1>3 DEF Apply, Take
  <2> QED BY <1>1, <2>1, CallersAssumption DEF PhaseInv
<1> QED BY <1>2, <1>3

LEMMA StagePhaseInv ==
  ASSUME AccountsInv, Stage
  PROVE  PhaseInv'
<1>1. doc' = doc /\ last' = last /\ row' = row /\ job # NoJob /\ job.phase = "stage"
  BY DEF Stage
<1>2. CASE Releases
  BY <1>2 DEF PhaseInv, Releases
<1>3. CASE GoesOn
  <2>1. job'.phase = "begin" /\ job'.id = counts.intents + 1
    BY <1>1, <1>3 DEF Stage, GoesOn, AccountsInv, AccountTypes, JobType, Jobs, Ended
  <2>2. job'.id # 0
    BY <2>1 DEF AccountsInv, AccountTypes, NumberTypes
  <2> QED BY <1>1, <1>3, <2>1, <2>2 DEF AccountsInv, PhaseInv, GoesOn, Marked
<1> QED BY <1>2, <1>3, StageAdvances

LEMMA BeginPhaseInv ==
  ASSUME AccountsInv, Begin
  PROVE  PhaseInv'
<1>1. doc' = doc /\ last' = last /\ job # NoJob /\ job.phase = "begin"
  BY DEF Begin
<1>2. CASE Releases
  BY <1>2 DEF PhaseInv, Releases
<1>3. CASE GoesOn
  <2>1. /\ job' = [job EXCEPT !.phase = "write"] /\ ~Pending /\ catalog.recovery = "clean"
        /\ row' = [id |-> job.id, state |-> "pending"]
    BY <1>3 DEF Begin, GoesOn, Ended
  <2>2. job'.phase = "write" /\ job'.id = job.id
    BY <1>1, <2>1 DEF AccountsInv, AccountTypes, JobType, Jobs
  <2>3. doc = last
    BY <2>1 DEF AccountsInv, FileInv
  <2> QED
      BY <1>1, <1>3, <2>1, <2>2, <2>3
         DEF AccountsInv, PhaseInv, GoesOn, Marked, Anchored, Pending
<1> QED BY <1>2, <1>3, BeginAdvances

LEMMA CommitPhaseInv ==
  ASSUME AccountsInv, Commit
  PROVE  PhaseInv'
<1>1. doc' = doc /\ job # NoJob /\ job.phase = "commit"
  BY DEF Commit
<1>2. CASE Releases
  BY <1>2 DEF PhaseInv, Releases
<1>3. CASE GoesOn
  <2>1. CASE /\ job' = [job EXCEPT !.phase = "unstage"]
             /\ row' = IF job.id = 0 THEN row ELSE [row EXCEPT !.state = "committed"]
    <3>1. job'.phase = "unstage" /\ job'.id = job.id
      BY <1>1, <2>1 DEF AccountsInv, AccountTypes, JobType, Jobs
    <3>2. job.by # Start /\ (job.id # 0 => row.id = job.id)
      BY <1>1 DEF AccountsInv, PhaseInv
    <3>3. job.id # 0 => row'.id = row.id /\ row'.state = "committed"
      BY <2>1 DEF AccountsInv, AccountTypes, RowType
    <3> QED BY <1>1, <1>3, <3>1, <3>2, <3>3 DEF PhaseInv, GoesOn
  <2>2. CASE job' = [job EXCEPT !.phase = "undo"] /\ job.id # 0 /\ UNCHANGED <<row, last>>
    <3>1. job'.phase = "undo" /\ job'.id = job.id
      BY <1>1, <2>2 DEF AccountsInv, AccountTypes, JobType, Jobs
    <3> QED
        BY <1>1, <1>3, <2>2, <3>1
           DEF AccountsInv, PhaseInv, GoesOn, Pending, Anchored, Marked
  <2> QED BY <1>3, <2>1, <2>2 DEF Commit, GoesOn, Ended
<1> QED BY <1>2, <1>3, CommitAdvances

LEMMA RecoverPendingPhaseInv ==
  ASSUME AccountsInv, RecoverPending
  PROVE  PhaseInv'
<1>1. last' = last /\ status = "down" /\ Pending
  BY DEF RecoverPending
<1>2. CASE job' = job
  BY <1>1, <1>2 DEF AccountsInv, GateInv, PhaseInv
<1>3. CASE job' # job
  <2>1. /\ job'.by = "start" /\ job'.phase = "finish" /\ job'.before = staged.before
        /\ job'.desired = staged.desired /\ job'.id = row.id
        /\ doc' = staged.before /\ row' = row
        /\ staged # Unset /\ staged.id = row.id /\ doc \in {staged.before, staged.desired}
    BY <1>3, CallersAssumption DEF RecoverPending, StateOfStaged, Recovered
  <2>2. last = staged.before
    BY <1>1, <2>1, AnchorHolds DEF AccountsInv, FileInv
  <2>3. row.id # 0
    BY <1>1, CallersAssumption DEF AccountsInv, GateInv, Pending
  <2> QED BY <1>1, <2>1, <2>2, <2>3 DEF PhaseInv, Pending, Anchored
<1> QED BY <1>2, <1>3

-----------------------------------------------------------------------------
(* What is held after a step.                                                 *)

(* Requests that go on asking, do so with what they had read.                 *)
RequestsKeep ==
  \A r \in Requests : request'[r] = request[r] \/ request'[r].at \in {"idle", "done"}

LEMMA FilesAreTyped ==
  ASSUME AccountTypes
  PROVE  \A d \in HeldDocuments, a \in Accounts : d.accounts[a] \in Records
<1>1. HeldDocuments \subseteq AccountDocuments
  BY DEF AccountTypes, HeldDocuments, FileTypes, StagedType, JobType, Jobs
<1> QED BY <1>1 DEF AccountDocuments

LEMMA FilesKeep ==
  ASSUME AccountsInv, HeldDocuments' \subseteq HeldDocuments, RequestsKeep
  PROVE  Held' \subseteq Held
BY DEF Held, RequestsKeep, Asking

LEMMA SubmitKeeps ==
  ASSUME NEW c \in Actions, NEW kind \in Kinds, NEW a \in Accounts, AccountsInv, Submit(c,
         kind, a)
  PROVE  Held' \subseteq Held /\ RequestsKeep /\ live' = live /\ counts'.issued = counts.issued
<1>1. HeldDocuments' \subseteq HeldDocuments
  BY CallersAssumption
     DEF HeldDocuments, AccountsInv, AccountTypes, JobType, Jobs, Callers, GateInv,
         Submit, durable, Free, NoJob
<1>2. RequestsKeep
  BY DEF RequestsKeep, AccountsInv, AccountTypes, RequestType, At, Submit, callers,
         durable, Free, NoJob
<1>3. live' = live /\ counts'.issued = counts.issued
  BY DEF AccountsInv, AccountTypes, NumberTypes, Count, Submit, durable, Free, NoJob
<1> QED BY <1>1, <1>2, <1>3, FilesKeep

LEMMA CancelKeeps ==
  ASSUME AccountsInv, Cancel
  PROVE  Held' \subseteq Held /\ RequestsKeep /\ live' = live /\ counts'.issued = counts.issued
<1>1. HeldDocuments' \subseteq HeldDocuments
  BY CallersAssumption
     DEF HeldDocuments, AccountsInv, AccountTypes, JobType, Jobs, Callers, GateInv,
         Cancel, durable
<1>2. RequestsKeep
  BY DEF RequestsKeep, AccountsInv, AccountTypes, RequestType, At, Cancel, callers,
         durable
<1>3. live' = live /\ counts'.issued = counts.issued
  BY DEF AccountsInv, AccountTypes, NumberTypes, Count, Cancel, durable
<1> QED BY <1>1, <1>2, <1>3, FilesKeep

LEMMA StageKeeps ==
  ASSUME AccountsInv, Stage
  PROVE  Held' \subseteq Held /\ RequestsKeep /\ live' = live /\ counts'.issued = counts.issued
<1>1. HeldDocuments' \subseteq HeldDocuments
  <2>1. doc' = doc /\ last' = last /\ job # NoJob
    BY DEF Stage
  <2>2. staged' = staged \/ (staged'.before = job.before /\ staged'.desired = job.desired)
    BY DEF Stage
  <2>3. job' # NoJob => job'.before = job.before /\ job'.desired = job.desired
    BY StageAdvances DEF GoesOn, Releases
  <2> QED BY <2>1, <2>2, <2>3 DEF HeldDocuments
<1>2. RequestsKeep
  BY DEF RequestsKeep, AccountsInv, AccountTypes, RequestType, At, Stage, callers,
         NoJob, Count, Ended, Trouble
<1>3. live' = live /\ counts'.issued = counts.issued
  BY DEF AccountsInv, AccountTypes, NumberTypes, Count, Stage, callers, NoJob, Ended,
         At, Trouble
<1> QED BY <1>1, <1>2, <1>3, FilesKeep

LEMMA BeginKeeps ==
  ASSUME AccountsInv, Begin
  PROVE  Held' \subseteq Held /\ RequestsKeep /\ live' = live /\ counts'.issued = counts.issued
<1>1. HeldDocuments' \subseteq HeldDocuments
  BY CallersAssumption
     DEF HeldDocuments, AccountsInv, AccountTypes, JobType, Jobs, Callers, GateInv,
         Begin, callers, NoJob, Trouble, Count, Ended, At
<1>2. RequestsKeep
  BY DEF RequestsKeep, AccountsInv, AccountTypes, RequestType, At, Begin, callers,
         NoJob, Trouble, Count, Ended
<1>3. live' = live /\ counts'.issued = counts.issued
  BY DEF AccountsInv, AccountTypes, NumberTypes, Count, Begin, callers, NoJob, Trouble,
         Ended, At
<1> QED BY <1>1, <1>2, <1>3, FilesKeep

LEMMA WriteFileKeeps ==
  ASSUME AccountsInv, WriteFile
  PROVE  Held' \subseteq Held /\ RequestsKeep /\ live' = live /\ counts'.issued = counts.issued
<1>1. HeldDocuments' \subseteq HeldDocuments
  BY CallersAssumption
     DEF HeldDocuments, AccountsInv, AccountTypes, JobType, Jobs, Callers, GateInv,
         WriteFile, callers, NoJob, Trouble, Count
<1>2. RequestsKeep
  BY DEF RequestsKeep, AccountsInv, AccountTypes, RequestType, At, WriteFile, callers,
         NoJob, Trouble, Count
<1>3. live' = live /\ counts'.issued = counts.issued
  BY DEF AccountsInv, AccountTypes, NumberTypes, Count, WriteFile, callers, NoJob,
         Trouble
<1> QED BY <1>1, <1>2, <1>3, FilesKeep

LEMMA CommitKeeps ==
  ASSUME AccountsInv, Commit
  PROVE  Held' \subseteq Held /\ RequestsKeep /\ live' = live /\ counts'.issued = counts.issued
<1>1. HeldDocuments' \subseteq HeldDocuments
  BY CallersAssumption
     DEF HeldDocuments, AccountsInv, AccountTypes, JobType, Jobs, Callers, GateInv,
         Commit, callers, NoJob, Trouble, Count, Ended, At
<1>2. RequestsKeep
  BY DEF RequestsKeep, AccountsInv, AccountTypes, RequestType, At, Commit, callers,
         NoJob, Trouble, Count, Ended
<1>3. live' = live /\ counts'.issued = counts.issued
  BY DEF AccountsInv, AccountTypes, NumberTypes, Count, Commit, callers, NoJob, Trouble,
         Ended, At
<1> QED BY <1>1, <1>2, <1>3, FilesKeep

LEMMA UnstageKeeps ==
  ASSUME AccountsInv, Unstage
  PROVE  Held' \subseteq Held /\ RequestsKeep /\ live' = live /\ counts'.issued = counts.issued
<1>1. HeldDocuments' \subseteq HeldDocuments
  BY CallersAssumption
     DEF HeldDocuments, AccountsInv, AccountTypes, JobType, Jobs, Callers, GateInv,
         Unstage, NoJob, Trouble, Count, Ended, At
<1>2. RequestsKeep
  BY DEF RequestsKeep, AccountsInv, AccountTypes, RequestType, At, Unstage, callers,
         NoJob, Trouble, Count, Ended
<1>3. live' = live /\ counts'.issued = counts.issued
  BY DEF AccountsInv, AccountTypes, NumberTypes, Count, Unstage, NoJob, Trouble, Ended,
         At
<1> QED BY <1>1, <1>2, <1>3, FilesKeep

LEMMA UndoWriteKeeps ==
  ASSUME AccountsInv, UndoWrite
  PROVE  Held' \subseteq Held /\ RequestsKeep /\ live' = live /\ counts'.issued = counts.issued
<1>1. HeldDocuments' \subseteq HeldDocuments
  BY CallersAssumption
     DEF HeldDocuments, AccountsInv, AccountTypes, JobType, Jobs, Callers, GateInv,
         UndoWrite, callers, NoJob, Ended, At, Trouble, Count
<1>2. RequestsKeep
  BY DEF RequestsKeep, AccountsInv, AccountTypes, RequestType, At, UndoWrite, callers,
         NoJob, Ended, Trouble, Count
<1>3. live' = live /\ counts'.issued = counts.issued
  BY DEF AccountsInv, AccountTypes, NumberTypes, Count, UndoWrite, callers, NoJob,
         Ended, At, Trouble
<1> QED BY <1>1, <1>2, <1>3, FilesKeep

LEMMA MarkUndoneKeeps ==
  ASSUME AccountsInv, MarkUndone
  PROVE  Held' \subseteq Held /\ RequestsKeep /\ live' = live /\ counts'.issued = counts.issued
<1>1. HeldDocuments' \subseteq HeldDocuments
  BY CallersAssumption
     DEF HeldDocuments, AccountsInv, AccountTypes, JobType, Jobs, Callers, GateInv,
         MarkUndone, callers, NoJob, Trouble, Count, Ended, At
<1>2. RequestsKeep
  BY DEF RequestsKeep, AccountsInv, AccountTypes, RequestType, At, MarkUndone, callers,
         NoJob, Trouble, Count, Ended
<1>3. live' = live /\ counts'.issued = counts.issued
  BY DEF AccountsInv, AccountTypes, NumberTypes, Count, MarkUndone, callers, NoJob,
         Trouble, Ended, At
<1> QED BY <1>1, <1>2, <1>3, FilesKeep

LEMMA RecoverPendingKeeps ==
  ASSUME AccountsInv, RecoverPending
  PROVE  Held' \subseteq Held /\ RequestsKeep /\ live' = live /\ counts'.issued = counts.issued
<1>1. HeldDocuments' \subseteq HeldDocuments
  BY CallersAssumption
     DEF HeldDocuments, AccountsInv, AccountTypes, JobType, Jobs, Callers, GateInv,
         RecoverPending, callers, StateOfStaged, GiveUp, Trouble, Count, Recovered
<1>2. RequestsKeep
  BY DEF RequestsKeep, AccountsInv, AccountTypes, RequestType, At, RecoverPending,
         callers, StateOfStaged, GiveUp, Trouble, Count, Recovered
<1>3. live' = live /\ counts'.issued = counts.issued
  BY DEF AccountsInv, AccountTypes, NumberTypes, Count, RecoverPending, callers,
         StateOfStaged, GiveUp, Trouble, Recovered
<1> QED BY <1>1, <1>2, <1>3, FilesKeep

LEMMA RecoverSettledKeeps ==
  ASSUME AccountsInv, RecoverSettled
  PROVE  Held' \subseteq Held /\ RequestsKeep /\ live' = live /\ counts'.issued = counts.issued
<1>1. HeldDocuments' \subseteq HeldDocuments
  BY CallersAssumption
     DEF HeldDocuments, AccountsInv, AccountTypes, JobType, Jobs, Callers, GateInv,
         RecoverSettled, callers, StateOfStaged, Trouble, Count
<1>2. RequestsKeep
  BY DEF RequestsKeep, AccountsInv, AccountTypes, RequestType, At, RecoverSettled,
         callers, StateOfStaged, Trouble, Count
<1>3. live' = live /\ counts'.issued = counts.issued
  BY DEF AccountsInv, AccountTypes, NumberTypes, Count, RecoverSettled, callers,
         StateOfStaged, Trouble
<1> QED BY <1>1, <1>2, <1>3, FilesKeep

LEMMA RecoverCleanupKeeps ==
  ASSUME AccountsInv, RecoverCleanup
  PROVE  Held' \subseteq Held /\ RequestsKeep /\ live' = live /\ counts'.issued = counts.issued
<1>1. HeldDocuments' \subseteq HeldDocuments
  BY CallersAssumption
     DEF HeldDocuments, AccountsInv, AccountTypes, JobType, Jobs, Callers, GateInv,
         RecoverCleanup, Trouble, Count, Ended, NoJob, At
<1>2. RequestsKeep
  BY DEF RequestsKeep, AccountsInv, AccountTypes, RequestType, At, RecoverCleanup,
         callers, Trouble, Count, Ended, NoJob
<1>3. live' = live /\ counts'.issued = counts.issued
  BY DEF AccountsInv, AccountTypes, NumberTypes, Count, RecoverCleanup, Trouble, Ended,
         NoJob, At
<1> QED BY <1>1, <1>2, <1>3, FilesKeep

LEMMA ProcessStopsKeeps ==
  ASSUME AccountsInv, ProcessStops
  PROVE  Held' \subseteq Held /\ RequestsKeep /\ live' = live /\ counts'.issued = counts.issued
<1>1. HeldDocuments' \subseteq HeldDocuments
  BY CallersAssumption
     DEF HeldDocuments, AccountsInv, AccountTypes, JobType, Jobs, Callers, GateInv,
         ProcessStops, durable, Trouble, Count, NoJob, At
<1>2. RequestsKeep
  BY DEF RequestsKeep, AccountsInv, AccountTypes, RequestType, At, ProcessStops,
         callers, durable, Trouble, Count, NoJob
<1>3. live' = live /\ counts'.issued = counts.issued
  BY DEF AccountsInv, AccountTypes, NumberTypes, Count, ProcessStops, durable, Trouble,
         NoJob, At
<1> QED BY <1>1, <1>2, <1>3, FilesKeep

LEMMA LoseStagedKeeps ==
  ASSUME AccountsInv, LoseStaged
  PROVE  Held' \subseteq Held /\ RequestsKeep /\ live' = live /\ counts'.issued = counts.issued
<1>1. HeldDocuments' \subseteq HeldDocuments
  BY CallersAssumption
     DEF HeldDocuments, AccountsInv, AccountTypes, JobType, Jobs, Callers, GateInv,
         LoseStaged, callers, Trouble, Count
<1>2. RequestsKeep
  BY DEF RequestsKeep, AccountsInv, AccountTypes, RequestType, At, LoseStaged, callers,
         Trouble, Count
<1>3. live' = live /\ counts'.issued = counts.issued
  BY DEF AccountsInv, AccountTypes, NumberTypes, Count, LoseStaged, callers, Trouble
<1> QED BY <1>1, <1>2, <1>3, FilesKeep

LEMMA ReadAccountKeeps ==
  ASSUME NEW r \in Requests, AccountsInv, ReadAccount(r)
  PROVE  Held' \subseteq Held /\ live' = live /\ counts'.issued = counts.issued
<1>1. HeldDocuments' = HeldDocuments
  BY DEF ReadAccount, durable, HeldDocuments
<1>2. \A s \in Requests \ {r} : request'[s] = request[s]
  BY DEF ReadAccount, AccountsInv, AccountTypes, RequestType
<1>3. ASSUME Asking(r)'
      PROVE  request'[r].expected = doc.accounts[doc.default] /\ doc.default \in Accounts
  BY <1>3
     DEF ReadAccount, Asking, At, AccountsInv, AccountTypes, FileTypes,
         AccountDocuments, RequestType
<1>4. doc \in HeldDocuments
  BY DEF HeldDocuments
<1>5. Held' \subseteq Held
  BY <1>1, <1>2, <1>3, <1>4 DEF Held, Asking
<1> QED BY <1>5 DEF ReadAccount

LEMMA RefreshKeeps ==
  ASSUME NEW r \in Requests, AccountsInv, Refresh(r)
  PROVE  Held' \subseteq Held
<1>1. HeldDocuments' = HeldDocuments
  BY DEF Refresh, durable, HeldDocuments
<1>2. \A s \in Requests \ {r} : request'[s] = request[s]
  BY DEF Refresh, AccountsInv, AccountTypes, RequestType
<1>3. Asking(r)' => Asking(r) /\ request'[r].expected = request[r].expected
  <2>1. request[r].at = "remote"
    BY DEF Refresh
  <2>2. CASE request' = [request EXCEPT ![r] = At("done")]
    BY <2>2 DEF Asking, At, AccountsInv, AccountTypes, RequestType
  <2>3. ASSUME NEW x, request' = [request EXCEPT ![r].at = "record", ![r].answer = x]
        PROVE  request'[r].expected = request[r].expected
    BY <2>3 DEF AccountsInv, AccountTypes, RequestType
  <2> QED BY <2>1, <2>2, <2>3 DEF Refresh, Asking
<1> QED BY <1>1, <1>2, <1>3 DEF Held, Asking

LEMMA GrantKeeps ==
  ASSUME NEW a \in Accounts, AccountsInv, Grant(a)
  PROVE  Held' \subseteq Held /\ RequestsKeep
<1>1. HeldDocuments' = HeldDocuments /\ request' = request
  BY DEF Grant, durable, HeldDocuments
<1> QED BY <1>1 DEF Held, Asking, RequestsKeep

(* A client's action writes no record that was not there.                     *)
LEMMA ApplyKeeps ==
  ASSUME NEW c \in Actions, AccountsInv, Apply(c)
  PROVE  Held' \subseteq Held /\ RequestsKeep /\ live' = live /\ counts'.issued = counts.issued
<1>1. /\ doc' = doc /\ last' = last /\ staged' = staged /\ request' = request
      /\ live' = live /\ counts' = counts
  BY DEF Apply, durable
<1>2. CASE job' = job
  BY <1>1, <1>2 DEF Held, HeldDocuments, Asking, RequestsKeep
<1>3. CASE job' # job
  <2>1. job'.before = doc /\ job'.desired \in {doc, DesiredBy(c)}
    BY <1>3 DEF Apply, Take
  <2>2. \A a \in Accounts : DesiredBy(c).accounts[a] \in {NoRecord, doc.accounts[a]}
    BY DEF DesiredBy, Deleted, AccountsInv, AccountTypes, FileTypes, AccountDocuments
  <2>3. \A a \in Accounts : job'.desired.accounts[a] \in {NoRecord, doc.accounts[a]}
    BY <2>1, <2>2
  <2>4. doc \in HeldDocuments /\ HeldDocuments' \subseteq HeldDocuments \cup {job'.desired}
    BY <1>1, <2>1 DEF HeldDocuments
  <2>5. ASSUME NEW x \in Records \ {NoRecord}, NEW d \in HeldDocuments', NEW a \in Accounts,
               d.accounts[a] = x
        PROVE  \E e \in HeldDocuments : e.accounts[a] = x
    BY <2>3, <2>4, <2>5
  <2>6. Held' \subseteq Held
    BY <1>1, <2>5 DEF Held, Asking
  <2> QED BY <1>1, <2>6 DEF RequestsKeep
<1> QED BY <1>2, <1>3

LEMMA EditOutsideKeeps ==
  ASSUME NEW a \in Accounts, AccountsInv, EditOutside(a)
  PROVE  /\ Held' \subseteq Held \cup {Record(0, TRUE)} /\ RequestsKeep
         /\ live' = live /\ counts'.issued = counts.issued
<1>1. /\ staged' = staged /\ request' = request /\ live' = live /\ last' \in {last, doc'}
      /\ job' = IF job = NoJob THEN job ELSE [job EXCEPT !.touched = TRUE]
  BY DEF EditOutside, callers
<1>2. counts'.issued = counts.issued
  BY DEF EditOutside, Count, AccountsInv, AccountTypes, NumberTypes
<1>3. job' # NoJob => job # NoJob /\ job'.before = job.before /\ job'.desired = job.desired
  BY <1>1 DEF AccountsInv, AccountTypes, JobType, Jobs
<1>4. doc \in HeldDocuments /\ HeldDocuments' \subseteq HeldDocuments \cup {doc'}
  BY <1>1, <1>3 DEF HeldDocuments
<1>5. ASSUME NEW x \in Records \ {NoRecord}, NEW d \in HeldDocuments', NEW b \in Accounts,
             d.accounts[b] = x
      PROVE  x = Record(0, TRUE) \/ \E e \in HeldDocuments : e.accounts[b] = x
  BY <1>4, <1>5, EditEffects
<1>6. Held' \subseteq Held \cup {Record(0, TRUE)}
  BY <1>1, <1>5 DEF Held, Asking
<1> QED BY <1>1, <1>2, <1>6 DEF RequestsKeep

LEMMA RecordRefreshKeeps ==
  ASSUME NEW r \in Requests, AccountsInv, RecordRefresh(r)
  PROVE  /\ request[r].at = "record" /\ RequestsKeep
         /\ Held' \subseteq Held \cup {Refreshed(request[r].expected, request[r].answer)}
         /\ live' = live /\ counts'.issued = counts.issued
<1> DEFINE a == request[r].account
           record == Refreshed(request[r].expected, request[r].answer)
<1>1. /\ doc' = doc /\ last' = last /\ staged' = staged /\ live' = live /\ counts' = counts
      /\ request[r].at = "record"
  BY DEF RecordRefresh, durable
<1>2. RequestsKeep
  BY DEF RecordRefresh, RequestsKeep, AccountsInv, AccountTypes, RequestType, At
<1>3. CASE job' = job
  <2>1. HeldDocuments' \subseteq HeldDocuments
    BY <1>1, <1>3 DEF HeldDocuments
  <2> QED BY <1>1, <1>2, <2>1, FilesKeep
<1>4. CASE job' # job
  <2>1. /\ Unchanged(r) /\ request' = request
        /\ Take(r, [doc EXCEPT !.accounts[a] = Refreshed(@, request[r].answer)])
    BY <1>4 DEF RecordRefresh
  <2>2. a \in Accounts /\ doc.accounts[a] = request[r].expected
    BY <1>1, <2>1 DEF Unchanged, AccountsInv, AccountTypes, RequestType
  <2>3. /\ job'.before = doc /\ job'.desired.accounts[a] = record
        /\ \A b \in Accounts \ {a} : job'.desired.accounts[b] = doc.accounts[b]
    BY <2>1, <2>2 DEF Take, AccountsInv, AccountTypes, FileTypes, AccountDocuments
  <2>4. doc \in HeldDocuments /\ HeldDocuments' \subseteq HeldDocuments \cup {job'.desired}
    BY <1>1, <2>3 DEF HeldDocuments
  <2> HIDE DEF record
  <2>5. ASSUME NEW x \in Records \ {NoRecord}, NEW d \in HeldDocuments', NEW b \in Accounts,
               d.accounts[b] = x
        PROVE  x = record \/ \E e \in HeldDocuments : e.accounts[b] = x
    BY <2>3, <2>4, <2>5
  <2>6. Held' \subseteq Held \cup {record}
    BY <2>1, <2>5 DEF Held, Asking
  <2> QED BY <1>1, <1>2, <2>6 DEF record
<1> QED BY <1>3, <1>4

LEMMA RecordAuthorizationKeeps ==
  ASSUME AccountsInv, RecordAuthorization
  PROVE  /\ RequestsKeep /\ live' = live /\ counts'.issued = counts.issued
         /\ flow'.token = flow.token /\ flow'.cancelled = flow.cancelled
         /\ \/ Held' \subseteq Held /\ job' = job /\ flow'.at = "failed"
            \/ /\ Held' \subseteq Held \cup {Record(flow.token, TRUE)}
               /\ flow' = flow /\ job'.by = Flow /\ ~flow.cancelled
<1> DEFINE a == flow.account
           record == Record(flow.token, TRUE)
<1>1. /\ doc' = doc /\ last' = last /\ staged' = staged /\ live' = live /\ counts' = counts
      /\ request' = request /\ flow.at = "granted"
  BY DEF RecordAuthorization, durable
<1>2. CASE job' = job
  <2>1. flow' = [flow EXCEPT !.at = "failed"]
    BY <1>2, CallersAssumption DEF RecordAuthorization, Free, NoJob, Take
  <2> QED
      BY <1>1, <1>2, <2>1
         DEF Held, HeldDocuments, Asking, RequestsKeep, AccountsInv, AccountTypes,
             FlowType
<1>3. CASE job' # job
  <2>1. /\ ~flow.cancelled /\ flow' = flow
        /\ Take(Flow, [accounts |-> [doc.accounts EXCEPT ![a] = record],
                       default |-> IF doc.default = Unset THEN a ELSE doc.default])
    BY <1>3 DEF RecordAuthorization, CancelledBeforeCommit
  <2>2. a \in Accounts
    BY <1>1 DEF AccountsInv, AccountTypes, FlowType
  <2> HIDE DEF record
  <2>3. /\ job'.by = Flow /\ job'.before = doc /\ job'.desired.accounts[a] = record
        /\ \A b \in Accounts \ {a} : job'.desired.accounts[b] = doc.accounts[b]
    BY <2>1, <2>2 DEF Take, AccountsInv, AccountTypes, FileTypes, AccountDocuments
  <2>4. doc \in HeldDocuments /\ HeldDocuments' \subseteq HeldDocuments \cup {job'.desired}
    BY <1>1, <2>3 DEF HeldDocuments
  <2>5. ASSUME NEW x \in Records \ {NoRecord}, NEW d \in HeldDocuments', NEW b \in Accounts,
               d.accounts[b] = x
        PROVE  x = record \/ \E e \in HeldDocuments : e.accounts[b] = x
    BY <2>3, <2>4, <2>5
  <2>6. Held' \subseteq Held \cup {record}
    BY <1>1, <2>5 DEF Held, Asking
  <2> QED BY <1>1, <2>1, <2>3, <2>6 DEF RequestsKeep, record
<1> QED BY <1>2, <1>3

-----------------------------------------------------------------------------
(* Tokens.                                                                    *)

(* A step that issues nothing, and writes nothing but known tokens.           *)
LEMMA TokensKept ==
  ASSUME AccountsInv, RequestsKeep, live' = live, counts'.issued = counts.issued,
         \A x \in Held' : x \in Held \/ (x.token <= counts.issued /\ (~x.ok => x.token \notin live))
  PROVE  TokenInv'
<1>1. \A r \in Requests : request'[r] = request[r] \/ ~Asking(r)'
  BY DEF RequestsKeep, Asking
<1>2. \A r \in Requests : request'[r] = request[r] \/ request'[r].at # "record"
  BY DEF RequestsKeep
<1> QED BY <1>1, <1>2 DEF AccountsInv, TokenInv, Asking

LEMMA SubmitTokenInv ==
  ASSUME NEW c \in Actions, NEW kind \in Kinds, NEW a \in Accounts, AccountsInv, Submit(c,
         kind, a)
  PROVE  TokenInv'
BY SubmitKeeps, TokensKept

LEMMA ApplyTokenInv ==
  ASSUME NEW c \in Actions, AccountsInv, Apply(c)
  PROVE  TokenInv'
BY ApplyKeeps, TokensKept

LEMMA CancelTokenInv ==
  ASSUME AccountsInv, Cancel
  PROVE  TokenInv'
BY CancelKeeps, TokensKept

LEMMA StageTokenInv ==
  ASSUME AccountsInv, Stage
  PROVE  TokenInv'
BY StageKeeps, TokensKept

LEMMA BeginTokenInv ==
  ASSUME AccountsInv, Begin
  PROVE  TokenInv'
BY BeginKeeps, TokensKept

LEMMA WriteFileTokenInv ==
  ASSUME AccountsInv, WriteFile
  PROVE  TokenInv'
BY WriteFileKeeps, TokensKept

LEMMA CommitTokenInv ==
  ASSUME AccountsInv, Commit
  PROVE  TokenInv'
BY CommitKeeps, TokensKept

LEMMA UnstageTokenInv ==
  ASSUME AccountsInv, Unstage
  PROVE  TokenInv'
BY UnstageKeeps, TokensKept

LEMMA UndoWriteTokenInv ==
  ASSUME AccountsInv, UndoWrite
  PROVE  TokenInv'
BY UndoWriteKeeps, TokensKept

LEMMA MarkUndoneTokenInv ==
  ASSUME AccountsInv, MarkUndone
  PROVE  TokenInv'
BY MarkUndoneKeeps, TokensKept

LEMMA RecoverPendingTokenInv ==
  ASSUME AccountsInv, RecoverPending
  PROVE  TokenInv'
BY RecoverPendingKeeps, TokensKept

LEMMA RecoverSettledTokenInv ==
  ASSUME AccountsInv, RecoverSettled
  PROVE  TokenInv'
BY RecoverSettledKeeps, TokensKept

LEMMA RecoverCleanupTokenInv ==
  ASSUME AccountsInv, RecoverCleanup
  PROVE  TokenInv'
BY RecoverCleanupKeeps, TokensKept

LEMMA ProcessStopsTokenInv ==
  ASSUME AccountsInv, ProcessStops
  PROVE  TokenInv'
BY ProcessStopsKeeps, TokensKept

LEMMA LoseStagedTokenInv ==
  ASSUME AccountsInv, LoseStaged
  PROVE  TokenInv'
BY LoseStagedKeeps, TokensKept

LEMMA EditOutsideTokenInv ==
  ASSUME NEW a \in Accounts, AccountsInv, EditOutside(a)
  PROVE  TokenInv'
<1>1. 0 <= counts.issued
  BY DEF AccountsInv, AccountTypes, NumberTypes
<1>2. Record(0, TRUE).token = 0 /\ Record(0, TRUE).ok
  BY DEF Record
<1> QED BY <1>1, <1>2, EditOutsideKeeps, TokensKept

LEMMA RecordAuthorizationTokenInv ==
  ASSUME AccountsInv, RecordAuthorization
  PROVE  TokenInv'
<1>1. Record(flow.token, TRUE).token = flow.token /\ Record(flow.token, TRUE).ok
  BY DEF Record
<1>2. flow.token <= counts.issued
  BY DEF AccountsInv, FlowInv
<1> QED BY <1>1, <1>2, RecordAuthorizationKeeps, TokensKept

LEMMA RecordRefreshTokenInv ==
  ASSUME NEW r \in Requests, AccountsInv, RecordRefresh(r)
  PROVE  TokenInv'
<1> DEFINE record == Refreshed(request[r].expected, request[r].answer)
<1>1. request[r].at = "record" /\ Asking(r)
  BY RecordRefreshKeeps DEF Asking
<1>2. request[r].expected \in Held
  BY <1>1 DEF Held, AccountsInv, AccountTypes, RequestType, Asking
<1>3. record.token <= counts.issued /\ (~record.ok => record.token \notin live)
  BY <1>1, <1>2 DEF Refreshed, Record, AccountsInv, TokenInv
<1> HIDE DEF record
<1> QED BY <1>3, RecordRefreshKeeps, TokensKept DEF record

LEMMA ReadAccountTokenInv ==
  ASSUME NEW r \in Requests, AccountsInv, ReadAccount(r)
  PROVE  TokenInv'
<1>1. \A s \in Requests \ {r} : request'[s] = request[s]
  BY DEF ReadAccount, AccountsInv, AccountTypes, RequestType
<1>2. request'[r].at # "record" /\ (Asking(r)' => request'[r].expected.ok)
  BY DEF ReadAccount, Asking, At, AccountsInv, AccountTypes, RequestType
<1>3. \A s \in Requests \ {r} : Asking(s)' <=> Asking(s)
  BY <1>1 DEF Asking
<1> QED BY <1>1, <1>2, <1>3, ReadAccountKeeps DEF AccountsInv, TokenInv

LEMMA GrantTokenInv ==
  ASSUME NEW a \in Accounts, AccountsInv, Grant(a)
  PROVE  TokenInv'
<1>1. /\ live' = live \cup {counts.issued + 1} /\ counts'.issued = counts.issued + 1
      /\ request' = request
  BY DEF Grant, Count, AccountsInv, AccountTypes, NumberTypes
<1>2. counts.issued \in Nat /\ live \subseteq Nat /\ \A x \in Held : x.token \in Nat
  BY CallersAssumption DEF AccountsInv, AccountTypes, NumberTypes, Held, Records
<1>3. \A r \in Requests : Asking(r)' <=> Asking(r)
  BY <1>1 DEF Asking
<1>4. \A r \in Requests : request[r].at = "record" =>
        request[r].answer.token \in Nat /\ request[r].expected \in Held
  BY CallersAssumption DEF AccountsInv, AccountTypes, RequestType, Records, Held, Asking
<1> QED BY <1>1, <1>2, <1>3, <1>4, GrantKeeps DEF AccountsInv, TokenInv

LEMMA RefreshTokenInv ==
  ASSUME NEW r \in Requests, AccountsInv, Refresh(r)
  PROVE  TokenInv'
<1> DEFINE token == request[r].expected.token
<1>1. /\ \A s \in Requests \ {r} : request'[s] = request[s]
      /\ \A s \in Requests \ {r} : Asking(s)' <=> Asking(s)
  BY DEF Refresh, Asking, AccountsInv, AccountTypes, RequestType
<1>2. counts.issued \in Nat /\ live \subseteq Nat /\ \A x \in Held : x.token \in Nat
  BY CallersAssumption DEF AccountsInv, AccountTypes, NumberTypes, Held, Records
<1>3. \A s \in Requests : request[s].at = "record" =>
        request[s].answer.token \in Nat /\ request[s].expected \in Held
  BY CallersAssumption DEF AccountsInv, AccountTypes, RequestType, Records, Held, Asking
<1>4. Asking(r) /\ request[r].at = "remote"
  BY DEF Refresh, Asking
<1>5. \/ UNCHANGED <<live, counts>>
      \/ /\ counts'.issued = counts.issued + 1
         /\ live' = (live \ {token}) \cup {counts.issued + 1}
  BY DEF Refresh, Count, AccountsInv, AccountTypes, NumberTypes
<1>6. /\ \A t \in live' : t <= counts'.issued
      /\ \A x \in Held' : x.token <= counts'.issued /\ (~x.ok => x.token \notin live')
  <2>1. Held' \subseteq Held
    BY RefreshKeeps
  <2>2. /\ \A t \in live : t <= counts.issued
        /\ \A x \in Held : x.token <= counts.issued /\ (~x.ok => x.token \notin live)
    BY DEF AccountsInv, TokenInv
  <2>3. CASE UNCHANGED <<live, counts>>
    BY <2>1, <2>2, <2>3
  <2>4. CASE /\ counts'.issued = counts.issued + 1
             /\ live' = (live \ {token}) \cup {counts.issued + 1}
    <3> HIDE DEF token
    <3> QED BY <1>2, <2>1, <2>2, <2>4
  <2> QED BY <1>5, <2>3, <2>4
<1>7. ASSUME NEW s \in Requests \ {r}
      PROVE  /\ (Asking(s)' => request'[s].expected.ok)
             /\ (request'[s].at = "record" =>
                   /\ request'[s].answer.token <= counts'.issued
                   /\ (~request'[s].answer.ok => request'[s].answer.token = 0
                                               /\ request'[s].expected.token \notin live'))
  <2>1. request[s].at = "record" =>
          /\ request[s].answer.token \in Nat /\ request[s].expected.token \in Nat
          /\ request[s].expected.token <= counts.issued
    BY <1>2, <1>3 DEF AccountsInv, TokenInv
  <2> QED BY <1>1, <1>2, <1>5, <2>1 DEF AccountsInv, TokenInv
<1>8. ASSUME NEW t, NEW ok \in BOOLEAN,
             request' = [request EXCEPT ![r].at = "record", ![r].answer = Record(t, ok)]
      PROVE  /\ request'[r].expected = request[r].expected
             /\ request'[r].answer.token = t /\ request'[r].answer.ok = ok
  BY <1>8 DEF Record, AccountsInv, AccountTypes, RequestType
<1>9. /\ (Asking(r)' => request'[r].expected.ok)
      /\ (request'[r].at = "record" =>
            /\ request'[r].answer.token <= counts'.issued
            /\ (~request'[r].answer.ok => request'[r].answer.token = 0
                                        /\ request'[r].expected.token \notin live'))
  <2> DEFINE Replies(t, ok) ==
               request' = [request EXCEPT ![r].at = "record", ![r].answer = Record(t, ok)]
  <2>1. request[r].expected.ok
    BY <1>4 DEF AccountsInv, TokenInv
  <2>2. CASE request' = [request EXCEPT ![r] = At("done")]
    BY <2>2 DEF Asking, At, AccountsInv, AccountTypes, RequestType
  <2>3. CASE token \notin live /\ UNCHANGED <<live, counts>> /\ Replies(0, FALSE)
    <3>1. /\ request'[r].expected = request[r].expected
          /\ request'[r].answer.token = 0 /\ request'[r].answer.ok = FALSE
      BY <1>8, <2>3
    <3>2. live' = live /\ counts' = counts /\ token \notin live
      BY <2>3
    <3> QED BY <1>2, <2>1, <3>1, <3>2
  <2>4. CASE UNCHANGED <<live, counts>> /\ Replies(0, TRUE)
    <3>1. /\ request'[r].expected = request[r].expected
          /\ request'[r].answer.token = 0 /\ request'[r].answer.ok = TRUE
      BY <1>8, <2>4
    <3>2. live' = live /\ counts' = counts
      BY <2>4
    <3> QED BY <1>2, <2>1, <3>1, <3>2
  <2>5. CASE Count("issued") /\ Replies(counts.issued + 1, TRUE)
    <3>1. counts'.issued = counts.issued + 1
      BY <2>5 DEF Count, AccountsInv, AccountTypes, NumberTypes
    <3>2. /\ request'[r].expected = request[r].expected
          /\ request'[r].answer.token = counts.issued + 1 /\ request'[r].answer.ok = TRUE
      BY <1>8, <2>5
    <3> QED BY <1>2, <2>1, <3>1, <3>2
  <2> QED BY <2>2, <2>3, <2>4, <2>5 DEF Refresh
<1> QED BY <1>6, <1>7, <1>9 DEF TokenInv

-----------------------------------------------------------------------------
(* The token of an authorization.                                             *)

LEMMA FlowKept ==
  ASSUME AccountsInv, Held' \subseteq Held, RequestsKeep, counts'.issued = counts.issued,
         flow'.token = flow.token, flow'.at = "idle" <=> flow.at = "idle",
         flow'.at = "idle" => ~flow'.cancelled, Unrecorded' => Unrecorded
  PROVE  FlowInv'
<1>1. \A r \in Requests : request'[r] = request[r] \/ request'[r].at # "record"
  BY DEF RequestsKeep
<1> QED BY <1>1 DEF AccountsInv, FlowInv

(* The flow at a step of a job: it is told when its own commit is over.       *)
LEMMA JobTellsFlow ==
  ASSUME AccountsInv, GoesOn \/ (Releases /\ \E answer \in {"applied", "failed"} :
                            flow' = IF job.by = Flow THEN [flow EXCEPT !.at = answer] ELSE flow)
  PROVE  /\ flow'.token = flow.token /\ (flow'.at = "idle" <=> flow.at = "idle")
         /\ (flow'.at = "idle" => ~flow'.cancelled) /\ (Unrecorded' => Unrecorded)
<1>1. CASE GoesOn
  BY <1>1 DEF GoesOn, callers, Unrecorded, AccountsInv, FlowInv
<1>2. CASE Releases /\ flow' = flow /\ job.by # Flow
  BY <1>2 DEF Releases, Unrecorded, AccountsInv, FlowInv
<1>3. CASE Releases /\ job.by = Flow /\ \E answer \in {"applied", "failed"} :
             flow' = [flow EXCEPT !.at = answer]
  <2>1. PICK answer \in {"applied", "failed"} : flow' = [flow EXCEPT !.at = answer]
    BY <1>3
  <2>2. flow'.token = flow.token /\ flow'.at = answer /\ flow'.cancelled = flow.cancelled
    BY <2>1 DEF AccountsInv, AccountTypes, FlowType
  <2> QED BY <1>3, <2>2 DEF Unrecorded, AccountsInv, FlowInv, GateInv
<1> QED BY <1>1, <1>2, <1>3

LEMMA StageFlowInv ==
  ASSUME AccountsInv, Stage
  PROVE  FlowInv'
<1>1. GoesOn \/ Releases
  BY StageAdvances
<1>2. Releases => \E answer \in {"applied", "failed"} :
        flow' = IF job.by = Flow THEN [flow EXCEPT !.at = answer] ELSE flow
  BY CallersAssumption
  DEF Stage, Ended, Releases, NoJob, callers, AccountsInv, AccountTypes, JobType, Jobs,
      Callers, GateInv
<1> QED BY <1>1, <1>2, JobTellsFlow, StageKeeps, FlowKept

LEMMA BeginFlowInv ==
  ASSUME AccountsInv, Begin
  PROVE  FlowInv'
<1>1. GoesOn \/ Releases
  BY BeginAdvances
<1>2. Releases => \E answer \in {"applied", "failed"} :
        flow' = IF job.by = Flow THEN [flow EXCEPT !.at = answer] ELSE flow
  BY CallersAssumption
  DEF Begin, Ended, Releases, NoJob, callers, AccountsInv, AccountTypes, JobType, Jobs,
      Callers, GateInv
<1> QED BY <1>1, <1>2, JobTellsFlow, BeginKeeps, FlowKept

LEMMA WriteFileFlowInv ==
  ASSUME AccountsInv, WriteFile
  PROVE  FlowInv'
<1>1. GoesOn \/ Releases
  BY WriteFileAdvances
<1>2. Releases => \E answer \in {"applied", "failed"} :
        flow' = IF job.by = Flow THEN [flow EXCEPT !.at = answer] ELSE flow
  BY CallersAssumption
  DEF WriteFile, Ended, Releases, NoJob, callers, AccountsInv, AccountTypes, JobType,
      Jobs, Callers, GateInv
<1> QED BY <1>1, <1>2, JobTellsFlow, WriteFileKeeps, FlowKept

LEMMA CommitFlowInv ==
  ASSUME AccountsInv, Commit
  PROVE  FlowInv'
<1>1. GoesOn \/ Releases
  BY CommitAdvances
<1>2. Releases => \E answer \in {"applied", "failed"} :
        flow' = IF job.by = Flow THEN [flow EXCEPT !.at = answer] ELSE flow
  BY CallersAssumption
  DEF Commit, Ended, Releases, NoJob, callers, AccountsInv, AccountTypes, JobType, Jobs,
      Callers, GateInv
<1> QED BY <1>1, <1>2, JobTellsFlow, CommitKeeps, FlowKept

LEMMA UnstageFlowInv ==
  ASSUME AccountsInv, Unstage
  PROVE  FlowInv'
<1>1. GoesOn \/ Releases
  BY UnstageAdvances
<1>2. Releases => \E answer \in {"applied", "failed"} :
        flow' = IF job.by = Flow THEN [flow EXCEPT !.at = answer] ELSE flow
  BY CallersAssumption
  DEF Unstage, Ended, Releases, NoJob, callers, AccountsInv, AccountTypes, JobType, Jobs,
      Callers, GateInv
<1> QED BY <1>1, <1>2, JobTellsFlow, UnstageKeeps, FlowKept

LEMMA UndoWriteFlowInv ==
  ASSUME AccountsInv, UndoWrite
  PROVE  FlowInv'
<1>1. GoesOn \/ Releases
  BY UndoWriteAdvances
<1>2. Releases => \E answer \in {"applied", "failed"} :
        flow' = IF job.by = Flow THEN [flow EXCEPT !.at = answer] ELSE flow
  BY CallersAssumption
  DEF UndoWrite, Ended, Releases, NoJob, callers, AccountsInv, AccountTypes, JobType,
      Jobs, Callers, GateInv
<1> QED BY <1>1, <1>2, JobTellsFlow, UndoWriteKeeps, FlowKept

LEMMA MarkUndoneFlowInv ==
  ASSUME AccountsInv, MarkUndone
  PROVE  FlowInv'
<1>1. GoesOn \/ Releases
  BY MarkUndoneAdvances
<1>2. Releases => \E answer \in {"applied", "failed"} :
        flow' = IF job.by = Flow THEN [flow EXCEPT !.at = answer] ELSE flow
  BY CallersAssumption
  DEF MarkUndone, Ended, Releases, NoJob, callers, AccountsInv, AccountTypes, JobType,
      Jobs, Callers, GateInv
<1> QED BY <1>1, <1>2, JobTellsFlow, MarkUndoneKeeps, FlowKept

LEMMA SubmitFlowInv ==
  ASSUME NEW c \in Actions, NEW kind \in Kinds, NEW a \in Accounts, AccountsInv, Submit(c,
         kind, a)
  PROVE  FlowInv'
<1>1. /\ flow'.token = flow.token /\ (flow'.at = "idle" <=> flow.at = "idle")
      /\ (flow'.at = "idle" => ~flow'.cancelled) /\ (Unrecorded' => Unrecorded)
  BY CallersAssumption
  DEF Submit, durable, Free, NoJob, Unrecorded, AccountsInv, FlowInv, GateInv,
      AccountTypes, FlowType
<1> QED BY <1>1, SubmitKeeps, FlowKept

LEMMA ApplyFlowInv ==
  ASSUME NEW c \in Actions, AccountsInv, Apply(c)
  PROVE  FlowInv'
<1>1. /\ flow'.token = flow.token /\ (flow'.at = "idle" <=> flow.at = "idle")
      /\ (flow'.at = "idle" => ~flow'.cancelled) /\ (Unrecorded' => Unrecorded)
  BY CallersAssumption
  DEF Apply, durable, Free, NoJob, Take, Unrecorded, AccountsInv, FlowInv, GateInv,
      AccountTypes, FlowType
<1> QED BY <1>1, ApplyKeeps, FlowKept

LEMMA RecoverPendingFlowInv ==
  ASSUME AccountsInv, RecoverPending
  PROVE  FlowInv'
<1>1. /\ flow'.token = flow.token /\ (flow'.at = "idle" <=> flow.at = "idle")
      /\ (flow'.at = "idle" => ~flow'.cancelled) /\ (Unrecorded' => Unrecorded)
  BY CallersAssumption
  DEF RecoverPending, callers, NoJob, Unrecorded, AccountsInv, FlowInv, GateInv,
      AccountTypes, FlowType
<1> QED BY <1>1, RecoverPendingKeeps, FlowKept

LEMMA RecoverSettledFlowInv ==
  ASSUME AccountsInv, RecoverSettled
  PROVE  FlowInv'
<1>1. /\ flow'.token = flow.token /\ (flow'.at = "idle" <=> flow.at = "idle")
      /\ (flow'.at = "idle" => ~flow'.cancelled) /\ (Unrecorded' => Unrecorded)
  BY CallersAssumption
  DEF RecoverSettled, callers, NoJob, Unrecorded, AccountsInv, FlowInv, GateInv,
      AccountTypes, FlowType
<1> QED BY <1>1, RecoverSettledKeeps, FlowKept

LEMMA RecoverCleanupFlowInv ==
  ASSUME AccountsInv, RecoverCleanup
  PROVE  FlowInv'
<1>1. /\ flow'.token = flow.token /\ (flow'.at = "idle" <=> flow.at = "idle")
      /\ (flow'.at = "idle" => ~flow'.cancelled) /\ (Unrecorded' => Unrecorded)
  BY CallersAssumption
  DEF RecoverCleanup, Ended, NoJob, Unrecorded, AccountsInv, FlowInv, GateInv,
      AccountTypes, FlowType
<1> QED BY <1>1, RecoverCleanupKeeps, FlowKept

LEMMA LoseStagedFlowInv ==
  ASSUME AccountsInv, LoseStaged
  PROVE  FlowInv'
<1>1. /\ flow'.token = flow.token /\ (flow'.at = "idle" <=> flow.at = "idle")
      /\ (flow'.at = "idle" => ~flow'.cancelled) /\ (Unrecorded' => Unrecorded)
  BY CallersAssumption
  DEF LoseStaged, callers, NoJob, Unrecorded, AccountsInv, FlowInv, GateInv, AccountTypes,
      FlowType
<1> QED BY <1>1, LoseStagedKeeps, FlowKept

LEMMA ProcessStopsFlowInv ==
  ASSUME AccountsInv, ProcessStops
  PROVE  FlowInv'
<1>1. /\ flow'.token = flow.token /\ (flow'.at = "idle" <=> flow.at = "idle")
      /\ (flow'.at = "idle" => ~flow'.cancelled) /\ (Unrecorded' => Unrecorded)
  BY CallersAssumption
  DEF ProcessStops, durable, NoJob, Unrecorded, AccountsInv, FlowInv, GateInv,
      AccountTypes, FlowType
<1> QED BY <1>1, ProcessStopsKeeps, FlowKept

LEMMA CancelFlowInv ==
  ASSUME AccountsInv, Cancel
  PROVE  FlowInv'
<1>1. /\ flow'.token = flow.token /\ (flow'.at = "idle" <=> flow.at = "idle")
      /\ (flow'.at = "idle" => ~flow'.cancelled) /\ (Unrecorded' => Unrecorded)
  BY CallersAssumption
  DEF Cancel, durable, NoJob, Unrecorded, AccountsInv, FlowInv, GateInv, AccountTypes,
      FlowType
<1> QED BY <1>1, CancelKeeps, FlowKept

LEMMA EditOutsideFlowInv ==
  ASSUME NEW a \in Accounts, AccountsInv, EditOutside(a)
  PROVE  FlowInv'
<1>1. /\ flow' = flow /\ request' = request /\ job'.by = job.by
  BY DEF EditOutside, callers, NoJob, AccountsInv, AccountTypes, JobType, Jobs
<1>2. Record(0, TRUE).token = 0
  BY DEF Record
<1>3. Unrecorded => flow.token # 0
  BY DEF Unrecorded, AccountsInv, FlowInv
<1> QED BY <1>1, <1>2, <1>3, EditOutsideKeeps DEF AccountsInv, FlowInv, Unrecorded

LEMMA RecordAuthorizationFlowInv ==
  ASSUME AccountsInv, RecordAuthorization
  PROVE  FlowInv'
<1>1. flow.at = "granted"
  BY DEF RecordAuthorization
<1>2. CASE Held' \subseteq Held /\ job' = job /\ flow'.at = "failed"
  <2>1. Unrecorded' => Unrecorded
    BY <1>2, RecordAuthorizationKeeps DEF Unrecorded
  <2> QED BY <1>1, <1>2, <2>1, RecordAuthorizationKeeps, FlowKept
<1>3. CASE flow' = flow /\ job'.by = Flow /\ ~flow.cancelled
  BY <1>1, <1>3, RecordAuthorizationKeeps DEF Unrecorded, AccountsInv, FlowInv
<1> QED BY <1>2, <1>3, RecordAuthorizationKeeps

LEMMA RecordRefreshFlowInv ==
  ASSUME NEW r \in Requests, AccountsInv, RecordRefresh(r)
  PROVE  FlowInv'
<1> DEFINE record == Refreshed(request[r].expected, request[r].answer)
<1>1. request[r].at = "record" /\ Asking(r)
  BY RecordRefreshKeeps DEF Asking
<1>2. request[r].expected \in Held
  BY <1>1 DEF Held, AccountsInv, AccountTypes, RequestType, Asking
<1>3. Unrecorded => record.token # flow.token
  BY <1>1, <1>2 DEF Refreshed, Record, AccountsInv, FlowInv
<1>4. flow' = flow /\ (Unrecorded' => Unrecorded)
  BY CallersAssumption DEF RecordRefresh, Free, NoJob, Unrecorded
<1>5. \A s \in Requests : request'[s] = request[s] \/ request'[s].at # "record"
  BY RecordRefreshKeeps DEF RequestsKeep
<1>6. counts'.issued = counts.issued /\ Held' \subseteq Held \cup {record}
  BY RecordRefreshKeeps
<1> HIDE DEF record
<1> QED BY <1>3, <1>4, <1>5, <1>6 DEF AccountsInv, FlowInv

LEMMA ReadAccountFlowInv ==
  ASSUME NEW r \in Requests, AccountsInv, ReadAccount(r)
  PROVE  FlowInv'
<1>1. \A s \in Requests : request'[s] = request[s] \/ request'[s].at # "record"
  BY DEF ReadAccount, At, AccountsInv, AccountTypes, RequestType
<1>2. flow' = flow /\ job' = job
  BY DEF ReadAccount
<1> QED BY <1>1, <1>2, ReadAccountKeeps DEF AccountsInv, FlowInv, Unrecorded

LEMMA GrantFlowInv ==
  ASSUME NEW a \in Accounts, AccountsInv, Grant(a)
  PROVE  FlowInv'
<1>1. /\ counts'.issued = counts.issued + 1 /\ request' = request
      /\ flow'.at = "granted" /\ flow'.token = counts.issued + 1
  BY DEF Grant, Count, AccountsInv, AccountTypes, NumberTypes, FlowType
<1>2. counts.issued \in Nat /\ \A x \in Held : x.token \in Nat
  BY CallersAssumption DEF AccountsInv, AccountTypes, NumberTypes, Held, Records
<1>3. \A s \in Requests : request[s].at = "record" => request[s].answer.token \in Nat
  BY CallersAssumption DEF AccountsInv, AccountTypes, RequestType, Records
<1> QED BY <1>1, <1>2, <1>3, GrantKeeps DEF AccountsInv, FlowInv, TokenInv, Asking

LEMMA RefreshFlowInv ==
  ASSUME NEW r \in Requests, AccountsInv, Refresh(r)
  PROVE  FlowInv'
<1>1. flow' = flow /\ job' = job
  BY DEF Refresh
<1>2. counts.issued \in Nat /\ flow.token \in Nat
  BY DEF AccountsInv, AccountTypes, NumberTypes, FlowType
<1>3. \A s \in Requests \ {r} : request'[s] = request[s]
  BY DEF Refresh, AccountsInv, AccountTypes, RequestType
<1>4. ASSUME NEW t, NEW ok \in BOOLEAN,
             request' = [request EXCEPT ![r].at = "record", ![r].answer = Record(t, ok)]
      PROVE  request'[r].answer.token = t
  BY <1>4 DEF Record, AccountsInv, AccountTypes, RequestType
<1>5. request'[r].at = "record" => request'[r].answer.token \in {0, counts.issued + 1}
  <2>1. CASE request' = [request EXCEPT ![r] = At("done")]
    BY <2>1 DEF At, AccountsInv, AccountTypes, RequestType
  <2> QED BY <1>4, <2>1 DEF Refresh
<1>6. counts'.issued \in {counts.issued, counts.issued + 1}
  BY DEF Refresh, Count, AccountsInv, AccountTypes, NumberTypes
<1>7. Unrecorded => flow.token # 0
  BY DEF Unrecorded, AccountsInv, FlowInv
<1> QED
    BY <1>1, <1>2, <1>3, <1>5, <1>6, <1>7, RefreshKeeps
       DEF AccountsInv, FlowInv, Unrecorded

-----------------------------------------------------------------------------
(* The invariant of the accounts.                                             *)

LEMMA AccountsInitHolds ==
  ASSUME AccountsInit
  PROVE  AccountsInv
<1> USE CallersAssumption, BoundsAssumption
<1>1. PICK a \in Accounts :
        doc = [accounts |-> [b \in Accounts |-> IF b = a THEN Record(1, TRUE) ELSE NoRecord],
               default |-> a]
  BY DEF AccountsInit
<1>2. doc.default = a /\ \A b \in Accounts :
        doc.accounts[b] = IF b = a THEN Record(1, TRUE) ELSE NoRecord
  BY <1>1
<1>3. doc \in AccountDocuments
  <2>1. Record(1, TRUE) \in Records /\ NoRecord \in Records
    BY DEF Record, Records
  <2> QED BY <1>1, <2>1 DEF AccountDocuments
<1>4. AccountTypes
  <2>1. FileTypes /\ StagedType /\ RowType /\ CatalogType /\ SetTypes /\ JobType
    BY <1>3
       DEF AccountsInit, FileTypes, StagedType, RowType, CatalogType, SetTypes, JobType
  <2>2. RequestType
    BY DEF AccountsInit, At, RequestType, RequestPlaces, Records
  <2>3. ActionType
    BY DEF AccountsInit, ActionType, Outcomes
  <2>4. FlowType /\ NumberTypes
    BY DEF AccountsInit, FlowType, NumberTypes
  <2> QED BY <2>1, <2>2, <2>3, <2>4 DEF AccountTypes
<1>5. job = NoJob /\ staged = Unset /\ last = doc /\ job.by = Unset
  BY DEF AccountsInit, NoJob
<1>6. \A r \in Requests : request[r].at = "idle"
  BY DEF AccountsInit, At
<1>7. \A x \in Held : x = Record(1, TRUE)
  BY <1>2, <1>5, <1>6 DEF Held, HeldDocuments, Asking
<1>8. TokenInv
  BY <1>6, <1>7 DEF AccountsInit, TokenInv, Asking, Record
<1>9. GateInv /\ PhaseInv /\ FileInv /\ ShapeInv /\ CallerInv /\ FlowInv
  BY <1>5, <1>6 DEF AccountsInit, GateInv, PhaseInv, FileInv, ShapeInv, JobShape,
     CallerInv,
     FlowInv, Unrecorded, Pending, NoJob
<1> QED BY <1>4, <1>8, <1>9 DEF AccountsInv

LEMMA SubmitPreserves ==
  ASSUME NEW c \in Actions, NEW kind \in Kinds, NEW a \in Accounts, AccountsInv, Submit(c,
         kind, a)
  PROVE  AccountsInv'
<1>1. AccountTypes'
  BY SubmitTypes DEF AccountsInv
<1> QED
    BY <1>1, SubmitGateInv, SubmitPhaseInv, SubmitFileInv, SubmitShapeInv,
       SubmitTokenInv, SubmitCallerInv, SubmitFlowInv
       DEF AccountsInv

LEMMA ApplyPreserves ==
  ASSUME NEW c \in Actions, AccountsInv, Apply(c)
  PROVE  AccountsInv'
<1>1. AccountTypes'
  BY ApplyTypes DEF AccountsInv
<1> QED
    BY <1>1, ApplyGateInv, ApplyPhaseInv, ApplyFileInv, ApplyShapeInv, ApplyTokenInv,
       ApplyCallerInv, ApplyFlowInv
       DEF AccountsInv

LEMMA ReadAccountPreserves ==
  ASSUME NEW r \in Requests, AccountsInv, ReadAccount(r)
  PROVE  AccountsInv'
<1>1. AccountTypes'
  BY ReadAccountTypes DEF AccountsInv
<1> QED
    BY <1>1, ReadAccountGateInv, ReadAccountPhaseInv, ReadAccountFileInv,
       ReadAccountShapeInv, ReadAccountTokenInv, ReadAccountCallerInv,
       ReadAccountFlowInv
       DEF AccountsInv

LEMMA RefreshPreserves ==
  ASSUME NEW r \in Requests, AccountsInv, Refresh(r)
  PROVE  AccountsInv'
<1>1. AccountTypes'
  BY RefreshTypes DEF AccountsInv
<1> QED
    BY <1>1, RefreshGateInv, RefreshPhaseInv, RefreshFileInv, RefreshShapeInv,
       RefreshTokenInv, RefreshCallerInv, RefreshFlowInv
       DEF AccountsInv

LEMMA RecordRefreshPreserves ==
  ASSUME NEW r \in Requests, AccountsInv, RecordRefresh(r)
  PROVE  AccountsInv'
<1>1. AccountTypes'
  BY RecordRefreshTypes DEF AccountsInv
<1> QED
    BY <1>1, RecordRefreshGateInv, RecordRefreshPhaseInv, RecordRefreshFileInv,
       RecordRefreshShapeInv, RecordRefreshTokenInv, RecordRefreshCallerInv,
       RecordRefreshFlowInv
       DEF AccountsInv

LEMMA GrantPreserves ==
  ASSUME NEW a \in Accounts, AccountsInv, Grant(a)
  PROVE  AccountsInv'
<1>1. AccountTypes'
  BY GrantTypes DEF AccountsInv
<1> QED
    BY <1>1, GrantGateInv, GrantPhaseInv, GrantFileInv, GrantShapeInv, GrantTokenInv,
       GrantCallerInv, GrantFlowInv
       DEF AccountsInv

LEMMA EditOutsidePreserves ==
  ASSUME NEW a \in Accounts, AccountsInv, EditOutside(a)
  PROVE  AccountsInv'
<1>1. AccountTypes'
  BY EditOutsideTypes DEF AccountsInv
<1> QED
    BY <1>1, EditOutsideGateInv, EditOutsidePhaseInv, EditOutsideFileInv,
       EditOutsideShapeInv, EditOutsideTokenInv, EditOutsideCallerInv,
       EditOutsideFlowInv
       DEF AccountsInv

LEMMA CancelPreserves ==
  ASSUME AccountsInv, Cancel
  PROVE  AccountsInv'
<1>1. AccountTypes'
  BY CancelTypes DEF AccountsInv
<1> QED
    BY <1>1, CancelGateInv, CancelPhaseInv, CancelFileInv, CancelShapeInv,
       CancelTokenInv, CancelCallerInv, CancelFlowInv
       DEF AccountsInv

LEMMA RecordAuthorizationPreserves ==
  ASSUME AccountsInv, RecordAuthorization
  PROVE  AccountsInv'
<1>1. AccountTypes'
  BY RecordAuthorizationTypes DEF AccountsInv
<1> QED
    BY <1>1, RecordAuthorizationGateInv, RecordAuthorizationPhaseInv,
       RecordAuthorizationFileInv, RecordAuthorizationShapeInv,
       RecordAuthorizationTokenInv, RecordAuthorizationCallerInv,
       RecordAuthorizationFlowInv
       DEF AccountsInv

LEMMA StagePreserves ==
  ASSUME AccountsInv, Stage
  PROVE  AccountsInv'
<1>1. AccountTypes'
  BY StageTypes DEF AccountsInv
<1> QED
    BY <1>1, StageGateInv, StagePhaseInv, StageFileInv, StageShapeInv, StageTokenInv,
       StageCallerInv, StageFlowInv
       DEF AccountsInv

LEMMA BeginPreserves ==
  ASSUME AccountsInv, Begin
  PROVE  AccountsInv'
<1>1. AccountTypes'
  BY BeginTypes DEF AccountsInv
<1> QED
    BY <1>1, BeginGateInv, BeginPhaseInv, BeginFileInv, BeginShapeInv, BeginTokenInv,
       BeginCallerInv, BeginFlowInv
       DEF AccountsInv

LEMMA WriteFilePreserves ==
  ASSUME AccountsInv, WriteFile
  PROVE  AccountsInv'
<1>1. AccountTypes'
  BY WriteFileTypes DEF AccountsInv
<1> QED
    BY <1>1, WriteFileGateInv, WriteFilePhaseInv, WriteFileFileInv, WriteFileShapeInv,
       WriteFileTokenInv, WriteFileCallerInv, WriteFileFlowInv
       DEF AccountsInv

LEMMA CommitPreserves ==
  ASSUME AccountsInv, Commit
  PROVE  AccountsInv'
<1>1. AccountTypes'
  BY CommitTypes DEF AccountsInv
<1> QED
    BY <1>1, CommitGateInv, CommitPhaseInv, CommitFileInv, CommitShapeInv,
       CommitTokenInv, CommitCallerInv, CommitFlowInv
       DEF AccountsInv

LEMMA UnstagePreserves ==
  ASSUME AccountsInv, Unstage
  PROVE  AccountsInv'
<1>1. AccountTypes'
  BY UnstageTypes DEF AccountsInv
<1> QED
    BY <1>1, UnstageGateInv, UnstagePhaseInv, UnstageFileInv, UnstageShapeInv,
       UnstageTokenInv, UnstageCallerInv, UnstageFlowInv
       DEF AccountsInv

LEMMA UndoWritePreserves ==
  ASSUME AccountsInv, UndoWrite
  PROVE  AccountsInv'
<1>1. AccountTypes'
  BY UndoWriteTypes DEF AccountsInv
<1> QED
    BY <1>1, UndoWriteGateInv, UndoWritePhaseInv, UndoWriteFileInv, UndoWriteShapeInv,
       UndoWriteTokenInv, UndoWriteCallerInv, UndoWriteFlowInv
       DEF AccountsInv

LEMMA MarkUndonePreserves ==
  ASSUME AccountsInv, MarkUndone
  PROVE  AccountsInv'
<1>1. AccountTypes'
  BY MarkUndoneTypes DEF AccountsInv
<1> QED
    BY <1>1, MarkUndoneGateInv, MarkUndonePhaseInv, MarkUndoneFileInv,
       MarkUndoneShapeInv, MarkUndoneTokenInv, MarkUndoneCallerInv, MarkUndoneFlowInv
       DEF AccountsInv

LEMMA RecoverPendingPreserves ==
  ASSUME AccountsInv, RecoverPending
  PROVE  AccountsInv'
<1>1. AccountTypes'
  BY RecoverPendingTypes DEF AccountsInv
<1> QED
    BY <1>1, RecoverPendingGateInv, RecoverPendingPhaseInv, RecoverPendingFileInv,
       RecoverPendingShapeInv, RecoverPendingTokenInv, RecoverPendingCallerInv,
       RecoverPendingFlowInv
       DEF AccountsInv

LEMMA RecoverSettledPreserves ==
  ASSUME AccountsInv, RecoverSettled
  PROVE  AccountsInv'
<1>1. AccountTypes'
  BY RecoverSettledTypes DEF AccountsInv
<1> QED
    BY <1>1, RecoverSettledGateInv, RecoverSettledPhaseInv, RecoverSettledFileInv,
       RecoverSettledShapeInv, RecoverSettledTokenInv, RecoverSettledCallerInv,
       RecoverSettledFlowInv
       DEF AccountsInv

LEMMA RecoverCleanupPreserves ==
  ASSUME AccountsInv, RecoverCleanup
  PROVE  AccountsInv'
<1>1. AccountTypes'
  BY RecoverCleanupTypes DEF AccountsInv
<1> QED
    BY <1>1, RecoverCleanupGateInv, RecoverCleanupPhaseInv, RecoverCleanupFileInv,
       RecoverCleanupShapeInv, RecoverCleanupTokenInv, RecoverCleanupCallerInv,
       RecoverCleanupFlowInv
       DEF AccountsInv

LEMMA ProcessStopsPreserves ==
  ASSUME AccountsInv, ProcessStops
  PROVE  AccountsInv'
<1>1. AccountTypes'
  BY ProcessStopsTypes DEF AccountsInv
<1> QED
    BY <1>1, ProcessStopsGateInv, ProcessStopsPhaseInv, ProcessStopsFileInv,
       ProcessStopsShapeInv, ProcessStopsTokenInv, ProcessStopsCallerInv,
       ProcessStopsFlowInv
       DEF AccountsInv

LEMMA LoseStagedPreserves ==
  ASSUME AccountsInv, LoseStaged
  PROVE  AccountsInv'
<1>1. AccountTypes'
  BY LoseStagedTypes DEF AccountsInv
<1> QED
    BY <1>1, LoseStagedGateInv, LoseStagedPhaseInv, LoseStagedFileInv,
       LoseStagedShapeInv, LoseStagedTokenInv, LoseStagedCallerInv, LoseStagedFlowInv
       DEF AccountsInv

LEMMA AccountsNextHolds ==
  ASSUME AccountsInv, [AccountsNext]_accountsVars
  PROVE  AccountsInv'
<1>1. CASE UNCHANGED accountsVars
  <2> USE <1>1 DEF accountsVars, durable, callers, AccountsInv
  <2>1. AccountTypes'
    BY DEF AccountTypes, FileTypes, StagedType, RowType, CatalogType, SetTypes, JobType,
       RequestType, ActionType, FlowType, NumberTypes
  <2>2. GateInv' /\ ShapeInv' /\ CallerInv'
    BY DEF GateInv, ShapeInv, JobShape, CallerInv
  <2>3. PhaseInv' /\ FileInv'
    BY DEF PhaseInv, FileInv, Pending, Anchored, Marked
  <2>4. Held' = Held
    BY DEF Held, HeldDocuments, Asking
  <2>5. TokenInv' /\ FlowInv'
    BY <2>4 DEF TokenInv, Asking, FlowInv, Unrecorded
  <2> QED BY <2>1, <2>2, <2>3, <2>5
<1>2. CASE AccountsNext
  BY <1>2, SubmitPreserves, ApplyPreserves, ReadAccountPreserves, RefreshPreserves,
     RecordRefreshPreserves, GrantPreserves, EditOutsidePreserves, CancelPreserves,
     RecordAuthorizationPreserves, StagePreserves, BeginPreserves, WriteFilePreserves,
     CommitPreserves, UnstagePreserves, UndoWritePreserves, MarkUndonePreserves,
     RecoverPendingPreserves, RecoverSettledPreserves, RecoverCleanupPreserves,
     ProcessStopsPreserves, LoseStagedPreserves
     DEF AccountsNext
<1> QED BY <1>1, <1>2

(* The invariant the theorems about the accounts share. *)
LEMMA AccountsInvariance == AccountsSpec => []AccountsInv
<1>1. AccountsInit => AccountsInv
  BY AccountsInitHolds
<1>2. AccountsInv /\ [AccountsNext]_accountsVars => AccountsInv'
  BY AccountsNextHolds
<1> QED BY <1>1, <1>2, PTL DEF AccountsSpec

LEMMA LastIsHeld ==
  ASSUME AccountsInv, NEW a \in Accounts, Present(last, a)
  PROVE  last.accounts[a] \in Held
<1>1. last \in HeldDocuments /\ last.accounts[a] \in Records
  BY DEF HeldDocuments, AccountsInv, AccountTypes, FileTypes, AccountDocuments
<1> QED BY <1>1 DEF Held, Present

(* At rest, with nothing pending and no recovery asked for, the account file  *)
(* is the committed one: no rollback, interrupted write or recovery leaves    *)
(* tokens that no commit stands for (commit_private_mutation,                 *)
(* rollback_intent, recover_pending_intents).                                 *)
THEOREM AccountsRestCommitted == AccountsSpec => []RestIsCommitted
<1>1. AccountsInv => RestIsCommitted
  BY DEF AccountsInv, AccountTypes, FileTypes, StagedType, RowType, CatalogType, SetTypes,
         FileInv,
     RestIsCommitted, AccountsTypeOK
<1> QED BY <1>1, AccountsInvariance, PTL

(* What a caller is told is what happened: an answered action has its receipt *)
(* exactly when it was applied, and no record holds the token of a cancelled  *)
(* authorization (apply, begin_commit).                                       *)
THEOREM AnswersStayTrue == AccountsSpec => []AnswersAreTrue
<1>1. AccountsInv => AnswersAreTrue
  <2>1. AccountsInv => CallerInv /\ FlowInv
    BY DEF AccountsInv
  <2> QED BY <2>1, LastIsHeld DEF AnswersAreTrue, CallerInv, FlowInv, Unrecorded
<1> QED BY <1>1, AccountsInvariance, PTL

(* Only a commit makes a revision, and of a client, a request or the flow.    *)
LEMMA OnlyCommitsRevise ==
  ASSUME AccountsInv, [AccountsNext]_accountsVars, catalog'.revision # catalog.revision
  PROVE  Commit
<1> USE DEF AccountsInv, AccountTypes, CatalogType, durable, Require
<1>1. ASSUME NEW c \in Actions, NEW kind \in Kinds, NEW a \in Accounts, Submit(c, kind, a)
      PROVE  catalog'.revision = catalog.revision
  BY <1>1 DEF Submit, GiveUp
<1>2. ASSUME NEW c \in Actions, Apply(c) PROVE catalog'.revision = catalog.revision
  BY <1>2 DEF Apply, GiveUp
<1>3. ASSUME NEW r \in Requests, ReadAccount(r) PROVE catalog'.revision = catalog.revision
  BY <1>3 DEF ReadAccount, GiveUp
<1>4. ASSUME NEW r \in Requests, Refresh(r) PROVE catalog'.revision = catalog.revision
  BY <1>4 DEF Refresh, GiveUp
<1>5. ASSUME NEW r \in Requests, RecordRefresh(r) PROVE catalog'.revision = catalog.revision
  BY <1>5 DEF RecordRefresh, GiveUp
<1>6. ASSUME NEW a \in Accounts, Grant(a) PROVE catalog'.revision = catalog.revision
  BY <1>6 DEF Grant, GiveUp
<1>7. ASSUME NEW a \in Accounts, EditOutside(a) PROVE catalog'.revision = catalog.revision
  BY <1>7 DEF EditOutside, GiveUp
<1>8. ASSUME Cancel PROVE catalog'.revision = catalog.revision
  BY <1>8 DEF Cancel, GiveUp
<1>9. ASSUME RecordAuthorization PROVE catalog'.revision = catalog.revision
  BY <1>9 DEF RecordAuthorization, GiveUp
<1>10. ASSUME Stage PROVE catalog'.revision = catalog.revision
  BY <1>10 DEF Stage, GiveUp
<1>11. ASSUME Begin PROVE catalog'.revision = catalog.revision
  BY <1>11 DEF Begin, GiveUp
<1>12. ASSUME WriteFile PROVE catalog'.revision = catalog.revision
  BY <1>12 DEF WriteFile, GiveUp
<1>13. ASSUME Unstage PROVE catalog'.revision = catalog.revision
  BY <1>13 DEF Unstage, GiveUp
<1>14. ASSUME UndoWrite PROVE catalog'.revision = catalog.revision
  BY <1>14 DEF UndoWrite, GiveUp
<1>15. ASSUME MarkUndone PROVE catalog'.revision = catalog.revision
  BY <1>15 DEF MarkUndone, GiveUp
<1>16. ASSUME RecoverPending PROVE catalog'.revision = catalog.revision
  BY <1>16 DEF RecoverPending, GiveUp
<1>17. ASSUME RecoverSettled PROVE catalog'.revision = catalog.revision
  BY <1>17 DEF RecoverSettled, GiveUp
<1>18. ASSUME RecoverCleanup PROVE catalog'.revision = catalog.revision
  BY <1>18 DEF RecoverCleanup, GiveUp
<1>19. ASSUME ProcessStops PROVE catalog'.revision = catalog.revision
  BY <1>19 DEF ProcessStops, GiveUp
<1>20. ASSUME LoseStaged PROVE catalog'.revision = catalog.revision
  BY <1>20 DEF LoseStaged, GiveUp
<1>21. UNCHANGED accountsVars => catalog' = catalog
  BY DEF accountsVars
<1> QED
    BY <1>1, <1>2, <1>3, <1>4, <1>5, <1>6, <1>7, <1>8, <1>9, <1>10, <1>11, <1>12, <1>13,
       <1>14, <1>15, <1>16, <1>17, <1>18, <1>19, <1>20, <1>21
       DEF AccountsNext

(* A late answer of the authority records nothing and condemns nothing: a     *)
(* commit of a refresh replaces the record it had read, other records come    *)
(* only from an authorization, and a committed record that asks for a new     *)
(* authorization has a token the authority rejected (record_refresh).         *)
THEOREM LateRefreshesRecordNothing == AccountsSpec => LateRefreshRecordsNothing
<1> DEFINE Late ==
      /\ CondemnedIsRejected'
      /\ \A a \in Accounts :
           (/\ catalog'.revision # catalog.revision
            /\ last'.accounts[a] # last.accounts[a]
            /\ Present(last', a) /\ ~job.touched)
           => IF job.by \in Requests
                THEN last.accounts[a] = request[job.by].expected
                ELSE job.by = Flow
<1>1. AccountsInv /\ [AccountsNext]_accountsVars => Late
  <2> SUFFICES ASSUME AccountsInv, [AccountsNext]_accountsVars PROVE Late
    OBVIOUS
  <2>1. AccountsInv'
    BY AccountsNextHolds
  <2>2. \A a \in Accounts : Present(last, a)' => last'.accounts[a] \in Held'
    BY <2>1
       DEF AccountsInv, AccountTypes, FileTypes, AccountDocuments, Present,
           HeldDocuments, Held
  <2>3. CondemnedIsRejected'
    BY <2>1, <2>2 DEF AccountsInv, TokenInv, CondemnedIsRejected
  <2>4. ASSUME NEW a \in Accounts, catalog'.revision # catalog.revision,
               last'.accounts[a] # last.accounts[a], Present(last', a), ~job.touched
        PROVE  IF job.by \in Requests THEN last.accounts[a] = request[job.by].expected
                                       ELSE job.by = Flow
    <3>1. Commit
      BY <2>4, OnlyCommitsRevise
    <3>2. job # NoJob /\ job.phase = "commit" /\ job.id # 0 /\ last' = job.desired
      BY <2>4, <3>1 DEF Commit
    <3>3. last = job.before /\ job.by # Start /\ JobShape
      BY <2>4, <3>2 DEF AccountsInv, PhaseInv, ShapeInv
    <3>4. job.by \in Actions \cup Requests \cup {Flow, Start}
      BY <3>2 DEF AccountsInv, AccountTypes, JobType, Jobs, Callers
    <3>5. job.desired.accounts[a] # NoRecord /\ job.desired.accounts[a] # job.before.accounts[a]
      BY <2>4, <3>2, <3>3 DEF Present
    <3> QED BY <3>2, <3>3, <3>4, <3>5 DEF JobShape
  <2> QED BY <2>3, <2>4
<1> QED BY <1>1, AccountsInvariance, PTL DEF AccountsSpec, LateRefreshRecordsNothing

(* A start that leaves nothing pending and asks for no recovery has cleared   *)
(* the staged file and left the committed accounts (recover_pending_intents). *)
THEOREM StartsSettle == AccountsSpec => StartSettles
<1> DEFINE Settles ==
      status # "up" /\ status' = "up" /\ row'.state # "pending" /\ catalog'.recovery = "clean"
        => staged' = Unset /\ doc' = last'
<1>1. AccountsInv /\ [AccountsNext]_accountsVars => Settles
  <2> SUFFICES ASSUME AccountsInv, [AccountsNext]_accountsVars,
                      status # "up", status' = "up", row'.state # "pending",
                      catalog'.recovery = "clean"
               PROVE  staged' = Unset /\ doc' = last'
    OBVIOUS
  <2>1. AccountsInv'
    BY AccountsNextHolds
  <2>2. doc' = last'
    BY <2>1 DEF AccountsInv, FileInv, Pending
  <2>3. catalog \in [revision : Nat, recovery : {"clean", "required"},
                    binding : Accounts \cup {Unset}]
    BY DEF AccountsInv, AccountTypes, CatalogType
  <2>4. ~Require
    BY <2>3 DEF Require
  <2>5. RecoverPending \/ RecoverSettled \/ RecoverCleanup
    <3>1. status' # status
      OBVIOUS
    <3>2. UNCHANGED accountsVars => status' = status
      BY DEF accountsVars
    <3>3. MarkUndone => status' = status \/ status' = "down"
      BY DEF MarkUndone, callers, Ended, AccountsInv, GateInv
    <3> QED BY <3>1, <3>2, <3>3
        DEF AccountsNext, Submit, Apply, ReadAccount, Refresh, RecordRefresh, Grant,
            EditOutside, Cancel, RecordAuthorization, Stage, Begin, WriteFile, Commit,
            Unstage, UndoWrite, ProcessStops, LoseStaged
  <2>6. CASE RecoverPending
    BY <2>4, <2>6 DEF RecoverPending, GiveUp, Pending
  <2>7. CASE RecoverSettled
    <3>1. status = "down" /\ ~Require
      BY <2>4, <2>7 DEF RecoverSettled
    <3> QED BY <2>2, <2>7, <3>1 DEF RecoverSettled
  <2>8. CASE RecoverCleanup
    BY <2>2, <2>4, <2>8 DEF RecoverCleanup
  <2> QED BY <2>2, <2>5, <2>6, <2>7, <2>8
<1> QED BY <1>1, AccountsInvariance, PTL DEF AccountsSpec, StartSettles
=============================================================================
