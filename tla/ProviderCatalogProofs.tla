------------------------ MODULE ProviderCatalogProofs ------------------------
(***************************************************************************)
(* For any requests, contents, secrets and number of providers: whatever a *)
(* committed row names is there and nothing else is kept, a generated      *)
(* provider that is called synchronized is what its Universal Provider     *)
(* declares, no view changes what it shows without a newer sequence, and   *)
(* requests that wait for gates do not wait for each other.                *)
(***************************************************************************)
EXTENDS ProviderCatalog, FiniteSetTheorems, SequenceTheorems, TLAPS

Ref == Nat \cup {None}

Providers ==
  [id : Nat \ {0}, rev : Nat \ {0}, decl : Values, model : Values, cred : Ref,
   owner : Ref, src : Nat, ov : Nat]
Overlays == [on : BOOLEAN, model : Values, ov : Nat, syncSrc : Nat, syncOv : Nat]
Sources ==
  [id : Nat, rev : Nat, decl : Values, cred : Ref, targets : [Targets -> Overlays]]
Routes == [current : Ref, snapshot : Ref, plan : Seq(Nat), rev : Nat, seq : Nat]
Drafts == [rev : Nat, members : Seq([id : Nat, rev : Nat])]

IsTable(c) ==
  /\ IsFiniteSet(DOMAIN c) /\ DOMAIN c \subseteq Nat
  /\ \A n \in DOMAIN c : c[n] \in Secrets

(* No two of a sequence's members share an identity.                        *)
Keyed(s) == \A i, j \in DOMAIN s : s[i].id = s[j].id => i = j

RowsOK == rows \in [Targets -> Seq(Providers)] /\ \A t \in Targets : Keyed(rows[t])
CredsOK == creds = [t \in Targets |-> creds[t]] /\ \A t \in Targets : IsTable(creds[t])
SourcesOK == universals \in Seq(Sources) /\ Keyed(universals) /\ IsTable(ucreds)
RoutesOK == route \in [Targets -> Routes] /\ catalog \in [rev : Nat, seq : Nat]
PlansOK == draft \in [Targets -> Drafts] /\ planned \in [Targets -> SUBSET Ref]
StoreOK == RowsOK /\ CredsOK /\ SourcesOK /\ RoutesOK /\ PlansOK

Acting ==
  [at : {"locking", "prepared"},
   kind : [act : {"synchronize", "lifecycle", "activate"}, rev : Nat], id : Nat,
   want : {<<>>, <<"codex">>, <<"claude">>, LockOrder}, seen : Nat]
Previewed ==
  {q \in [at : {"previewed"},
          kind : [act : {"import"}, target : Targets, model : Values, secret : Secrets \cup {None}],
          id : Nat, want : {<<>>}] : q.id = 0 => q.kind.secret \in Secrets}

RequestsOK ==
  /\ gate \in [Targets -> Requests \cup {None}]
  /\ request \in [Requests -> {Idle, Done} \cup Acting \cup Previewed]

(* A request that holds a gate and wants another holds the first one.       *)
HeldInOrder ==
  \A t \in Targets : gate[t] # None =>
    LET q == request[gate[t]] IN
    /\ q \in Acting
    /\ q.at = "locking" /\ q.want # <<>> => t = "codex" /\ q.want = <<"claude">>

(* An activation that has locked what it wants holds its target's gate.     *)
ActivationsHold ==
  \A q \in Requests : request[q] \in Acting =>
    /\ request[q].at = "prepared" => request[q].kind.act = "activate" /\ request[q].want = <<>>
    /\ request[q].kind.act = "activate" /\ request[q].want = <<>> =>
         \E t \in Targets : gate[t] = q

(* Of the credentials of a target, by its providers and plans.              *)
CredsExact(t) ==
  DOMAIN creds[t] = ({r.cred : r \in ToSet(rows[t])} \cup planned[t]) \ {None}
UcredsExact == DOMAIN ucreds = {u.cred : u \in ToSet(universals)} \ {None}

(* A generated provider keeps the revisions it was generated from, those    *)
(* of its Universal Provider only grow, and while they are the same so is   *)
(* what they stand for.  A target that is switched off went on.             *)
InStep(t, r, u) ==
  LET o == u.targets[t] IN
  /\ r.src = o.syncSrc /\ r.ov = o.syncOv
  /\ r.src <= u.rev /\ r.ov <= o.ov
  /\ ~o.on => r.ov # o.ov
  /\ r.src = u.rev /\ r.ov = o.ov =>
       /\ r.decl = u.decl /\ r.model = o.model
       /\ Secret(creds[t], r.cred) = Secret(ucreds, u.cred)

Owned ==
  \A t \in Targets : \A r \in ToSet(rows[t]) : r.owner # None =>
    \E u \in ToSet(universals) : u.id = r.owner /\ InStep(t, r, u)

(* A Universal Provider generates one provider of a target at most.         *)
OnePerTarget ==
  \A t \in Targets : \A a, b \in ToSet(rows[t]) :
    a.owner # None /\ a.owner = b.owner => a = b

(* The providers, the sources and their secrets, to each other.             *)
BooksOK ==
  /\ RowsOK /\ CredsOK /\ SourcesOK
  /\ \A t \in Targets : CredsExact(t)
  /\ UcredsExact /\ Owned /\ OnePerTarget
GatesInv == RequestsOK /\ HeldInOrder /\ ActivationsHold
CInv == StoreOK /\ BooksOK /\ RoutesExist /\ GatesInv

-----------------------------------------------------------------------------
(* Sequences of keyed records.                                              *)
LEMMA InToSet ==
  ASSUME NEW S, NEW s \in Seq(S)
  PROVE  /\ ToSet(s) \subseteq S
         /\ \A x : x \in ToSet(s) <=> \E i \in DOMAIN s : s[i] = x
  BY DEF ToSet

LEMMA InIds ==
  ASSUME NEW s
  PROVE  \A n : n \in Ids(s) <=> \E x \in ToSet(s) : x.id = n
  BY DEF Ids

LEMMA Joined ==
  ASSUME NEW S, NEW a \in Seq(S), NEW b \in Seq(S)
  PROVE  /\ a \o b \in Seq(S) /\ Len(a \o b) = Len(a) + Len(b)
         /\ \A i \in 1 .. Len(a) : (a \o b)[i] = a[i]
         /\ \A i \in 1 .. Len(b) : (a \o b)[Len(a) + i] = b[i]
  OBVIOUS

LEMMA JoinedEnd ==
  ASSUME NEW S, NEW a \in Seq(S), NEW b \in Seq(S), NEW i \in 1 .. Len(b)
  PROVE  (a \o b)[Len(a) + i] = b[i]
  OBVIOUS

LEMMA InsertedAt ==
  ASSUME NEW S, NEW s \in Seq(S), Keyed(s), NEW e \in S, e.id \notin Ids(s),
         NEW i \in 1 .. Len(s) + 1
  PROVE  /\ InsertAt(s, i, e) \in Seq(S) /\ Keyed(InsertAt(s, i, e))
         /\ ToSet(InsertAt(s, i, e)) = ToSet(s) \cup {e}
  <1> DEFINE a == SubSeq(s, 1, i - 1)
             b == SubSeq(s, i, Len(s))
             c == a \o <<e>>
             r == c \o b
  <1>1. /\ a \in Seq(S) /\ Len(a) = i - 1
        /\ \A j \in 1 .. i - 1 : a[j] = s[j]
    OBVIOUS
  <1>2. /\ b \in Seq(S) /\ Len(b) = Len(s) - i + 1
        /\ \A j \in 1 .. Len(s) - i + 1 : b[j] = s[i + j - 1]
    BY SubSeqProperties
  <1>3. InsertAt(s, i, e) = r BY DEF InsertAt
  <1> HIDE DEF a, b
  <1>4. /\ c \in Seq(S) /\ Len(c) = i /\ c[i] = e
        /\ \A j \in 1 .. i - 1 : c[j] = s[j]
    BY <1>1
  <1> HIDE DEF c
  <1>5. r \in Seq(S) /\ Len(r) = Len(s) + 1
    <2>1. r \in Seq(S) /\ Len(r) = Len(c) + Len(b) BY <1>2, <1>4, Joined
    <2>. QED BY <1>2, <1>4, <2>1
  <1>6. \A j \in 1 .. i : r[j] = c[j] BY <1>2, <1>4
  <1>7. r[i] = e /\ \A j \in 1 .. i - 1 : r[j] = s[j] BY <1>4, <1>6
  <1>8. \A j \in i .. Len(s) : r[j + 1] = s[j]
    <2>1. ASSUME NEW j \in i .. Len(s) PROVE r[j + 1] = s[j]
      <3>1. r[j + 1] = b[j + 1 - i] BY <1>2, <1>4
      <3>2. b[j + 1 - i] = s[i + (j + 1 - i) - 1] BY <1>2
      <3>. QED BY <3>1, <3>2
    <2>. QED BY <2>1
  <1> HIDE DEF r
  <1>9. ASSUME NEW j \in 1 .. Len(s) + 1, j # i
        PROVE  \E k \in 1 .. Len(s) : r[j] = s[k] /\ k = IF j < i THEN j ELSE j - 1
    <2>1. CASE j < i BY <1>7, <2>1
    <2>2. CASE j > i
      <3>1. j - 1 \in i .. Len(s) /\ (j - 1) + 1 = j BY <2>2
      <3>. QED BY <1>8, <2>2, <3>1
    <2>. QED BY <1>9, <2>1, <2>2
  <1>10. \A j \in 1 .. Len(s) : s[j].id # e.id BY DEF Ids, ToSet
  <1>11. Keyed(r)
    <2>1. SUFFICES ASSUME NEW j \in 1 .. Len(s) + 1, NEW k \in 1 .. Len(s) + 1, j # k
                   PROVE  r[j].id # r[k].id
      BY <1>5 DEF Keyed
    <2>2. CASE j = i
      <3>1. PICK m \in 1 .. Len(s) : r[k] = s[m] BY <1>9, <2>1, <2>2
      <3>. QED BY <1>7, <1>10, <2>2, <3>1
    <2>3. CASE k = i
      <3>1. PICK m \in 1 .. Len(s) : r[j] = s[m] BY <1>9, <2>1, <2>3
      <3>. QED BY <1>7, <1>10, <2>3, <3>1
    <2>4. CASE j # i /\ k # i
      <3>1. PICK m \in 1 .. Len(s) : r[j] = s[m] /\ m = IF j < i THEN j ELSE j - 1
        BY <1>9, <2>4
      <3>2. PICK n \in 1 .. Len(s) : r[k] = s[n] /\ n = IF k < i THEN k ELSE k - 1
        BY <1>9, <2>4
      <3>3. m # n BY <2>1, <2>4, <3>1, <3>2
      <3>. QED BY <3>1, <3>2, <3>3 DEF Keyed
    <2>. QED BY <2>2, <2>3, <2>4
  <1>12. ASSUME NEW x PROVE x \in ToSet(r) <=> x \in ToSet(s) \cup {e}
    <2>1. \A j \in 1 .. Len(s) + 1 : r[j] = e \/ \E k \in 1 .. Len(s) : r[j] = s[k]
      BY <1>7, <1>9
    <2>2. ASSUME NEW k \in 1 .. Len(s) PROVE \E j \in 1 .. Len(s) + 1 : r[j] = s[k]
      <3>1. CASE k < i BY <1>7, <3>1
      <3>2. CASE k >= i
        <4>1. k + 1 \in 1 .. Len(s) + 1 /\ r[k + 1] = s[k] BY <1>8, <3>2
        <4>. QED BY <4>1
      <3>. QED BY <3>1, <3>2
    <2>3. \A y : y \in ToSet(r) <=> \E j \in 1 .. Len(s) + 1 : r[j] = y
      BY <1>5, InToSet
    <2>4. \A y : y \in ToSet(s) <=> \E j \in 1 .. Len(s) : s[j] = y
      BY InToSet
    <2>5. \E j \in 1 .. Len(s) + 1 : r[j] = e BY <1>7
    <2>. QED BY <2>1, <2>2, <2>3, <2>4, <2>5
  <1>. QED BY <1>3, <1>5, <1>11, <1>12

LEMMA AppendedTo ==
  ASSUME NEW S, NEW s \in Seq(S), Keyed(s), NEW e \in S, e.id \notin Ids(s)
  PROVE  /\ Append(s, e) \in Seq(S) /\ Keyed(Append(s, e))
         /\ ToSet(Append(s, e)) = ToSet(s) \cup {e}
  <1> DEFINE r == Append(s, e)
  <1>1. /\ r \in Seq(S) /\ Len(r) = Len(s) + 1
        /\ \A j \in 1 .. Len(r) : r[j] = IF j <= Len(s) THEN s[j] ELSE e
    OBVIOUS
  <1>2. \A j \in 1 .. Len(s) : s[j].id # e.id BY DEF Ids, ToSet
  <1> HIDE DEF r
  <1>3. Keyed(r) BY <1>1, <1>2 DEF Keyed
  <1>4. ASSUME NEW x PROVE x \in ToSet(r) <=> x \in ToSet(s) \cup {e}
    <2>1. \A j \in 1 .. Len(s) : s[j] \in ToSet(r) BY <1>1 DEF ToSet
    <2>2. e \in ToSet(r)
      <3>1. Len(s) + 1 \in 1 .. Len(r) /\ r[Len(s) + 1] = e BY <1>1
      <3>. QED BY <1>1, <3>1 DEF ToSet
    <2>3. \A j \in 1 .. Len(r) : r[j] \in ToSet(s) \cup {e} BY <1>1 DEF ToSet
    <2>. QED BY <1>1, <2>1, <2>2, <2>3, InToSet
  <1>. QED BY <1>1, <1>3, <1>4 DEF r

LEMMA RemovedAt ==
  ASSUME NEW S, NEW s \in Seq(S), Keyed(s), NEW i \in DOMAIN s
  PROVE  /\ RemoveAt(s, i) \in Seq(S) /\ Keyed(RemoveAt(s, i))
         /\ ToSet(RemoveAt(s, i)) = ToSet(s) \ {s[i]}
  <1> DEFINE a == SubSeq(s, 1, i - 1)
             b == SubSeq(s, i + 1, Len(s))
             r == a \o b
  <1>1. /\ a \in Seq(S) /\ Len(a) = i - 1
        /\ \A j \in 1 .. i - 1 : a[j] = s[j]
    OBVIOUS
  <1>2. /\ b \in Seq(S) /\ Len(b) = Len(s) - i
        /\ \A j \in 1 .. Len(s) - i : b[j] = s[i + j]
    <2>1. /\ b \in Seq(S) /\ Len(b) = Len(s) - i
          /\ \A j \in 1 .. Len(s) - (i + 1) + 1 : b[j] = s[(i + 1) + j - 1]
      BY SubSeqProperties
    <2>. QED BY <2>1
  <1>3. RemoveAt(s, i) = r BY DEF RemoveAt
  <1> HIDE DEF a, b
  <1>4. r \in Seq(S) /\ Len(r) = Len(s) - 1 BY <1>1, <1>2, ConcatProperties
  <1>5. \A j \in 1 .. i - 1 : r[j] = s[j] BY <1>1, <1>2
  <1>6. \A j \in i + 1 .. Len(s) : r[j - 1] = s[j]
    <2>1. ASSUME NEW j \in i + 1 .. Len(s) PROVE r[j - 1] = s[j]
      <3>1. r[j - 1] = b[j - i]
        <4>1. a \in Seq(S) /\ b \in Seq(S) BY <1>1, <1>2
        <4>2. j - i \in 1 .. Len(b) /\ Len(a) + (j - i) = j - 1 BY <1>1, <1>2
        <4>3. r[Len(a) + (j - i)] = b[j - i] BY <4>1, <4>2, JoinedEnd
        <4>. QED BY <4>2, <4>3
      <3>2. b[j - i] = s[i + (j - i)] BY <1>2
      <3>. QED BY <3>1, <3>2
    <2>. QED BY <2>1
  <1> HIDE DEF r
  <1>7. ASSUME NEW j \in 1 .. Len(s) - 1
        PROVE  \E k \in 1 .. Len(s) : r[j] = s[k] /\ k # i /\ k = IF j < i THEN j ELSE j + 1
    <2>1. CASE j < i BY <1>5, <2>1
    <2>2. CASE j >= i
      <3>1. j + 1 \in i + 1 .. Len(s) /\ (j + 1) - 1 = j BY <2>2
      <3>. QED BY <1>6, <2>2, <3>1
    <2>. QED BY <2>1, <2>2
  <1>8. Keyed(r)
    <2>1. SUFFICES ASSUME NEW j \in 1 .. Len(s) - 1, NEW k \in 1 .. Len(s) - 1, j # k
                   PROVE  r[j].id # r[k].id
      BY <1>4 DEF Keyed
    <2>2. PICK m \in 1 .. Len(s) : r[j] = s[m] /\ m = IF j < i THEN j ELSE j + 1
      BY <1>7
    <2>3. PICK n \in 1 .. Len(s) : r[k] = s[n] /\ n = IF k < i THEN k ELSE k + 1
      BY <1>7
    <2>4. m # n BY <2>1, <2>2, <2>3
    <2>. QED BY <2>2, <2>3, <2>4 DEF Keyed
  <1>9. ASSUME NEW x PROVE x \in ToSet(r) <=> x \in ToSet(s) \ {s[i]}
    <2>1. ASSUME NEW k \in 1 .. Len(s), k # i PROVE \E j \in 1 .. Len(s) - 1 : r[j] = s[k]
      <3>1. CASE k < i BY <1>5, <3>1
      <3>2. CASE k > i
        <4>1. k - 1 \in 1 .. Len(s) - 1 /\ r[k - 1] = s[k] BY <1>6, <3>2
        <4>. QED BY <4>1
      <3>. QED BY <2>1, <3>1, <3>2
    <2>2. \A j \in 1 .. Len(s) - 1 : \E k \in 1 .. Len(s) : k # i /\ r[j] = s[k] BY <1>7
    <2>3. \A y : y \in ToSet(r) <=> \E j \in 1 .. Len(s) - 1 : r[j] = y
      BY <1>4, InToSet
    <2>4. \A y : y \in ToSet(s) <=> \E j \in 1 .. Len(s) : s[j] = y
      BY InToSet
    <2>5. \A k \in 1 .. Len(s) : k # i => s[k] # s[i] BY DEF Keyed
    <2>6. x \in ToSet(r) => x \in ToSet(s) /\ x # s[i] BY <2>2, <2>3, <2>4, <2>5
    <2>7. x \in ToSet(s) /\ x # s[i] => x \in ToSet(r)
      <3>1. SUFFICES ASSUME x \in ToSet(s), x # s[i] PROVE x \in ToSet(r) OBVIOUS
      <3>2. PICK k \in 1 .. Len(s) : s[k] = x BY <2>4, <3>1
      <3>3. PICK j \in 1 .. Len(s) - 1 : r[j] = s[k] BY <2>1, <3>1, <3>2
      <3>. QED BY <2>3, <3>2, <3>3
    <2>. QED BY <2>6, <2>7
  <1>. QED BY <1>3, <1>4, <1>8, <1>9

(* r is s with e in the place of its i-th member.                           *)
Replaces(r, s, i, e) ==
  /\ DOMAIN r = DOMAIN s /\ r[i] = e
  /\ \A j \in DOMAIN s : j # i => r[j] = s[j]

LEMMA ReplacedAt ==
  ASSUME NEW S, NEW s \in Seq(S), Keyed(s), NEW i \in DOMAIN s, NEW e \in S, e.id = s[i].id,
         NEW r \in Seq(S), Replaces(r, s, i, e)
  PROVE  Keyed(r) /\ ToSet(r) = (ToSet(s) \ {s[i]}) \cup {e}
  <1>1. /\ DOMAIN r = DOMAIN s /\ r[i] = e
        /\ \A j \in DOMAIN s : j # i => r[j] = s[j]
    BY DEF Replaces
  <1>2. Keyed(r) BY <1>1 DEF Keyed
  <1>3. ASSUME NEW x PROVE x \in ToSet(r) <=> x \in (ToSet(s) \ {s[i]}) \cup {e}
    <2>1. \A j \in DOMAIN s : j # i => s[j] # s[i] BY DEF Keyed
    <2>. QED BY <1>1, <2>1, InToSet
  <1>. QED BY <1>2, <1>3

LEMMA Reversed ==
  ASSUME NEW S, NEW s \in Seq(S), Keyed(s)
  PROVE  Reverse(s) \in Seq(S) /\ Keyed(Reverse(s)) /\ ToSet(Reverse(s)) = ToSet(s)
  <1> DEFINE r == Reverse(s)
  <1>1. /\ r \in Seq(S) /\ Len(r) = Len(s)
        /\ \A j \in 1 .. Len(s) : r[j] = s[(Len(s) - j) + 1]
    BY DEF Reverse
  <1>2. \A j \in 1 .. Len(s) : (Len(s) - j) + 1 \in 1 .. Len(s) OBVIOUS
  <1> HIDE DEF r
  <1>3. Keyed(r)
    <2>1. SUFFICES ASSUME NEW i \in 1 .. Len(s), NEW j \in 1 .. Len(s), r[i].id = r[j].id
                   PROVE  i = j
      BY <1>1 DEF Keyed
    <2>2. i = j
      <3>1. s[(Len(s) - i) + 1].id = s[(Len(s) - j) + 1].id BY <1>1, <2>1
      <3>2. (Len(s) - i) + 1 = (Len(s) - j) + 1 BY <1>2, <3>1 DEF Keyed
      <3>. QED BY <3>2
    <2>. QED BY <2>2
  <1>4. ASSUME NEW x PROVE x \in ToSet(r) <=> x \in ToSet(s)
    <2>1. ASSUME NEW k \in 1 .. Len(s) PROVE \E j \in 1 .. Len(s) : r[j] = s[k]
      <3>1. (Len(s) - k) + 1 \in 1 .. Len(s) /\ (Len(s) - ((Len(s) - k) + 1)) + 1 = k OBVIOUS
      <3>. QED BY <1>1, <3>1
    <2>2. \A j \in 1 .. Len(s) : \E k \in 1 .. Len(s) : r[j] = s[k] BY <1>1, <1>2
    <2>3. \A y : y \in ToSet(r) <=> \E j \in 1 .. Len(s) : r[j] = y
      BY <1>1, InToSet
    <2>4. \A y : y \in ToSet(s) <=> \E j \in 1 .. Len(s) : s[j] = y
      BY InToSet
    <2>. QED BY <2>1, <2>2, <2>3, <2>4
  <1>. QED BY <1>1, <1>3, <1>4 DEF r

LEMMA AtIsIt ==
  ASSUME NEW S, NEW s \in Seq(S), Keyed(s), NEW x \in ToSet(s)
  PROVE  At(s, x.id) \in DOMAIN s /\ s[At(s, x.id)] = x
  <1>1. PICK i \in DOMAIN s : s[i] = x BY InToSet
  <1>2. At(s, x.id) \in DOMAIN s /\ s[At(s, x.id)].id = x.id BY <1>1 DEF At
  <1>. QED BY <1>1, <1>2 DEF Keyed

LEMMA FiniteSeq ==
  ASSUME NEW S, NEW s \in Seq(S)
  PROVE  IsFiniteSet(ToSet(s)) /\ IsFiniteSet(Ids(s))
  <1>1. IsFiniteSet(DOMAIN s)
    <2>1. DOMAIN s = 1 .. Len(s) /\ Len(s) \in Nat OBVIOUS
    <2>. QED BY <2>1, FS_Interval
  <1>2. IsFiniteSet(ToSet(s))
    <2> DEFINE f == [i \in DOMAIN s |-> s[i]]
    <2>1. f \in Surjection(DOMAIN s, ToSet(s)) BY DEF Surjection, ToSet
    <2>. QED BY <1>1, <2>1, FS_Surjection
  <1>3. IsFiniteSet(Ids(s))
    <2> DEFINE f == [x \in ToSet(s) |-> x.id]
    <2>1. f \in Surjection(ToSet(s), Ids(s)) BY DEF Surjection, Ids
    <2>. QED BY <1>2, <2>1, FS_Surjection
  <1>. QED BY <1>2, <1>3

-----------------------------------------------------------------------------
(* Identities and tables of credentials.                                    *)
LEMMA FreshIsFresh ==
  ASSUME NEW used, IsFiniteSet(used)
  PROVE  Fresh(used) \in Nat \ {0} /\ Fresh(used) \notin used
  <1> DEFINE n == Cardinality(used)
  <1>1. n \in Nat BY FS_CardinalityType
  <1>2. \E m \in 1 .. n + 1 : m \notin used
    <2>1. SUFFICES ASSUME 1 .. n + 1 \subseteq used PROVE FALSE OBVIOUS
    <2>2. Cardinality(1 .. n + 1) <= n BY <2>1, FS_Subset
    <2>3. Cardinality(1 .. n + 1) = n + 1 BY <1>1, FS_Interval
    <2>. QED BY <1>1, <2>2, <2>3
  <1>3. Fresh(used) \in 1 .. n + 1 /\ Fresh(used) \notin used BY <1>2 DEF Fresh
  <1>. QED BY <1>1, <1>3

(* A credential that is there before and after is the same.                 *)
Keeps(old, new) == \A n \in DOMAIN old \cap DOMAIN new : new[n] = old[n]

LEMMA WithIs ==
  ASSUME NEW c, IsTable(c), NEW n \in Nat, n \notin DOMAIN c, NEW v \in Secrets
  PROVE  /\ IsTable(With(c, n, v)) /\ DOMAIN With(c, n, v) = DOMAIN c \cup {n}
         /\ Keeps(c, With(c, n, v)) /\ With(c, n, v)[n] = v
  <1>1. IsFiniteSet(DOMAIN c \cup {n}) BY FS_AddElement DEF IsTable
  <1>. QED BY <1>1 DEF IsTable, With, Keeps

LEMMA WithoutIs ==
  ASSUME NEW c, IsTable(c), NEW n
  PROVE  /\ IsTable(Without(c, n)) /\ DOMAIN Without(c, n) = DOMAIN c \ {n}
         /\ Keeps(c, Without(c, n))
  <1>1. IsFiniteSet(DOMAIN c \ {n}) BY FS_Subset DEF IsTable
  <1>. QED BY <1>1 DEF IsTable, Without, Keeps

(* What is left of a table when the credential n is dropped unless used.    *)
Collected(old, new, n, used) ==
  /\ IsTable(new) /\ Keeps(old, new)
  /\ DOMAIN new = DOMAIN old \ ({n} \ used)

LEMMA CollectIs ==
  ASSUME NEW t, NEW c, IsTable(c), NEW providers, NEW n
  PROVE  Collected(c, Collect(t, c, providers, n), n,
                   planned[t] \cup {r.cred : r \in ToSet(providers)})
  <1> DEFINE used == planned[t] \cup {r.cred : r \in ToSet(providers)}
  <1>1. None \notin DOMAIN c BY CatalogAssumption DEF IsTable
  <1>2. n \in used <=> n \in planned[t] \/ \E r \in ToSet(providers) : r.cred = n OBVIOUS
  <1>3. Collect(t, c, providers, n) = IF n = None \/ n \in used THEN c ELSE Without(c, n)
    BY <1>2 DEF Collect
  <1> HIDE DEF used
  <1>4. CASE n = None \/ n \in used BY <1>1, <1>3, <1>4 DEF Keeps, Collected, used
  <1>5. CASE ~(n = None \/ n \in used)
    BY <1>3, <1>5, WithoutIs DEF Collected, used
  <1>. QED BY <1>4, <1>5

LEMMA CollectUniversalIs ==
  ASSUME NEW c, IsTable(c), NEW sources, NEW n
  PROVE  Collected(c, CollectUniversal(c, sources, n), n, {u.cred : u \in ToSet(sources)})
  <1> DEFINE used == {u.cred : u \in ToSet(sources)}
  <1>1. None \notin DOMAIN c BY CatalogAssumption DEF IsTable
  <1>2. n \in used <=> \E u \in ToSet(sources) : u.cred = n OBVIOUS
  <1>3. CollectUniversal(c, sources, n) = IF n = None \/ n \in used THEN c ELSE Without(c, n)
    BY <1>2 DEF CollectUniversal
  <1> HIDE DEF used
  <1>4. CASE n = None \/ n \in used BY <1>1, <1>3, <1>4 DEF Keeps, Collected, used
  <1>5. CASE ~(n = None \/ n \in used)
    BY <1>3, <1>5, WithoutIs DEF Collected, used
  <1>. QED BY <1>4, <1>5

-----------------------------------------------------------------------------
(* Requests and gates.                                                      *)
LEMMA OrdersAre ==
  /\ LockOrder # <<>> /\ <<"codex">> # <<>> /\ <<"claude">> # <<>>
  /\ Head(LockOrder) = "codex" /\ Tail(LockOrder) = <<"claude">>
  /\ Head(<<"codex">>) = "codex" /\ Tail(<<"codex">>) = <<>>
  /\ Head(<<"claude">>) = "claude" /\ Tail(<<"claude">>) = <<>>
  /\ <<"claude">> # LockOrder /\ <<"claude">> # <<"codex">>
  BY DEF LockOrder

LEMMA KindsOfRequest ==
  ASSUME RequestsOK, NEW q \in Requests
  PROVE  /\ request[q].at \in {"idle", "locking", "prepared", "previewed", "done"}
         /\ request[q].at = "idle" <=> request[q] = Idle
         /\ request[q].at = "done" <=> request[q] = Done
         /\ request[q].at \in {"locking", "prepared"} <=> request[q] \in Acting
         /\ request[q].at = "previewed" <=> request[q] \in Previewed
         /\ request[q].at # "idle" => request[q].id \in Nat
  <1>1. request[q] \in {Idle, Done} \cup Acting \cup Previewed BY DEF RequestsOK
  <1>. QED BY <1>1 DEF Idle, Done, Acting, Previewed

LEMMA ReleasedIs ==
  ASSUME GatesInv, NEW q \in Requests, Release(q)
  PROVE  GatesInv'
  <1>1. RequestsOK' BY DEF GatesInv, RequestsOK, Release
  <1>2. HeldInOrder'
    <2>1. ASSUME NEW t \in Targets, gate'[t] # None
          PROVE  gate'[t] = gate[t] /\ gate[t] \in Requests /\ gate[t] # q
      BY <2>1 DEF GatesInv, RequestsOK, Release
    <2>2. \A p \in Requests : p # q => request'[p] = request[p]
      BY DEF GatesInv, RequestsOK, Release
    <2>. QED BY <2>1, <2>2 DEF GatesInv, HeldInOrder
  <1>3. ActivationsHold'
    <2>1. request'[q] = Done /\ Done \notin Acting
      BY DEF GatesInv, RequestsOK, Release, Done, Acting
    <2>2. \A p \in Requests : p # q => request'[p] = request[p]
      BY DEF GatesInv, RequestsOK, Release
    <2>3. \A p \in Requests, t \in Targets : p # q /\ gate[t] = p => gate'[t] = p
      BY DEF Release
    <2>. QED BY <2>1, <2>2, <2>3 DEF GatesInv, ActivationsHold
  <1>. QED BY <1>1, <1>2, <1>3 DEF GatesInv

(* A request that is not acting has no gate: one that starts disturbs none. *)
LEMMA StartedIs ==
  ASSUME GatesInv, NEW q \in Requests, request[q] = Idle, gate' = gate,
         NEW r \in Acting \cup Previewed, request' = [request EXCEPT ![q] = r],
         r \in Acting => r.at = "locking" /\ (r.kind.act = "activate" => r.want # <<>>)
  PROVE  GatesInv'
  <1>1. RequestsOK' BY DEF GatesInv, RequestsOK
  <1>2. \A p \in Requests : p # q => request'[p] = request[p]
      BY DEF GatesInv, RequestsOK
  <1>3. request'[q] = r BY DEF GatesInv, RequestsOK
  <1>4. \A t \in Targets : gate[t] # None => gate[t] \in Requests /\ gate[t] # q
    <2>1. Idle \notin Acting BY DEF Idle, Acting
    <2>. QED BY <2>1 DEF GatesInv, RequestsOK, HeldInOrder
  <1>5. HeldInOrder' BY <1>2, <1>4 DEF GatesInv, HeldInOrder
  <1>6. ActivationsHold' BY <1>2, <1>3 DEF GatesInv, ActivationsHold
  <1>. QED BY <1>1, <1>5, <1>6 DEF GatesInv

LEMMA LockKeepsOrder ==
  ASSUME GatesInv, NEW q \in Requests, Lock(q)
  PROVE  GatesInv'
  <1> DEFINE t == Head(request[q].want)
             r == [request[q] EXCEPT !.want = Tail(@)]
  <1>1. request[q] \in Acting /\ request[q].at = "locking" /\ request[q].want # <<>>
    BY KindsOfRequest DEF GatesInv, Lock
  <1>2. request[q].want \in {<<"codex">>, <<"claude">>, LockOrder} BY <1>1 DEF Acting
  <1>3. /\ t \in Targets /\ Tail(request[q].want) \in {<<>>, <<"claude">>}
        /\ Tail(request[q].want) # <<>> => t = "codex" /\ Tail(request[q].want) = <<"claude">>
    BY <1>2, OrdersAre DEF Targets
  <1>4. r \in Acting /\ r.want = Tail(request[q].want) /\ r.at = "locking"
    BY <1>1, <1>3 DEF Acting
  <1>5. request' = [request EXCEPT ![q] = r] /\ gate[t] = None /\ gate' = [gate EXCEPT ![t] = q]
    BY DEF Lock
  <1>6. RequestsOK' BY <1>3, <1>4, <1>5 DEF GatesInv, RequestsOK
  <1>7. /\ request'[q] = r /\ \A p \in Requests : p # q => request'[p] = request[p]
        /\ gate'[t] = q /\ \A x \in Targets : x # t => gate'[x] = gate[x]
    BY <1>3, <1>5 DEF GatesInv, RequestsOK
  <1> HIDE DEF t, r
  <1>8. \A x \in Targets : gate[x] = q => x = "codex" /\ request[q].want = <<"claude">>
    <2>1. q # None BY CatalogAssumption
    <2>. QED BY <1>1, <2>1 DEF GatesInv, HeldInOrder
  <1>9. HeldInOrder'
    <2>1. SUFFICES ASSUME NEW x \in Targets, gate'[x] # None
                   PROVE  /\ request'[gate'[x]] \in Acting
                          /\ request'[gate'[x]].at = "locking" /\ request'[gate'[x]].want # <<>> =>
                               x = "codex" /\ request'[gate'[x]].want = <<"claude">>
      BY DEF HeldInOrder
    <2>2. CASE x = t BY <1>3, <1>4, <1>7, <2>2
    <2>3. CASE x # t /\ gate[x] = q
      <3>1. r.want = <<>> BY <1>4, <1>8, <2>3, OrdersAre
      <3>. QED BY <1>4, <1>7, <2>3, <3>1
    <2>4. CASE x # t /\ gate[x] # q
      <3>1. gate'[x] = gate[x] /\ gate[x] \in Requests
          BY <1>7, <2>1, <2>4 DEF GatesInv, RequestsOK
      <3>. QED BY <1>7, <2>1, <2>4, <3>1 DEF GatesInv, HeldInOrder
    <2>. QED BY <2>2, <2>3, <2>4
  <1>10. ActivationsHold'
    <2>1. SUFFICES ASSUME NEW p \in Requests, request'[p] \in Acting
                   PROVE  /\ request'[p].at = "prepared" =>
                               request'[p].kind.act = "activate" /\ request'[p].want = <<>>
                          /\ request'[p].kind.act = "activate" /\ request'[p].want = <<>> =>
                               \E x \in Targets : gate'[x] = p
      BY DEF ActivationsHold
    <2>2. CASE p = q BY <1>3, <1>4, <1>7, <2>2
    <2>3. CASE p # q
      <3>1. \A x \in Targets : gate[x] = p => gate'[x] = p
        <4>1. p # None BY CatalogAssumption
        <4>. QED BY <1>5, <1>7, <4>1
      <3>. QED BY <1>7, <2>1, <2>3, <3>1 DEF GatesInv, ActivationsHold
    <2>. QED BY <2>2, <2>3
  <1>. QED BY <1>6, <1>9, <1>10 DEF GatesInv

LEMMA PrepareKeepsOrder ==
  ASSUME GatesInv, NEW q \in Requests, Prepare(q)
  PROVE  GatesInv'
  <1> DEFINE r == [request[q] EXCEPT !.at = "prepared"]
  <1>1. /\ request[q] \in Acting /\ request[q].at = "locking" /\ request[q].want = <<>>
        /\ request[q].kind.act = "activate"
    BY KindsOfRequest DEF GatesInv, Prepare, Locked
  <1>2. /\ r \in Acting /\ r.want = <<>> /\ r.kind = request[q].kind
        /\ request' = [request EXCEPT ![q] = r] /\ gate' = gate
    BY <1>1 DEF Acting, Prepare
  <1>3. RequestsOK' BY <1>2 DEF GatesInv, RequestsOK
  <1>4. request'[q] = r /\ \A p \in Requests : p # q => request'[p] = request[p]
    BY <1>2 DEF GatesInv, RequestsOK
  <1> HIDE DEF r
  <1>5. HeldInOrder'
    <2>1. \A t \in Targets : gate[t] # None => gate[t] \in Requests
        BY DEF GatesInv, RequestsOK
    <2>2. \A t \in Targets : gate[t] = q => request'[gate'[t]] = r BY <1>2, <1>4
    <2>3. \A t \in Targets : gate[t] # None /\ gate[t] # q => request'[gate'[t]] = request[gate[t]]
      BY <1>2, <1>4, <2>1
    <2>4. r.at = "prepared" BY <1>1 DEF r, Acting
    <2>. QED BY <1>2, <2>2, <2>3, <2>4 DEF GatesInv, HeldInOrder
  <1>6. ActivationsHold' BY <1>1, <1>2, <1>4 DEF GatesInv, ActivationsHold
  <1>. QED BY <1>3, <1>5, <1>6 DEF GatesInv

LEMMA NobodyWaitsInCircles ==
  ASSUME GatesInv
  PROVE  NoCircularWait
  <1>1. SUFFICES ASSUME NEW S \in (SUBSET Requests) \ {{}},
                        \A q \in S : /\ request[q].at = "locking" /\ request[q].want # <<>>
                                     /\ gate[Head(request[q].want)] \in S
                 PROVE  FALSE
    BY DEF NoCircularWait
  <1>2. ASSUME NEW q \in S
        PROVE  /\ Head(request[q].want) \in Targets
               /\ gate[Head(request[q].want)] \in S /\ gate[Head(request[q].want)] # None
    <2>1. request[q] \in Acting BY <1>1, KindsOfRequest DEF GatesInv
    <2>2. request[q].want \in {<<"codex">>, <<"claude">>, LockOrder}
        BY <1>1, <2>1 DEF Acting
    <2>3. Head(request[q].want) \in Targets BY <2>2, OrdersAre DEF Targets
    <2>. QED BY <1>1, <2>3, CatalogAssumption
  <1>3. PICK q \in S : TRUE OBVIOUS
  <1>4. PICK h \in S : h = gate[Head(request[q].want)] BY <1>2
  <1>5. request[h].want = <<"claude">> BY <1>1, <1>2, <1>4 DEF GatesInv, HeldInOrder
  <1>6. Head(request[h].want) = "claude" BY <1>5, OrdersAre
  <1>7. "claude" = "codex" BY <1>1, <1>2, <1>6 DEF GatesInv, HeldInOrder
  <1>. QED BY <1>7

-----------------------------------------------------------------------------
(* The store.                                                               *)
LEMMA NoneIsNothing ==
  None \notin Nat /\ None \notin Secrets /\ None \notin Requests
  BY CatalogAssumption

LEMMA RequestIds ==
  LET busy == {p \in Requests : request[p].at # "idle"} IN
  IsFiniteSet({request[q].id : q \in busy})
  <1> DEFINE busy == {p \in Requests : request[p].at # "idle"}
             f == [q \in busy |-> request[q].id]
  <1>1. IsFiniteSet(busy) BY CatalogAssumption, FS_Subset
  <1>2. f \in Surjection(busy, {request[q].id : q \in busy}) BY DEF Surjection
  <1>. QED BY <1>1, <1>2, FS_Surjection

LEMMA NewIdIs ==
  ASSUME StoreOK, NEW t \in Targets
  PROVE  NewId(t) \in Nat \ {0} /\ NewId(t) \notin Ids(rows[t])
  <1> DEFINE busy == {request[q].id : q \in {p \in Requests : request[p].at # "idle"}}
             routed == {route[t].current, route[t].snapshot} \ {None}
             used == Ids(rows[t]) \cup Ids(draft[t].members) \cup ToSet(route[t].plan)
                     \cup routed \cup busy
  <1>1. IsFiniteSet(Ids(rows[t]))
    <2>1. rows[t] \in Seq(Providers) BY DEF StoreOK, RowsOK
    <2>. QED BY <2>1, FiniteSeq
  <1>2. IsFiniteSet(Ids(draft[t].members))
    <2>1. draft[t].members \in Seq([id : Nat, rev : Nat])
        BY DEF StoreOK, PlansOK, Drafts
    <2>. QED BY <2>1, FiniteSeq
  <1>3. IsFiniteSet(ToSet(route[t].plan))
    <2>1. route[t].plan \in Seq(Nat) BY DEF StoreOK, RoutesOK, Routes
    <2>. QED BY <2>1, FiniteSeq
  <1>4. IsFiniteSet(routed)
    <2>1. IsFiniteSet({route[t].current} \cup {route[t].snapshot})
      BY FS_Singleton, FS_AddElement
    <2>2. routed \subseteq {route[t].current} \cup {route[t].snapshot} OBVIOUS
    <2>. QED BY <2>1, <2>2, FS_Subset
  <1>5. IsFiniteSet(busy) BY RequestIds
  <1> HIDE DEF busy, routed
  <1>6. IsFiniteSet(used) BY <1>1, <1>2, <1>3, <1>4, <1>5, FS_Union
  <1>7. NewId(t) = Fresh(used) BY DEF NewId, busy, routed
  <1>. QED BY <1>6, <1>7, FreshIsFresh

LEMMA NewUniversalIs ==
  ASSUME StoreOK
  PROVE  NewUniversal \in Nat /\ NewUniversal \notin Ids(universals)
  <1> DEFINE busy == {request[q].id : q \in {p \in Requests : request[p].at # "idle"}}
             used == Ids(universals) \cup busy
  <1>1. IsFiniteSet(Ids(universals)) BY FiniteSeq DEF StoreOK, SourcesOK
  <1>2. IsFiniteSet(busy) BY RequestIds
  <1>3. IsFiniteSet(used) BY <1>1, <1>2, FS_Union
  <1>4. NewUniversal = Fresh(used) BY DEF NewUniversal
  <1>. QED BY <1>3, <1>4, FreshIsFresh

LEMMA NewSecretIs ==
  ASSUME StoreOK, NEW t \in Targets
  PROVE  /\ NewCredential(t) \in Nat /\ NewCredential(t) \notin DOMAIN creds[t]
         /\ NewSecret(t, None) = creds[t]
         /\ \A s \in Secrets :
              /\ IsTable(NewSecret(t, s)) /\ Keeps(creds[t], NewSecret(t, s))
              /\ DOMAIN NewSecret(t, s) = DOMAIN creds[t] \cup {NewCredential(t)}
              /\ NewSecret(t, s)[NewCredential(t)] = s
  <1>1. IsTable(creds[t]) BY DEF StoreOK, CredsOK
  <1>2. NewCredential(t) \in Nat /\ NewCredential(t) \notin DOMAIN creds[t]
    BY <1>1, FreshIsFresh DEF IsTable, NewCredential
  <1>3. ASSUME NEW s \in Secrets PROVE NewSecret(t, s) = With(creds[t], NewCredential(t), s)
    BY NoneIsNothing DEF NewSecret
  <1>4. NewSecret(t, None) = creds[t] BY DEF NewSecret
  <1>. QED BY <1>1, <1>2, <1>3, <1>4, WithIs

LEMMA NewUniversalSecretIs ==
  ASSUME StoreOK
  PROVE  /\ Fresh(DOMAIN ucreds) \in Nat /\ Fresh(DOMAIN ucreds) \notin DOMAIN ucreds
         /\ NewUniversalSecret(None) = ucreds
         /\ \A s \in Secrets :
              /\ IsTable(NewUniversalSecret(s)) /\ Keeps(ucreds, NewUniversalSecret(s))
              /\ DOMAIN NewUniversalSecret(s) = DOMAIN ucreds \cup {Fresh(DOMAIN ucreds)}
              /\ NewUniversalSecret(s)[Fresh(DOMAIN ucreds)] = s
  <1>1. IsTable(ucreds) BY DEF StoreOK, SourcesOK
  <1>2. Fresh(DOMAIN ucreds) \in Nat /\ Fresh(DOMAIN ucreds) \notin DOMAIN ucreds
    BY <1>1, FreshIsFresh DEF IsTable
  <1>3. ASSUME NEW s \in Secrets
        PROVE  NewUniversalSecret(s) = With(ucreds, Fresh(DOMAIN ucreds), s)
    BY NoneIsNothing DEF NewUniversalSecret
  <1>4. NewUniversalSecret(None) = ucreds BY DEF NewUniversalSecret
  <1>. QED BY <1>1, <1>2, <1>3, <1>4, WithIs

(* A change of the revisions alone leaves where a target routes to.         *)
SameRoutes(old, new) ==
  \A t \in Targets : /\ new[t].current = old[t].current /\ new[t].snapshot = old[t].snapshot
                     /\ new[t].plan = old[t].plan

LEMMA BumpIs ==
  ASSUME StoreOK, NEW t \in Targets
  PROVE  Bump(t) \in [Targets -> Routes] /\ SameRoutes(route, Bump(t))
  <1> DEFINE n == [route[t] EXCEPT !.rev = route[t].rev + 1, !.seq = route[t].seq + 1]
  <1>1. route \in [Targets -> Routes] /\ route[t] \in Routes BY DEF StoreOK, RoutesOK
  <1>2. /\ n \in Routes
        /\ n.current = route[t].current /\ n.snapshot = route[t].snapshot /\ n.plan = route[t].plan
    <2>1. route[t].rev + 1 \in Nat /\ route[t].seq + 1 \in Nat BY <1>1 DEF Routes
    <2>2. \A x, y \in Nat : [route[t] EXCEPT !.rev = x, !.seq = y] \in Routes
        BY <1>1 DEF Routes
    <2>3. n \in Routes BY <2>1, <2>2
    <2>. QED BY <1>1, <2>3 DEF Routes
  <1>3. Bump(t) = [route EXCEPT ![t] = n] BY <1>1 DEF Bump
  <1> HIDE DEF n
  <1>. QED BY <1>1, <1>2, <1>3 DEF SameRoutes

LEMMA BumpCatalogIs ==
  ASSUME StoreOK, BumpCatalog
  PROVE  catalog' \in [rev : Nat, seq : Nat]
  BY DEF StoreOK, RoutesOK, BumpCatalog

-----------------------------------------------------------------------------
(* What the views show.                                                     *)
TargetFresh(t) == TargetView(t)' # TargetView(t) => route'[t].seq > route[t].seq
CatalogFresh == CatalogContent' # CatalogContent => catalog'.seq > catalog.seq
ViewsFresh == (\A t \in Targets : TargetFresh(t)) /\ CatalogFresh

(* A target's own parts stay, and the generated providers of all.           *)
SameTarget(t) ==
  /\ rows'[t] = rows[t] /\ draft'[t] = draft[t]
  /\ route'[t].current = route[t].current /\ route'[t].snapshot = route[t].snapshot
  /\ route'[t].plan = route[t].plan
SameGenerated ==
  \A x \in Targets : \A p : p.owner # None => (p \in ToSet(rows'[x]) <=> p \in ToSet(rows[x]))

LEMMA UniversalIs ==
  ASSUME StoreOK, NEW id \in Ids(universals)
  PROVE  /\ Universal(id) \in ToSet(universals) /\ Universal(id) \in Sources /\ Universal(id).id = id
         /\ At(universals, id) \in DOMAIN universals
         /\ universals[At(universals, id)] = Universal(id)
  <1>1. universals \in Seq(Sources) /\ Keyed(universals) BY DEF StoreOK, SourcesOK
  <1>2. PICK x \in ToSet(universals) : x.id = id BY DEF Ids
  <1>3. At(universals, x.id) \in DOMAIN universals /\ universals[At(universals, x.id)] = x
    BY <1>1, AtIsIt
  <1>4. Universal(id) = x BY <1>2, <1>3 DEF Universal
  <1>. QED BY <1>1, <1>2, <1>3, <1>4, InToSet

LEMMA SourceIsOne ==
  ASSUME StoreOK, NEW a \in ToSet(universals), NEW b \in ToSet(universals), a.id = b.id
  PROVE  a = b
  BY DEF StoreOK, SourcesOK, Keyed, ToSet

LEMMA TargetUnmoved ==
  ASSUME NEW t \in Targets, SameTarget(t),
         \A i \in DOMAIN rows[t] : rows[t][i].owner # None =>
            (RowCurrent(t, rows[t][i])' <=> RowCurrent(t, rows[t][i]))
  PROVE  TargetView(t)' = TargetView(t)
  <1> DEFINE s == rows[t]
  <1>1. \A i \in DOMAIN s :
          (s[i].owner # None => RowCurrent(t, s[i]))' = (s[i].owner # None => RowCurrent(t, s[i]))
    BY DEF SameTarget
  <1>2. \A i \in DOMAIN s : Referenced(t, s[i].id)' = Referenced(t, s[i].id)
    BY DEF SameTarget, Referenced
  <1>. QED BY <1>1, <1>2 DEF SameTarget, TargetView

LEMMA RowCurrentIs ==
  ASSUME StoreOK, NEW u \in ToSet(universals), NEW t, NEW r, r.owner = u.id
  PROVE  RowCurrent(t, r) <=> r.src = u.rev /\ r.ov = u.targets[t].ov
  <1>1. u.id \in Ids(universals) BY DEF Ids
  <1>2. Universal(u.id) = u BY <1>1, UniversalIs, SourceIsOne
  <1>. QED BY <1>2 DEF RowCurrent

LEMMA RowCurrentNow ==
  ASSUME SourcesOK', NEW u \in ToSet(universals'), NEW t, NEW r, r.owner = u.id
  PROVE  RowCurrent(t, r)' <=> r.src = u.rev /\ r.ov = u.targets[t].ov
  <1>1. universals' \in Seq(Sources) /\ Keyed(universals') BY DEF SourcesOK
  <1>2. universals'[At(universals', u.id)] = u BY <1>1, AtIsIt
  <1>. QED BY <1>2 DEF RowCurrent, Universal

LEMMA CatalogUnmoved ==
  ASSUME UNCHANGED universals,
         \A u \in ToSet(universals) : \A t \in Targets :
           /\ GeneratedBy(u.id, t)' = GeneratedBy(u.id, t)
           /\ \A r \in GeneratedBy(u.id, t) :
                /\ (r.id = route'[t].current) = (r.id = route[t].current)
                /\ (r.id = route'[t].snapshot) = (r.id = route[t].snapshot)
  PROVE  CatalogContent' = CatalogContent
  <1> DEFINE refs(u, t) ==
        {<<r.id, r.id = route[t].current, r.id = route[t].snapshot>> : r \in GeneratedBy(u.id, t)}
  <1>1. ASSUME NEW i \in DOMAIN universals, NEW t \in Targets
        PROVE  /\ refs(universals[i], t)' = refs(universals[i], t)
               /\ Current(universals[i], t)' = Current(universals[i], t)
    <2>1. universals[i] \in ToSet(universals) BY DEF ToSet
    <2>2. GeneratedBy(universals[i].id, t)' = GeneratedBy(universals[i].id, t) BY <2>1
    <2>3. Current(universals[i], t)' = Current(universals[i], t) BY <2>2 DEF Current
    <2>4. refs(universals[i], t)' = refs(universals[i], t) BY <2>1, <2>2
    <2>. QED BY <2>3, <2>4
  <1>. QED BY <1>1 DEF CatalogContent

LEMMA SameGeneratedIs ==
  ASSUME StoreOK, SameGenerated, NEW u \in ToSet(universals), NEW t \in Targets
  PROVE  GeneratedBy(u.id, t)' = GeneratedBy(u.id, t)
  <1>1. u \in Sources BY InToSet DEF StoreOK, SourcesOK
  <1>2. u.id # None BY <1>1, NoneIsNothing DEF Sources
  <1>. QED BY <1>2 DEF SameGenerated, GeneratedBy

(* Whatever becomes of one target alone is shown by a newer view of it.     *)
LEMMA OneTargetShows ==
  ASSUME UNCHANGED universals, NEW t \in Targets, route'[t].seq > route[t].seq,
         \A x \in Targets : x # t => SameTarget(x)
  PROVE  \A x \in Targets : TargetFresh(x)
  <1>1. ASSUME NEW x \in Targets, x # t PROVE TargetFresh(x)
    <2>1. \A i \in DOMAIN rows[x] : RowCurrent(x, rows[x][i])' <=> RowCurrent(x, rows[x][i])
      BY <1>1 DEF RowCurrent, Universal, SameTarget
    <2>. QED BY <1>1, <2>1, TargetUnmoved DEF TargetFresh
  <1>. QED BY <1>1 DEF TargetFresh

LEMMA CatalogStays ==
  ASSUME StoreOK, UNCHANGED universals, SameGenerated, SameRoutes(route, route')
  PROVE  CatalogFresh
  <1>1. ASSUME NEW u \in ToSet(universals), NEW t \in Targets
        PROVE  /\ GeneratedBy(u.id, t)' = GeneratedBy(u.id, t)
               /\ \A r \in GeneratedBy(u.id, t) :
                    /\ (r.id = route'[t].current) = (r.id = route[t].current)
                    /\ (r.id = route'[t].snapshot) = (r.id = route[t].snapshot)
    BY SameGeneratedIs DEF SameRoutes
  <1>. QED BY <1>1, CatalogUnmoved DEF CatalogFresh

LEMMA BumpIsNewer ==
  ASSUME StoreOK, NEW t \in Targets
  PROVE  /\ Bump(t)[t].seq > route[t].seq
         /\ \A x \in Targets : x # t => Bump(t)[x] = route[x]
  <1>1. route \in [Targets -> Routes] /\ route[t] \in Routes BY DEF StoreOK, RoutesOK
  <1>2. route[t].seq \in Nat /\ Bump(t)[t].seq = route[t].seq + 1 BY <1>1 DEF Routes, Bump
  <1>. QED BY <1>1, <1>2 DEF Bump

(* A change of one target that generates nothing shows.                     *)
LEMMA OwnChangeShows ==
  ASSUME StoreOK, NEW t \in Targets, NEW r, rows' = [rows EXCEPT ![t] = r],
         \A p : p.owner # None => (p \in ToSet(r) <=> p \in ToSet(rows[t])),
         route' = Bump(t), UNCHANGED <<universals, catalog>>,
         \A x \in Targets : x # t => draft'[x] = draft[x]
  PROVE  ViewsFresh
  <1>1. rows'[t] = r /\ \A x \in Targets : x # t => rows'[x] = rows[x]
    BY DEF StoreOK, RowsOK
  <1>2. SameRoutes(route, route') BY BumpIs
  <1>3. SameGenerated BY <1>1 DEF SameGenerated
  <1>4. \A x \in Targets : x # t => SameTarget(x)
    BY <1>1, BumpIsNewer DEF SameTarget
  <1>5. route'[t].seq > route[t].seq BY BumpIsNewer
  <1>. QED BY <1>2, <1>3, <1>4, <1>5, OneTargetShows, CatalogStays DEF ViewsFresh

LEMMA RowsStayAndShow ==
  ASSUME StoreOK, NEW t \in Targets, UNCHANGED <<rows, universals, catalog>>, route' = Bump(t),
         \A x \in Targets : x # t => draft'[x] = draft[x]
  PROVE  ViewsFresh
  <1>1. rows' = [rows EXCEPT ![t] = rows[t]] BY DEF StoreOK, RowsOK
  <1>. QED BY <1>1, OwnChangeShows

LEMMA StoreStaysAndShows ==
  ASSUME UNCHANGED store
  PROVE  ViewsFresh
  <1>1. UNCHANGED <<rows, creds, universals, ucreds, catalog, route, draft, planned>>
    BY DEF store
  <1>2. \A t \in Targets : TargetView(t)' = TargetView(t)
    <2>1. ASSUME NEW t \in Targets PROVE TargetView(t)' = TargetView(t)
      <3>1. \A i \in DOMAIN rows[t] : RowCurrent(t, rows[t][i])' <=> RowCurrent(t, rows[t][i])
        BY <1>1 DEF RowCurrent, Universal
      <3>2. SameTarget(t) BY <1>1 DEF SameTarget
      <3>. QED BY <3>1, <3>2, TargetUnmoved
    <2>. QED BY <2>1
  <1>3. CatalogContent' = CatalogContent
    <2>1. \A u, t : GeneratedBy(u, t)' = GeneratedBy(u, t) BY <1>1 DEF GeneratedBy
    <2>. QED BY <1>1, <2>1, CatalogUnmoved
  <1>. QED BY <1>2, <1>3 DEF ViewsFresh, TargetFresh, CatalogFresh

(* A change of the sources is shown by a newer catalog, and by a newer view *)
(* of each target of which a generated provider became current or stopped   *)
(* being it.                                                                *)
AsCurrent(t, p, u, w) ==
  p.src = w.rev /\ p.ov = w.targets[t].ov <=> p.src = u.rev /\ p.ov = u.targets[t].ov

StillShown(t) ==
  /\ SameTarget(t)
  /\ \A p \in ToSet(rows[t]) : \A u \in ToSet(universals) : p.owner = u.id =>
       \E w \in ToSet(universals') : w.id = u.id /\ AsCurrent(t, p, u, w)

LEMMA SourcesShow ==
  ASSUME StoreOK, BooksOK, SourcesOK', BumpCatalog,
         \A t \in Targets : route'[t].seq > route[t].seq \/ StillShown(t)
  PROVE  ViewsFresh
  <1>1. ASSUME NEW t \in Targets, StillShown(t) PROVE TargetView(t)' = TargetView(t)
    <2>1. ASSUME NEW i \in DOMAIN rows[t], rows[t][i].owner # None
          PROVE  RowCurrent(t, rows[t][i])' <=> RowCurrent(t, rows[t][i])
      <3>1. PICK p \in ToSet(rows[t]) : p = rows[t][i] BY DEF ToSet
      <3>2. PICK u \in ToSet(universals) : u.id = p.owner BY <2>1, <3>1 DEF BooksOK, Owned
      <3>3. PICK w \in ToSet(universals') : w.id = u.id /\ AsCurrent(t, p, u, w)
        BY <1>1, <3>2 DEF StillShown
      <3>4. RowCurrent(t, p) <=> p.src = u.rev /\ p.ov = u.targets[t].ov
        BY <3>2, RowCurrentIs
      <3>5. RowCurrent(t, p)' <=> p.src = w.rev /\ p.ov = w.targets[t].ov
        BY <3>2, <3>3, RowCurrentNow
      <3>6. rows'[t][i] = p BY <1>1, <3>1 DEF StillShown, SameTarget
      <3>. QED BY <3>1, <3>3, <3>4, <3>5, <3>6 DEF AsCurrent
    <2>. QED BY <1>1, <2>1, TargetUnmoved DEF StillShown
  <1>2. catalog'.seq > catalog.seq BY DEF StoreOK, RoutesOK, BumpCatalog
  <1>. QED BY <1>1, <1>2 DEF ViewsFresh, TargetFresh, CatalogFresh

-----------------------------------------------------------------------------
(* Changes of one target.                                                   *)
Routable(t, id) ==
  id \in ({route[t].current, route[t].snapshot} \ {None}) \cup ToSet(route[t].plan)

LEMMA RoutesKept ==
  ASSUME RoutesExist, SameRoutes(route, route'),
         \A t \in Targets : \A id \in Ids(rows[t]) : Routable(t, id) => id \in Ids(rows'[t])
  PROVE  RoutesExist'
  BY DEF RoutesExist, SameRoutes, Routable

LEMMA SecretKept ==
  ASSUME NEW old, NEW new, Keeps(old, new), NEW n,
         n = None \/ n \in DOMAIN old \cap DOMAIN new
  PROVE  Secret(new, n) = Secret(old, n)
  BY DEF Keeps, Secret

LEMMA CredIsKept ==
  ASSUME \A t \in Targets : CredsExact(t), NEW t \in Targets, NEW r \in ToSet(rows[t])
  PROVE  r.cred = None \/ r.cred \in DOMAIN creds[t]
  BY DEF CredsExact

LEMMA UcredIsKept ==
  ASSUME UcredsExact, NEW u \in ToSet(universals)
  PROVE  u.cred = None \/ u.cred \in DOMAIN ucreds
  BY DEF UcredsExact

(* A change of one target that generates nothing.                           *)
LEMMA OwnChange ==
  ASSUME StoreOK, BooksOK, NEW t \in Targets, NEW r \in Seq(Providers), Keyed(r),
         NEW c, IsTable(c), Keeps(creds[t], c),
         rows' = [rows EXCEPT ![t] = r], creds' = [creds EXCEPT ![t] = c],
         UNCHANGED <<universals, ucreds>>,
         \A x \in Targets : x # t => planned'[x] = planned[x],
         \A p \in ToSet(r) : p.owner # None => p \in ToSet(rows[t]),
         DOMAIN c = ({p.cred : p \in ToSet(r)} \cup planned'[t]) \ {None}
  PROVE  BooksOK'
  <1>1. rows'[t] = r /\ \A x \in Targets : x # t => rows'[x] = rows[x]
    BY DEF StoreOK, RowsOK
  <1>2. creds'[t] = c /\ \A x \in Targets : x # t => creds'[x] = creds[x]
    BY DEF StoreOK, CredsOK
  <1>3. RowsOK' BY <1>1 DEF StoreOK, RowsOK
  <1>4. CredsOK' BY <1>2 DEF StoreOK, CredsOK
  <1>5. SourcesOK' /\ UcredsExact' BY DEF BooksOK, SourcesOK, UcredsExact
  <1>6. ASSUME NEW x \in Targets PROVE CredsExact(x)'
    BY <1>1, <1>2 DEF BooksOK, CredsExact
  <1>7. ASSUME NEW x \in Targets, NEW p \in ToSet(rows'[x]), p.owner # None
        PROVE  /\ p \in ToSet(rows[x])
               /\ Secret(creds'[x], p.cred) = Secret(creds[x], p.cred)
    <2>1. p \in ToSet(rows[x]) BY <1>1, <1>7
    <2>2. p.cred = None \/ p.cred \in DOMAIN creds[x] BY <2>1, CredIsKept DEF BooksOK
    <2>3. p.cred = None \/ p.cred \in DOMAIN creds'[x] BY <1>6 DEF CredsExact
    <2>4. Keeps(creds[x], creds'[x]) BY <1>2 DEF Keeps
    <2>. QED BY <2>1, <2>2, <2>3, <2>4, SecretKept
  <1>8. Owned'
    <2>1. SUFFICES ASSUME NEW x \in Targets, NEW p \in ToSet(rows'[x]), p.owner # None
                   PROVE  \E u \in ToSet(universals') : u.id = p.owner /\ InStep(x, p, u)'
      BY DEF Owned
    <2>2. PICK u \in ToSet(universals) : u.id = p.owner /\ InStep(x, p, u)
      BY <1>7, <2>1 DEF BooksOK, Owned
    <2>3. InStep(x, p, u)' BY <1>7, <2>1, <2>2 DEF InStep
    <2>. QED BY <2>2, <2>3
  <1>9. OnePerTarget' BY <1>7 DEF BooksOK, OnePerTarget
  <1>. QED BY <1>3, <1>4, <1>5, <1>6, <1>8, <1>9 DEF BooksOK

(* A step that leaves providers and sources, and plans for providers.       *)
LEMMA PlanChange ==
  ASSUME StoreOK, BooksOK, UNCHANGED <<rows, creds, universals, ucreds>>,
         \A t \in Targets : /\ planned[t] \subseteq planned'[t]
                            /\ \A n \in planned'[t] : n \in planned[t] \/ \E r \in ToSet(rows[t]) : r.cred = n
  PROVE  BooksOK'
  <1>1. RowsOK' /\ CredsOK' /\ SourcesOK' /\ UcredsExact' /\ OnePerTarget'
    BY DEF BooksOK, RowsOK, CredsOK, SourcesOK, UcredsExact, OnePerTarget
  <1>2. Owned' BY DEF BooksOK, Owned, InStep
  <1>3. ASSUME NEW t \in Targets PROVE CredsExact(t)'
    BY DEF BooksOK, CredsExact
  <1>. QED BY <1>1, <1>2, <1>3 DEF BooksOK

(* A credential that a client enters, or none.                              *)
Entered(t, s) == IF s = None THEN None ELSE NewCredential(t)

LEMMA EnteredIs ==
  ASSUME StoreOK, NEW t \in Targets, NEW s \in Secrets \cup {None}
  PROVE  /\ Entered(t, s) \in Ref
         /\ IsTable(NewSecret(t, s)) /\ Keeps(creds[t], NewSecret(t, s))
         /\ DOMAIN NewSecret(t, s) = DOMAIN creds[t] \cup ({Entered(t, s)} \ {None})
  <1>1. CASE s = None BY <1>1, NewSecretIs DEF Entered, Ref, Keeps, StoreOK, CredsOK
  <1>2. CASE s \in Secrets
    <2>1. Entered(t, s) = NewCredential(t) /\ NewCredential(t) # None
      BY <1>2, NoneIsNothing, NewSecretIs DEF Entered
    <2>2. /\ NewCredential(t) \in Nat
          /\ IsTable(NewSecret(t, s)) /\ Keeps(creds[t], NewSecret(t, s))
          /\ DOMAIN NewSecret(t, s) = DOMAIN creds[t] \cup {NewCredential(t)}
      BY <1>2, NewSecretIs
    <2>3. {Entered(t, s)} \ {None} = {NewCredential(t)} BY <2>1
    <2>. QED BY <2>1, <2>2, <2>3 DEF Ref
  <1>. QED BY <1>1, <1>2

LEMMA OwnRowIs ==
  ASSUME NEW id \in Nat \ {0}, NEW v \in Values, NEW n \in Ref
  PROVE  /\ OwnRow(id, v, n) \in Providers
         /\ OwnRow(id, v, n).id = id /\ OwnRow(id, v, n).owner = None
         /\ OwnRow(id, v, n).cred = n
  BY CatalogAssumption DEF OwnRow, Providers, Ref

(* A provider of its own comes to a target.                                 *)
LEMMA OwnRowComes ==
  ASSUME StoreOK, BooksOK, NEW t \in Targets, NEW i \in 1 .. Len(rows[t]) + 1,
         NEW e \in Providers, e.owner = None, e.id \notin Ids(rows[t]),
         NEW c, IsTable(c), Keeps(creds[t], c),
         DOMAIN c = DOMAIN creds[t] \cup ({e.cred} \ {None}),
         Insert(t, e, i), creds' = [creds EXCEPT ![t] = c],
         UNCHANGED <<universals, ucreds>>,
         \A x \in Targets : x # t => planned'[x] = planned[x],
         planned[t] \subseteq planned'[t], planned'[t] \subseteq planned[t] \cup {e.cred}
  PROVE  /\ BooksOK'
         /\ \A x \in Targets : Ids(rows[x]) \subseteq Ids(rows'[x])
         /\ e.id \in Ids(rows'[t])
  <1> DEFINE r == InsertAt(rows[t], i, e)
  <1>1. rows[t] \in Seq(Providers) /\ Keyed(rows[t]) BY DEF StoreOK, RowsOK
  <1>2. r \in Seq(Providers) /\ Keyed(r) /\ ToSet(r) = ToSet(rows[t]) \cup {e}
    BY <1>1, InsertedAt
  <1>3. rows' = [rows EXCEPT ![t] = r] BY DEF Insert
  <1> HIDE DEF r
  <1>4. DOMAIN c = ({p.cred : p \in ToSet(r)} \cup planned'[t]) \ {None}
    BY <1>2 DEF BooksOK, CredsExact
  <1>5. BooksOK' BY <1>2, <1>3, <1>4, OwnChange
  <1>6. rows'[t] = r /\ \A x \in Targets : x # t => rows'[x] = rows[x]
    BY <1>3 DEF StoreOK, RowsOK
  <1>. QED BY <1>2, <1>5, <1>6 DEF Ids

LEMMA RowsGrow ==
  ASSUME RoutesExist, SameRoutes(route, route'),
         \A x \in Targets : Ids(rows[x]) \subseteq Ids(rows'[x])
  PROVE  RoutesExist'
  BY RoutesKept

LEMMA GatesStay ==
  ASSUME GatesInv, UNCHANGED <<gate, request>>
  PROVE  GatesInv'
  BY DEF GatesInv, RequestsOK, HeldInOrder, ActivationsHold

LEMMA Assembled ==
  ASSUME BooksOK', RoutesOK', PlansOK', RoutesExist', GatesInv'
  PROVE  CInv'
  BY DEF CInv, StoreOK, BooksOK

(* The rows of a target once it has one more.                               *)
LEMMA InsertedRows ==
  ASSUME StoreOK, NEW t \in Targets, NEW i \in 1 .. Len(rows[t]) + 1,
         NEW e \in Providers, e.id \notin Ids(rows[t]), Insert(t, e, i)
  PROVE  /\ ToSet(rows'[t]) = ToSet(rows[t]) \cup {e}
         /\ rows' = [rows EXCEPT ![t] = rows'[t]]
         /\ \A x \in Targets : x # t => rows'[x] = rows[x]
  <1>1. rows[t] \in Seq(Providers) /\ Keyed(rows[t]) BY DEF StoreOK, RowsOK
  <1>2. ToSet(InsertAt(rows[t], i, e)) = ToSet(rows[t]) \cup {e} BY <1>1, InsertedAt
  <1>. QED BY <1>2 DEF Insert, StoreOK, RowsOK

LEMMA OwnRowShows ==
  ASSUME StoreOK, NEW t \in Targets, NEW i \in 1 .. Len(rows[t]) + 1,
         NEW e \in Providers, e.owner = None, e.id \notin Ids(rows[t]), Insert(t, e, i),
         route' = Bump(t), UNCHANGED <<universals, catalog>>,
         \A x \in Targets : x # t => draft'[x] = draft[x]
  PROVE  ViewsFresh
  BY InsertedRows, OwnChangeShows

LEMMA CreateKeeps ==
  ASSUME CInv, NEW t \in Targets, CreateProvider(t)
  PROVE  CInv' /\ ViewsFresh
  <1>1. StoreOK /\ BooksOK /\ RoutesExist /\ GatesInv BY DEF CInv
  <1>2. PICK s \in Secrets \cup {None} :
          /\ Insert(t, OwnRow(NewId(t), Plain, Entered(t, s)), Len(rows[t]) + 1)
          /\ creds' = [creds EXCEPT ![t] = NewSecret(t, s)]
    BY DEF CreateProvider, Entered
  <1> DEFINE e == OwnRow(NewId(t), Plain, Entered(t, s))
             c == NewSecret(t, s)
  <1>3. NewId(t) \in Nat \ {0} /\ NewId(t) \notin Ids(rows[t]) BY <1>1, NewIdIs
  <1>4. /\ Entered(t, s) \in Ref /\ IsTable(c) /\ Keeps(creds[t], c)
        /\ DOMAIN c = DOMAIN creds[t] \cup ({Entered(t, s)} \ {None})
    BY <1>1, EnteredIs
  <1>5. e \in Providers /\ e.id = NewId(t) /\ e.owner = None /\ e.cred = Entered(t, s)
    <2>1. Plain \in Values BY CatalogAssumption
    <2>. QED BY <1>3, <1>4, <2>1, OwnRowIs
  <1>6. Len(rows[t]) + 1 \in 1 .. Len(rows[t]) + 1 BY <1>1 DEF StoreOK, RowsOK
  <1>7. UNCHANGED <<universals, ucreds, catalog, draft, planned, gate, request>> /\ route' = Bump(t)
    BY DEF CreateProvider
  <1> HIDE DEF e, c
  <1>8. BooksOK' /\ \A x \in Targets : Ids(rows[x]) \subseteq Ids(rows'[x])
    <2>1. Insert(t, e, Len(rows[t]) + 1) /\ creds' = [creds EXCEPT ![t] = c]
        BY <1>2 DEF e, c
    <2>. QED BY <1>1, <1>3, <1>4, <1>5, <1>6, <1>7, <2>1, OwnRowComes
  <1>9. route' \in [Targets -> Routes] /\ SameRoutes(route, route')
      BY <1>1, <1>7, BumpIs
  <1>10. RoutesOK' /\ PlansOK' BY <1>1, <1>7, <1>9 DEF StoreOK, RoutesOK, PlansOK
  <1>11. CInv' BY <1>1, <1>7, <1>8, <1>9, <1>10, RowsGrow, GatesStay, Assembled
  <1>12. ViewsFresh
    <2>1. Insert(t, e, Len(rows[t]) + 1) BY <1>2 DEF e
    <2>. QED BY <1>1, <1>3, <1>5, <1>6, <1>7, <2>1, OwnRowShows
  <1>. QED BY <1>11, <1>12

LEMMA DuplicateKeeps ==
  ASSUME CInv, NEW t \in Targets, DuplicateProvider(t)
  PROVE  CInv' /\ ViewsFresh
  <1>1. StoreOK /\ BooksOK /\ RoutesExist /\ GatesInv BY DEF CInv
  <1>2. PICK i \in DOMAIN rows[t], reuse \in BOOLEAN :
          Insert(t, [OwnRow(NewId(t), rows[t][i].model, IF reuse THEN rows[t][i].cred ELSE None)
                       EXCEPT !.decl = rows[t][i].decl], i + 1)
    BY DEF DuplicateProvider
  <1> DEFINE n == IF reuse THEN rows[t][i].cred ELSE None
             o == OwnRow(NewId(t), rows[t][i].model, n)
             e == [o EXCEPT !.decl = rows[t][i].decl]
  <1>3. NewId(t) \in Nat \ {0} /\ NewId(t) \notin Ids(rows[t]) BY <1>1, NewIdIs
  <1>4. rows[t] \in Seq(Providers) BY <1>1 DEF StoreOK, RowsOK
  <1>5. rows[t][i] \in Providers /\ rows[t][i] \in ToSet(rows[t]) BY <1>4, InToSet
  <1>6. n \in Ref /\ (n = None \/ n \in DOMAIN creds[t])
    BY <1>1, <1>5, CredIsKept DEF BooksOK, Providers, Ref
  <1>7. rows[t][i].model \in Values /\ rows[t][i].decl \in Values BY <1>5 DEF Providers
  <1> HIDE DEF n
  <1>8. o \in Providers /\ o.id = NewId(t) /\ o.owner = None /\ o.cred = n
    BY <1>3, <1>6, <1>7, OwnRowIs
  <1> HIDE DEF o
  <1>9. e \in Providers /\ e.id = NewId(t) /\ e.owner = None /\ e.cred = n
    BY <1>7, <1>8 DEF Providers
  <1>10. i + 1 \in 1 .. Len(rows[t]) + 1 BY <1>4
  <1>11. /\ UNCHANGED <<creds, universals, ucreds, catalog, draft, planned, gate, request>>
         /\ route' = Bump(t)
    BY DEF DuplicateProvider
  <1>12. creds' = [creds EXCEPT ![t] = creds[t]] BY <1>1, <1>11 DEF StoreOK, CredsOK
  <1>13. Insert(t, e, i + 1) BY <1>2 DEF n, o
  <1>14. /\ IsTable(creds[t]) /\ Keeps(creds[t], creds[t])
         /\ DOMAIN creds[t] = DOMAIN creds[t] \cup ({e.cred} \ {None})
    BY <1>1, <1>6, <1>9 DEF StoreOK, CredsOK, Keeps
  <1> HIDE DEF e
  <1>15. BooksOK' /\ \A x \in Targets : Ids(rows[x]) \subseteq Ids(rows'[x])
    BY <1>1, <1>3, <1>9, <1>10, <1>11, <1>12, <1>13, <1>14, OwnRowComes
  <1>16. route' \in [Targets -> Routes] /\ SameRoutes(route, route')
      BY <1>1, <1>11, BumpIs
  <1>17. RoutesOK' /\ PlansOK' BY <1>1, <1>11, <1>16 DEF StoreOK, RoutesOK, PlansOK
  <1>18. CInv' BY <1>1, <1>11, <1>15, <1>16, <1>17, RowsGrow, GatesStay, Assembled
  <1>19. ViewsFresh BY <1>1, <1>3, <1>9, <1>10, <1>11, <1>13, OwnRowShows
  <1>. QED BY <1>18, <1>19

(* The credential gone is no longer named by the provider that named it, n  *)
(* is: mid is the table with n, c what is left of it.                       *)
Recredits(t, r, n, gone, mid, c) ==
  /\ IsTable(mid) /\ Keeps(creds[t], mid) /\ DOMAIN mid = DOMAIN creds[t] \cup ({n} \ {None})
  /\ \/ gone = n /\ c = mid
     \/ Collected(mid, c, gone, planned[t] \cup {p.cred : p \in ToSet(r)})
  /\ \A p \in ToSet(rows[t]) : p.cred = gone \/ \E x \in ToSet(r) : x.cred = p.cred
  /\ \A p \in ToSet(r) : p.cred = n \/ \E x \in ToSet(rows[t]) : x.cred = p.cred
  /\ n = None \/ \E x \in ToSet(r) : x.cred = n

LEMMA Recredited ==
  ASSUME NEW t \in Targets, CredsExact(t), NEW n, NEW gone, NEW r, NEW mid, NEW c,
         Recredits(t, r, n, gone, mid, c)
  PROVE  /\ IsTable(c) /\ Keeps(creds[t], c)
         /\ DOMAIN c = ({p.cred : p \in ToSet(r)} \cup planned[t]) \ {None}
  <1> DEFINE old == {p.cred : p \in ToSet(rows[t])}
             new == {p.cred : p \in ToSet(r)}
  <1>1. DOMAIN creds[t] = (old \cup planned[t]) \ {None} BY DEF CredsExact
  <1>2. old \subseteq new \cup {gone} /\ new \subseteq old \cup {n} BY DEF Recredits
  <1>3. n = None \/ n \in new BY DEF Recredits
  <1>4. /\ IsTable(mid) /\ Keeps(creds[t], mid)
        /\ DOMAIN mid = DOMAIN creds[t] \cup ({n} \ {None})
        /\ \/ gone = n /\ c = mid
           \/ Collected(mid, c, gone, planned[t] \cup new)
    BY DEF Recredits
  <1>5. SUFFICES IsTable(c) /\ Keeps(creds[t], c) /\ DOMAIN c = (new \cup planned[t]) \ {None}
    OBVIOUS
  <1> HIDE DEF old, new
  <1>6. IsTable(c) /\ Keeps(creds[t], c)
    <2>1. CASE c = mid BY <1>4, <2>1
    <2>2. CASE Collected(mid, c, gone, planned[t] \cup new)
      BY <1>4, <2>2 DEF Collected, Keeps
    <2>. QED BY <1>4, <2>1, <2>2
  <1>7. DOMAIN c = (new \cup planned[t]) \ {None}
    <2>1. CASE gone = n /\ c = mid BY <1>1, <1>2, <1>3, <1>4, <2>1
    <2>2. CASE Collected(mid, c, gone, planned[t] \cup new)
      <3>1. DOMAIN c = DOMAIN mid \ ({gone} \ (planned[t] \cup new))
          BY <2>2 DEF Collected
      <3>. QED BY <1>1, <1>2, <1>3, <1>4, <3>1
    <2>. QED BY <1>4, <2>1, <2>2
  <1>. QED BY <1>6, <1>7

LEMMA UpdateKeeps ==
  ASSUME CInv, NEW t \in Targets, UpdateProvider(t)
  PROVE  CInv' /\ ViewsFresh
  <1>1. StoreOK /\ BooksOK /\ RoutesExist /\ GatesInv BY DEF CInv
  <1>2. PICK i \in DOMAIN rows[t], v \in Values, edit \in Secrets \cup {None, "keep"} :
       LET old == rows[t][i]
           cred == IF edit = "keep" THEN old.cred
                   ELSE IF edit = None THEN None ELSE NewCredential(t)
           new == [old EXCEPT !.model = v, !.cred = cred, !.rev = @ + 1]
           after == [rows EXCEPT ![t][i] = new]
           table == NewSecret(t, IF edit = "keep" THEN None ELSE edit)
       IN /\ old.owner = None
          /\ <<v, cred>> # <<old.model, old.cred>>
          /\ rows' = after
          /\ creds' = [creds EXCEPT ![t] =
                         IF cred = old.cred THEN table ELSE Collect(t, table, after[t], old.cred)]
    BY DEF UpdateProvider
  <1> DEFINE old == rows[t][i]
             n == IF edit = "keep" THEN old.cred
                  ELSE IF edit = None THEN None ELSE NewCredential(t)
             e == [old EXCEPT !.model = v, !.cred = n, !.rev = @ + 1]
             r == [rows[t] EXCEPT ![i] = e]
             mid == NewSecret(t, IF edit = "keep" THEN None ELSE edit)
             c == IF n = old.cred THEN mid ELSE Collect(t, mid, r, old.cred)
  <1>3. rows[t] \in Seq(Providers) /\ Keyed(rows[t]) /\ IsTable(creds[t])
    BY <1>1 DEF StoreOK, RowsOK, CredsOK
  <1>4. old \in Providers /\ old \in ToSet(rows[t]) /\ old.owner = None
    BY <1>2, <1>3, InToSet
  <1>5. old.cred = None \/ old.cred \in DOMAIN creds[t]
    BY <1>1, <1>4, CredIsKept DEF BooksOK
  <1>6. rows' = [rows EXCEPT ![t] = r] /\ creds' = [creds EXCEPT ![t] = c]
    <2> DEFINE after == [rows EXCEPT ![t][i] = e]
               table == IF n = old.cred THEN mid ELSE Collect(t, mid, after[t], old.cred)
    <2>1. rows' = after /\ creds' = [creds EXCEPT ![t] = table] BY <1>2
    <2> HIDE DEF e, mid, n
    <2>2. after = [rows EXCEPT ![t] = r] /\ after[t] = r BY <1>1 DEF StoreOK, RowsOK
    <2> HIDE DEF r, old, after
    <2>3. table = c BY <2>2
    <2>. QED BY <2>1, <2>2, <2>3
  <1>7. /\ n \in Ref /\ IsTable(mid) /\ Keeps(creds[t], mid)
        /\ DOMAIN mid = DOMAIN creds[t] \cup ({n} \ {None})
    <2>1. CASE edit = "keep"
      <3>1. mid = creds[t] /\ n = old.cred BY <1>1, <2>1, NewSecretIs
      <3>. QED BY <1>3, <1>4, <1>5, <3>1 DEF Keeps, Providers
    <2>2. CASE edit # "keep"
      <3>1. mid = NewSecret(t, edit) /\ n = Entered(t, edit) /\ edit \in Secrets \cup {None}
        BY <2>2 DEF Entered
      <3>. QED BY <1>1, <3>1, EnteredIs
    <2>. QED BY <2>1, <2>2
  <1> HIDE DEF n, mid
  <1>8. e \in Providers /\ e.owner = None /\ e.id = old.id /\ e.cred = n
    <2>1. old.rev + 1 \in Nat \ {0} BY <1>4 DEF Providers
    <2>2. \A k \in Nat \ {0} : [old EXCEPT !.model = v, !.cred = n, !.rev = k] \in Providers
      BY <1>4, <1>7 DEF Providers
    <2>3. e \in Providers BY <2>1, <2>2
    <2>4. e.owner = old.owner /\ e.id = old.id /\ e.cred = n BY <1>4 DEF Providers
    <2>. QED BY <1>4, <2>3, <2>4
  <1> HIDE DEF old, e
  <1>9. r \in Seq(Providers) /\ Replaces(r, rows[t], i, e) BY <1>3, <1>8 DEF Replaces
  <1> HIDE DEF r
  <1>10. Keyed(r) /\ ToSet(r) = (ToSet(rows[t]) \ {old}) \cup {e}
    BY <1>3, <1>8, <1>9, ReplacedAt DEF old
  <1>11. \/ old.cred = n /\ c = mid
         \/ Collected(mid, c, old.cred, planned[t] \cup {p.cred : p \in ToSet(r)})
    BY <1>7, CollectIs
  <1> HIDE DEF c
  <1>12. CredsExact(t) BY <1>1 DEF BooksOK
  <1>13. /\ IsTable(c) /\ Keeps(creds[t], c)
         /\ DOMAIN c = ({p.cred : p \in ToSet(r)} \cup planned[t]) \ {None}
    <2>1. \A p \in ToSet(rows[t]) : p.cred = old.cred \/ \E x \in ToSet(r) : x.cred = p.cred
      BY <1>9, <1>10
    <2>2. \A p \in ToSet(r) : p.cred = n \/ \E x \in ToSet(rows[t]) : x.cred = p.cred
      BY <1>8, <1>9, <1>10
    <2>3. \E x \in ToSet(r) : x.cred = n BY <1>8, <1>9, <1>10
    <2>4. Recredits(t, r, n, old.cred, mid, c)
      BY <1>7, <1>11, <2>1, <2>2, <2>3 DEF Recredits
    <2>. QED BY <1>12, <2>4, Recredited
  <1>14. UNCHANGED <<universals, ucreds, catalog, draft, planned, gate, request>> /\ route' = Bump(t)
    BY DEF UpdateProvider
  <1>15. \A p \in ToSet(r) : p.owner # None => p \in ToSet(rows[t]) BY <1>8, <1>9, <1>10
  <1>16. BooksOK' BY <1>1, <1>6, <1>9, <1>10, <1>13, <1>14, <1>15, OwnChange
  <1>17. \A x \in Targets : Ids(rows[x]) \subseteq Ids(rows'[x])
    <2>1. rows'[t] = r /\ \A x \in Targets : x # t => rows'[x] = rows[x]
      BY <1>1, <1>6 DEF StoreOK, RowsOK
    <2>. QED BY <1>4, <1>8, <1>9, <1>10, <2>1 DEF Ids
  <1>18. route' \in [Targets -> Routes] /\ SameRoutes(route, route')
      BY <1>1, <1>14, BumpIs
  <1>19. RoutesOK' /\ PlansOK' BY <1>1, <1>14, <1>18 DEF StoreOK, RoutesOK, PlansOK
  <1>20. CInv' BY <1>1, <1>14, <1>16, <1>17, <1>18, <1>19, RowsGrow, GatesStay, Assembled
  <1>21. ViewsFresh
    <2>1. old.owner = None BY <1>2 DEF old
    <2>2. \A p : p.owner # None => (p \in ToSet(r) <=> p \in ToSet(rows[t]))
      BY <1>8, <1>10, <2>1
    <2>. QED BY <1>1, <1>6, <1>14, <2>2, OwnChangeShows
  <1>. QED BY <1>20, <1>21

LEMMA DeleteKeeps ==
  ASSUME CInv, NEW t \in Targets, DeleteProvider(t)
  PROVE  CInv' /\ ViewsFresh
  <1>1. StoreOK /\ BooksOK /\ RoutesExist /\ GatesInv BY DEF CInv
  <1>2. PICK i \in DOMAIN rows[t] :
          /\ rows[t][i].owner = None /\ ~Referenced(t, rows[t][i].id)
          /\ rows' = [rows EXCEPT ![t] = RemoveAt(@, i)]
          /\ creds' = [creds EXCEPT ![t] = Collect(t, @, RemoveAt(rows[t], i), rows[t][i].cred)]
    BY DEF DeleteProvider
  <1> DEFINE old == rows[t][i]
             r == RemoveAt(rows[t], i)
             c == Collect(t, creds[t], r, old.cred)
  <1>3. rows[t] \in Seq(Providers) /\ Keyed(rows[t]) /\ IsTable(creds[t])
    BY <1>1 DEF StoreOK, RowsOK, CredsOK
  <1>4. old \in ToSet(rows[t]) /\ ~Referenced(t, old.id) BY <1>2, <1>3, InToSet
  <1>5. rows' = [rows EXCEPT ![t] = r] /\ creds' = [creds EXCEPT ![t] = c]
    BY <1>1, <1>2 DEF StoreOK, RowsOK, CredsOK
  <1>6. r \in Seq(Providers) /\ Keyed(r) /\ ToSet(r) = ToSet(rows[t]) \ {old}
    BY <1>3, RemovedAt
  <1> HIDE DEF r, old
  <1>7. Collected(creds[t], c, old.cred, planned[t] \cup {p.cred : p \in ToSet(r)})
    BY <1>3, CollectIs
  <1> HIDE DEF c
  <1>8. CredsExact(t) BY <1>1 DEF BooksOK
  <1>9. /\ IsTable(c) /\ Keeps(creds[t], c)
        /\ DOMAIN c = ({p.cred : p \in ToSet(r)} \cup planned[t]) \ {None}
    <2>1. \A p \in ToSet(rows[t]) : p.cred = old.cred \/ \E x \in ToSet(r) : x.cred = p.cred
      BY <1>6
    <2>2. \A p \in ToSet(r) : \E x \in ToSet(rows[t]) : x.cred = p.cred BY <1>6
    <2>3. DOMAIN creds[t] = DOMAIN creds[t] \cup ({None} \ {None}) /\ Keeps(creds[t], creds[t])
      BY DEF Keeps
    <2>4. Recredits(t, r, None, old.cred, creds[t], c)
      BY <1>3, <1>7, <2>1, <2>2, <2>3 DEF Recredits
    <2>. QED BY <1>8, <2>4, Recredited
  <1>10. UNCHANGED <<universals, ucreds, catalog, draft, planned, gate, request>> /\ route' = Bump(t)
    BY DEF DeleteProvider
  <1>11. BooksOK' BY <1>1, <1>5, <1>6, <1>9, <1>10, OwnChange
  <1>12. route' \in [Targets -> Routes] /\ SameRoutes(route, route')
      BY <1>1, <1>10, BumpIs
  <1>13. \A x \in Targets : \A id \in Ids(rows[x]) : Routable(x, id) => id \in Ids(rows'[x])
    <2>1. rows'[t] = r /\ \A x \in Targets : x # t => rows'[x] = rows[x]
      BY <1>1, <1>5 DEF StoreOK, RowsOK
    <2>2. ASSUME NEW id \in Ids(rows[t]), Routable(t, id) PROVE id \in Ids(r)
      <3>1. id # old.id BY <1>4, <2>2 DEF Routable, Referenced
      <3>. QED BY <1>6, <3>1 DEF Ids
    <2>. QED BY <2>1, <2>2
  <1>14. RoutesOK' /\ PlansOK' BY <1>1, <1>10, <1>12 DEF StoreOK, RoutesOK, PlansOK
  <1>15. CInv' BY <1>1, <1>10, <1>11, <1>12, <1>13, <1>14, RoutesKept, GatesStay, Assembled
  <1>16. ViewsFresh
    <2>1. old.owner = None BY <1>2 DEF old
    <2>2. \A p : p.owner # None => (p \in ToSet(r) <=> p \in ToSet(rows[t]))
      BY <1>6, <2>1
    <2>. QED BY <1>1, <1>5, <1>10, <2>2, OwnChangeShows
  <1>. QED BY <1>15, <1>16

LEMMA ReorderKeeps ==
  ASSUME CInv, NEW t \in Targets, ReorderProviders(t)
  PROVE  CInv' /\ ViewsFresh
  <1>1. StoreOK /\ BooksOK /\ RoutesExist /\ GatesInv BY DEF CInv
  <1> DEFINE r == Reverse(rows[t])
  <1>2. rows[t] \in Seq(Providers) /\ Keyed(rows[t]) /\ IsTable(creds[t])
    BY <1>1 DEF StoreOK, RowsOK, CredsOK
  <1>3. r \in Seq(Providers) /\ Keyed(r) /\ ToSet(r) = ToSet(rows[t]) BY <1>2, Reversed
  <1>4. /\ UNCHANGED <<creds, universals, ucreds, catalog, draft, planned, gate, request>>
        /\ route' = Bump(t) /\ rows' = [rows EXCEPT ![t] = r]
    BY <1>1 DEF ReorderProviders, StoreOK, RowsOK
  <1> HIDE DEF r
  <1>5. creds' = [creds EXCEPT ![t] = creds[t]] BY <1>1, <1>4 DEF StoreOK, CredsOK
  <1>6. /\ Keeps(creds[t], creds[t])
        /\ DOMAIN creds[t] = ({p.cred : p \in ToSet(r)} \cup planned'[t]) \ {None}
    BY <1>1, <1>3, <1>4 DEF Keeps, BooksOK, CredsExact
  <1>7. BooksOK' BY <1>1, <1>2, <1>3, <1>4, <1>5, <1>6, OwnChange
  <1>8. \A x \in Targets : Ids(rows[x]) \subseteq Ids(rows'[x])
    BY <1>1, <1>3, <1>4 DEF StoreOK, RowsOK, Ids
  <1>9. route' \in [Targets -> Routes] /\ SameRoutes(route, route')
      BY <1>1, <1>4, BumpIs
  <1>10. RoutesOK' /\ PlansOK' BY <1>1, <1>4, <1>9 DEF StoreOK, RoutesOK, PlansOK
  <1>11. CInv' BY <1>1, <1>4, <1>7, <1>8, <1>9, <1>10, RowsGrow, GatesStay, Assembled
  <1>12. ViewsFresh BY <1>1, <1>3, <1>4, OwnChangeShows
  <1>. QED BY <1>11, <1>12

-----------------------------------------------------------------------------
(* Drafts, plans and what a target routes to.                               *)
LEMMA RowIs ==
  ASSUME StoreOK, NEW t \in Targets, NEW id \in Ids(rows[t])
  PROVE  /\ Row(t, id) \in ToSet(rows[t]) /\ Row(t, id) \in Providers /\ Row(t, id).id = id
         /\ At(rows[t], id) \in DOMAIN rows[t] /\ rows[t][At(rows[t], id)] = Row(t, id)
  <1>1. rows[t] \in Seq(Providers) /\ Keyed(rows[t]) BY DEF StoreOK, RowsOK
  <1>2. PICK x \in ToSet(rows[t]) : x.id = id BY DEF Ids
  <1>3. At(rows[t], x.id) \in DOMAIN rows[t] /\ rows[t][At(rows[t], x.id)] = x
    BY <1>1, AtIsIt
  <1>4. Row(t, id) = x BY <1>2, <1>3 DEF Row
  <1>. QED BY <1>1, <1>2, <1>3, <1>4, InToSet

LEMMA BooksStay ==
  ASSUME StoreOK, BooksOK, UNCHANGED <<rows, creds, universals, ucreds, planned>>
  PROVE  BooksOK'
  BY PlanChange DEF StoreOK, PlansOK

LEMMA SaveDraftKeeps ==
  ASSUME CInv, NEW t \in Targets, SaveDraft(t)
  PROVE  CInv' /\ ViewsFresh
  <1>1. StoreOK /\ BooksOK /\ RoutesExist /\ GatesInv BY DEF CInv
  <1>2. /\ UNCHANGED <<rows, creds, universals, ucreds, catalog, planned, gate, request>>
        /\ route' = Bump(t)
    BY DEF SaveDraft
  <1>3. BooksOK' BY <1>1, <1>2, BooksStay
  <1>4. route' \in [Targets -> Routes] /\ SameRoutes(route, route')
      BY <1>1, <1>2, BumpIs
  <1>5. RoutesOK' BY <1>1, <1>2, <1>4 DEF StoreOK, RoutesOK
  <1>6. PlansOK'
    <2>1. PICK s \in {route[t].current} \cup (Ids(rows[t]) \ {route[t].current}) :
       LET chain == IF s = route[t].current THEN <<s>> ELSE <<route[t].current, s>>
       IN /\ \A id \in ToSet(chain) : id \in Ids(rows[t]) /\ Complete(t, Row(t, id))
          /\ draft' = [draft EXCEPT ![t] =
               [rev |-> @.rev + 1,
                members |-> [i \in DOMAIN chain |-> [id |-> chain[i], rev |-> Row(t, chain[i]).rev]]]]
      BY DEF SaveDraft
    <2> DEFINE chain == IF s = route[t].current THEN <<s>> ELSE <<route[t].current, s>>
               members == [i \in DOMAIN chain |-> [id |-> chain[i], rev |-> Row(t, chain[i]).rev]]
    <2>2. \A id \in ToSet(chain) : id \in Ids(rows[t]) BY <2>1
    <2>3. draft' = [draft EXCEPT ![t] = [rev |-> draft[t].rev + 1, members |-> members]]
      BY <1>1, <2>1 DEF StoreOK, PlansOK
    <2>4. DOMAIN chain = 1 .. 1 \/ DOMAIN chain = 1 .. 2
      <3>1. DOMAIN <<s>> = 1 .. 1 /\ DOMAIN <<route[t].current, s>> = 1 .. 2 OBVIOUS
      <3>. QED BY <3>1
    <2> HIDE DEF chain
    <2>5. ASSUME NEW i \in DOMAIN chain
          PROVE  [id |-> chain[i], rev |-> Row(t, chain[i]).rev] \in [id : Nat, rev : Nat]
      <3>1. chain[i] \in Ids(rows[t]) BY <2>2 DEF ToSet
      <3>2. Row(t, chain[i]) \in Providers /\ Row(t, chain[i]).id = chain[i]
        BY <1>1, <3>1, RowIs
      <3>. QED BY <3>2 DEF Providers
    <2>6. members \in Seq([id : Nat, rev : Nat])
      <3>1. PICK k \in Nat : DOMAIN chain = 1 .. k BY <2>4
      <3>2. members = [i \in 1 .. k |-> [id |-> chain[i], rev |-> Row(t, chain[i]).rev]]
          BY <3>1
      <3>3. \A i \in 1 .. k : [id |-> chain[i], rev |-> Row(t, chain[i]).rev] \in [id : Nat, rev : Nat]
        BY <2>5, <3>1
      <3>. QED BY <3>2, <3>3
    <2>7. draft[t].rev + 1 \in Nat BY <1>1 DEF StoreOK, PlansOK, Drafts
    <2> HIDE DEF members
    <2>8. [rev |-> draft[t].rev + 1, members |-> members] \in Drafts
        BY <2>6, <2>7 DEF Drafts
    <2>. QED BY <1>1, <1>2, <2>3, <2>8 DEF StoreOK, PlansOK
  <1>7. RoutesExist' BY <1>1, <1>2, <1>4, RowsGrow
  <1>8. CInv' BY <1>1, <1>2, <1>3, <1>5, <1>6, <1>7, GatesStay, Assembled
  <1>9. ViewsFresh
    <2>1. \A x \in Targets : x # t => draft'[x] = draft[x]
      BY <1>1 DEF SaveDraft, StoreOK, PlansOK
    <2>. QED BY <1>1, <1>2, <2>1, RowsStayAndShow
  <1>. QED BY <1>8, <1>9

(* A new route, with the providers it names.                                *)
RouteOf(t, r) ==
  [route[t] EXCEPT !.current = r.current, !.snapshot = r.snapshot, !.plan = r.plan,
                   !.rev = @ + 1, !.seq = @ + 1]

LEMMA RouteOfIs ==
  ASSUME StoreOK, NEW t \in Targets, NEW r,
         r.current \in Ref, r.snapshot \in Ref, r.plan \in Seq(Nat)
  PROVE  /\ RouteOf(t, r) \in Routes
         /\ RouteOf(t, r).current = r.current /\ RouteOf(t, r).snapshot = r.snapshot
         /\ RouteOf(t, r).plan = r.plan
  <1>1. route[t] \in Routes BY DEF StoreOK, RoutesOK
  <1>2. route[t].rev + 1 \in Nat /\ route[t].seq + 1 \in Nat BY <1>1 DEF Routes
  <1>3. \A x, y \in Nat :
          [route[t] EXCEPT !.current = r.current, !.snapshot = r.snapshot, !.plan = r.plan,
                           !.rev = x, !.seq = y] \in Routes
    BY <1>1 DEF Routes
  <1>4. RouteOf(t, r) \in Routes BY <1>2, <1>3 DEF RouteOf
  <1>5. /\ RouteOf(t, r).current = r.current /\ RouteOf(t, r).snapshot = r.snapshot
        /\ RouteOf(t, r).plan = r.plan
    BY <1>1 DEF RouteOf, Routes
  <1>. QED BY <1>4, <1>5

(* What the new route of a target names is there.                           *)
Routes1(t, r, ids) ==
  /\ r.current \in Ref /\ r.snapshot \in Ref /\ r.plan \in Seq(Nat)
  /\ ({r.current, r.snapshot} \ {None}) \cup ToSet(r.plan) \subseteq ids

LEMMA ReroutedIs ==
  ASSUME StoreOK, RoutesExist, NEW t \in Targets, NEW r, Routes1(t, r, Ids(rows'[t])),
         route' = [route EXCEPT ![t] = RouteOf(t, r)],
         \A x \in Targets : Ids(rows[x]) \subseteq Ids(rows'[x])
  PROVE  route' \in [Targets -> Routes] /\ RoutesExist'
  <1>1. /\ RouteOf(t, r) \in Routes
        /\ RouteOf(t, r).current = r.current /\ RouteOf(t, r).snapshot = r.snapshot
        /\ RouteOf(t, r).plan = r.plan
    BY RouteOfIs DEF Routes1
  <1>2. route'[t] = RouteOf(t, r) /\ \A x \in Targets : x # t => route'[x] = route[x]
    BY DEF StoreOK, RoutesOK
  <1>3. route' \in [Targets -> Routes] BY <1>1 DEF StoreOK, RoutesOK
  <1>4. RoutesExist' BY <1>1, <1>2 DEF RoutesExist, Routes1
  <1>. QED BY <1>3, <1>4

LEMMA RerouteIs ==
  ASSUME StoreOK, NEW t \in Targets, NEW r, Reroute(t, r)
  PROVE  /\ route' = [route EXCEPT ![t] = RouteOf(t, r)]
         /\ catalog' \in [rev : Nat, seq : Nat]
  <1>1. route \in [Targets -> Routes] /\ catalog \in [rev : Nat, seq : Nat]
      BY DEF StoreOK, RoutesOK
  <1>2. route[t] \in Routes BY <1>1
  <1>3. route' = [route EXCEPT ![t] = RouteOf(t, r)]
    BY <1>1, <1>2 DEF Reroute, Bump, RouteOf, Routes
  <1>4. [catalog EXCEPT !.seq = @ + 1] \in [rev : Nat, seq : Nat] BY <1>1
  <1>5. catalog' \in [rev : Nat, seq : Nat] BY <1>1, <1>4 DEF Reroute
  <1>. QED BY <1>3, <1>5

LEMMA RerouteShows ==
  ASSUME StoreOK, NEW t \in Targets, NEW r, Reroute(t, r), UNCHANGED universals, SameGenerated,
         \A x \in Targets : x # t => rows'[x] = rows[x] /\ draft'[x] = draft[x]
  PROVE  ViewsFresh
  <1>1. /\ route[t] \in Routes /\ route \in [Targets -> Routes]
        /\ route' = [route EXCEPT ![t] = RouteOf(t, r)]
    BY RerouteIs DEF StoreOK, RoutesOK
  <1>2. /\ route'[t].current = r.current /\ route'[t].snapshot = r.snapshot
        /\ route'[t].seq > route[t].seq
    BY <1>1 DEF RouteOf, Routes
  <1>3. \A x \in Targets : x # t => SameTarget(x) BY <1>1 DEF SameTarget
  <1>4. CASE GeneratedReferences(t, r) # GeneratedReferences(t, route[t])
    <2>1. catalog'.seq > catalog.seq BY <1>4 DEF Reroute, StoreOK, RoutesOK
    <2>. QED BY <1>2, <1>3, <2>1, OneTargetShows DEF ViewsFresh, CatalogFresh
  <1>5. CASE GeneratedReferences(t, r) = GeneratedReferences(t, route[t])
    <2>1. ASSUME NEW g \in ToSet(rows[t]), g.owner # None
          PROVE  /\ (g.id = r.current) = (g.id = route[t].current)
                 /\ (g.id = r.snapshot) = (g.id = route[t].snapshot)
      <3>1. <<g.id, g.id = r.current, g.id = r.snapshot>> \in GeneratedReferences(t, route[t])
        BY <1>5, <2>1 DEF GeneratedReferences
      <3>2. PICK h \in ToSet(rows[t]) :
              <<g.id, g.id = r.current, g.id = r.snapshot>>
                = <<h.id, h.id = route[t].current, h.id = route[t].snapshot>>
        BY <3>1 DEF GeneratedReferences
      <3>. QED BY <3>2
    <2>2. ASSUME NEW u \in ToSet(universals), NEW x \in Targets
          PROVE  /\ GeneratedBy(u.id, x)' = GeneratedBy(u.id, x)
                 /\ \A g \in GeneratedBy(u.id, x) :
                      /\ (g.id = route'[x].current) = (g.id = route[x].current)
                      /\ (g.id = route'[x].snapshot) = (g.id = route[x].snapshot)
      <3>1. u.id # None
        <4>1. u \in Sources BY InToSet DEF StoreOK, SourcesOK
        <4>. QED BY <4>1, NoneIsNothing DEF Sources
      <3>2. CASE x = t BY <1>2, <2>1, <3>1, <3>2, SameGeneratedIs DEF GeneratedBy
      <3>3. CASE x # t BY <1>3, <3>3, SameGeneratedIs DEF SameTarget
      <3>. QED BY <3>2, <3>3
    <2>3. CatalogFresh BY <2>2, CatalogUnmoved DEF CatalogFresh
    <2>. QED BY <1>2, <1>3, <2>3, OneTargetShows DEF ViewsFresh
  <1>. QED BY <1>4, <1>5

LEMMA RoutedIs ==
  ASSUME NEW t, NEW ids, NEW id \in ids, id \in Nat
  PROVE  Routes1(t, Routed(id), ids) /\ Routes1(t, Unrouted, ids)
  <1>1. <<id>> \in Seq(Nat) /\ ToSet(<<id>>) = {id} BY DEF ToSet
  <1>2. <<>> \in Seq(Nat) /\ ToSet(<<>>) = {} BY DEF ToSet
  <1>. QED BY <1>1, <1>2 DEF Routes1, Routed, Unrouted, Ref

LEMMA RedraftIs ==
  ASSUME StoreOK, NEW t \in Targets, NEW members \in Seq([id : Nat, rev : Nat]),
         Redraft(t, members)
  PROVE  draft' \in [Targets -> Drafts]
  <1>1. draft[t].rev + 1 \in Nat BY DEF StoreOK, PlansOK, Drafts
  <1>2. [rev |-> draft[t].rev + 1, members |-> members] \in Drafts BY <1>1 DEF Drafts
  <1>. QED BY <1>2 DEF Redraft, StoreOK, PlansOK

LEMMA OneMember ==
  ASSUME NEW id \in Nat, NEW rev \in Nat
  PROVE  <<[id |-> id, rev |-> rev]>> \in Seq([id : Nat, rev : Nat])
  OBVIOUS

LEMMA ApplyKeeps ==
  ASSUME CInv, NEW t \in Targets, ApplyChain(t)
  PROVE  CInv' /\ ViewsFresh
  <1> DEFINE members == draft[t].members
             plan == [i \in DOMAIN members |-> members[i].id]
             r == [current |-> route[t].current, snapshot |-> route[t].snapshot, plan |-> plan]
  <1>1. StoreOK /\ BooksOK /\ RoutesExist /\ GatesInv BY DEF CInv
  <1>2. /\ UNCHANGED <<rows, creds, universals, ucreds, catalog, draft, gate, request>>
        /\ route' = [Bump(t) EXCEPT ![t].plan = plan]
        /\ planned' = [planned EXCEPT ![t] = @ \cup {Row(t, m.id).cred : m \in ToSet(members)}]
        /\ \A m \in ToSet(members) : m.id \in Ids(rows[t])
    BY DEF ApplyChain
  <1>3. members \in Seq([id : Nat, rev : Nat]) BY <1>1 DEF StoreOK, PlansOK, Drafts
  <1>4. plan \in Seq(Nat) /\ ToSet(plan) \subseteq Ids(rows[t])
    <2>1. DOMAIN members = 1 .. Len(members) /\ Len(members) \in Nat BY <1>3
    <2>2. ASSUME NEW i \in 1 .. Len(members) PROVE members[i].id \in Nat
      <3>1. members[i] \in [id : Nat, rev : Nat] BY <1>3, ElementOfSeq
      <3>. QED BY <3>1
    <2>3. plan \in Seq(Nat) BY <2>1, <2>2, IsASeq
    <2>4. \A i \in DOMAIN members : members[i].id \in Ids(rows[t])
        BY <1>2, <1>3, InToSet
    <2>. QED BY <2>3, <2>4 DEF ToSet
  <1> HIDE DEF plan
  <1>5. route[t] \in Routes BY <1>1 DEF StoreOK, RoutesOK
  <1>6. Routes1(t, r, Ids(rows'[t]))
    BY <1>1, <1>2, <1>4, <1>5 DEF Routes1, Routes, RoutesExist
  <1>7. route' = [route EXCEPT ![t] = RouteOf(t, r)]
    BY <1>1, <1>2, <1>5 DEF Bump, RouteOf, Routes, StoreOK, RoutesOK
  <1> HIDE DEF r
  <1>8. route' \in [Targets -> Routes] /\ RoutesExist'
      BY <1>1, <1>2, <1>6, <1>7, ReroutedIs
  <1>9. ASSUME NEW m \in ToSet(members)
        PROVE  Row(t, m.id).cred \in Ref /\ \E x \in ToSet(rows[t]) : x.cred = Row(t, m.id).cred
    BY <1>1, <1>2, RowIs DEF Providers
  <1>10. /\ planned' \in [Targets -> SUBSET Ref]
         /\ \A x \in Targets : planned[x] \subseteq planned'[x]
         /\ \A x \in Targets : \A n \in planned'[x] :
              n \in planned[x] \/ \E p \in ToSet(rows[x]) : p.cred = n
    <2> DEFINE named == {Row(t, m.id).cred : m \in ToSet(members)}
    <2>1. named \subseteq Ref /\ \A n \in named : \E p \in ToSet(rows[t]) : p.cred = n
        BY <1>9
    <2>2. planned' = [planned EXCEPT ![t] = planned[t] \cup named] /\ planned \in [Targets -> SUBSET Ref]
      BY <1>1, <1>2 DEF StoreOK, PlansOK
    <2> HIDE DEF named
    <2>. QED BY <2>1, <2>2
  <1>11. BooksOK' BY <1>1, <1>2, <1>10, PlanChange
  <1>12. RoutesOK' /\ PlansOK' BY <1>1, <1>2, <1>8, <1>10 DEF StoreOK, RoutesOK, PlansOK
  <1>13. CInv' BY <1>1, <1>2, <1>8, <1>11, <1>12, GatesStay, Assembled
  <1>14. ViewsFresh
    <2>1. /\ route'[t].current = route[t].current /\ route'[t].snapshot = route[t].snapshot
          /\ route'[t].seq > route[t].seq
      BY <1>1, <1>5, <1>7 DEF RouteOf, r, Routes, StoreOK, RoutesOK
    <2>2. \A x \in Targets : x # t => SameTarget(x)
      BY <1>1, <1>2, <1>7 DEF SameTarget, StoreOK, RoutesOK
    <2>3. CatalogFresh
      <3>1. ASSUME NEW u \in ToSet(universals), NEW x \in Targets
            PROVE  /\ GeneratedBy(u.id, x)' = GeneratedBy(u.id, x)
                   /\ route'[x].current = route[x].current
                   /\ route'[x].snapshot = route[x].snapshot
        BY <1>2, <2>1, <2>2 DEF GeneratedBy, SameTarget
      <3>. QED BY <1>2, <3>1, CatalogUnmoved DEF CatalogFresh
    <2>. QED BY <1>2, <2>1, <2>2, <2>3, OneTargetShows DEF ViewsFresh
  <1>. QED BY <1>13, <1>14

LEMMA RestoreKeeps ==
  ASSUME CInv, NEW t \in Targets, Restore(t)
  PROVE  CInv' /\ ViewsFresh
  <1>1. StoreOK /\ BooksOK /\ RoutesExist /\ GatesInv BY DEF CInv
  <1>2. /\ UNCHANGED <<rows, creds, universals, ucreds, planned, gate, request>>
        /\ route[t].current # None /\ Reroute(t, Unrouted) /\ Redraft(t, <<>>)
    BY DEF Restore
  <1>3. BooksOK' BY <1>1, <1>2, BooksStay
  <1>4. route' = [route EXCEPT ![t] = RouteOf(t, Unrouted)] /\ catalog' \in [rev : Nat, seq : Nat]
    BY <1>1, <1>2, RerouteIs
  <1>5. Routes1(t, Unrouted, Ids(rows'[t]))
    <2>1. <<>> \in Seq(Nat) /\ ToSet(<<>>) = {} BY DEF ToSet
    <2>. QED BY <2>1 DEF Routes1, Unrouted, Ref
  <1>6. route' \in [Targets -> Routes] /\ RoutesExist'
      BY <1>1, <1>2, <1>4, <1>5, ReroutedIs
  <1>7. draft' \in [Targets -> Drafts]
    <2>1. <<>> \in Seq([id : Nat, rev : Nat]) OBVIOUS
    <2>. QED BY <1>1, <1>2, <2>1, RedraftIs
  <1>8. RoutesOK' /\ PlansOK'
      BY <1>1, <1>2, <1>4, <1>6, <1>7 DEF StoreOK, RoutesOK, PlansOK
  <1>9. CInv' BY <1>1, <1>2, <1>3, <1>6, <1>8, GatesStay, Assembled
  <1>10. ViewsFresh
    <2>1. \A x \in Targets : x # t => draft'[x] = draft[x] /\ rows'[x] = rows[x]
      BY <1>1, <1>2 DEF Redraft, StoreOK, PlansOK
    <2>2. SameGenerated BY <1>2 DEF SameGenerated
    <2>. QED BY <1>1, <1>2, <2>1, <2>2, RerouteShows
  <1>. QED BY <1>9, <1>10

LEMMA AdoptKeeps ==
  ASSUME CInv, NEW t \in Targets, Adopt(t)
  PROVE  CInv' /\ ViewsFresh
  <1>1. StoreOK /\ BooksOK /\ RoutesExist /\ GatesInv BY DEF CInv
  <1>2. PICK s \in Secrets :
       LET prior == Row(t, route[t].current).cred
           same == Secret(creds[t], prior) = s
           cred == IF same THEN prior ELSE NewCredential(t)
           id == NewId(t)
       IN /\ Insert(t, OwnRow(id, Plain, cred), Len(rows[t]) + 1)
          /\ creds' = [creds EXCEPT ![t] = NewSecret(t, IF same THEN None ELSE s)]
          /\ planned' = [planned EXCEPT ![t] = @ \cup {cred}]
          /\ Reroute(t, Routed(id))
          /\ Redraft(t, <<[id |-> id, rev |-> 1]>>)
    BY DEF Adopt
  <1>3. UNCHANGED <<universals, ucreds, gate, request>> /\ route[t].current # None
      BY DEF Adopt
  <1> DEFINE prior == Row(t, route[t].current).cred
             same == Secret(creds[t], prior) = s
             n == IF same THEN prior ELSE NewCredential(t)
             id == NewId(t)
             e == OwnRow(id, Plain, n)
             c == NewSecret(t, IF same THEN None ELSE s)
  <1>4. /\ Insert(t, e, Len(rows[t]) + 1) /\ creds' = [creds EXCEPT ![t] = c]
        /\ planned' = [planned EXCEPT ![t] = planned[t] \cup {n}]
        /\ Reroute(t, Routed(id)) /\ Redraft(t, <<[id |-> id, rev |-> 1]>>)
    BY <1>1, <1>2 DEF StoreOK, PlansOK
  <1>5. id \in Nat \ {0} /\ id \notin Ids(rows[t]) BY <1>1, NewIdIs
  <1>6. prior \in Ref /\ (prior = None \/ prior \in DOMAIN creds[t])
    <2>1. route[t].current \in Ids(rows[t]) BY <1>1, <1>3 DEF RoutesExist
    <2>2. Row(t, route[t].current) \in ToSet(rows[t]) /\ Row(t, route[t].current) \in Providers
      BY <1>1, <2>1, RowIs
    <2>3. CredsExact(t) /\ \A x \in Targets : CredsExact(x) BY <1>1 DEF BooksOK
    <2>. QED BY <2>2, <2>3, CredIsKept DEF Providers
  <1> HIDE DEF prior
  <1>7. /\ n \in Ref /\ IsTable(c) /\ Keeps(creds[t], c)
        /\ DOMAIN c = DOMAIN creds[t] \cup ({n} \ {None})
    <2>1. CASE same
      <3>1. n = prior /\ c = creds[t] BY <1>1, <2>1, NewSecretIs
      <3>. QED BY <1>1, <1>6, <3>1 DEF Keeps, StoreOK, CredsOK
    <2>2. CASE ~same
      <3>1. n = Entered(t, s) /\ c = NewSecret(t, s) BY <2>2, NoneIsNothing DEF Entered
      <3>. QED BY <1>1, <3>1, EnteredIs
    <2>. QED BY <2>1, <2>2
  <1> HIDE DEF n, c, id
  <1>8. e \in Providers /\ e.id = id /\ e.owner = None /\ e.cred = n
    <2>1. Plain \in Values BY CatalogAssumption
    <2>. QED BY <1>5, <1>7, <2>1, OwnRowIs
  <1> HIDE DEF e
  <1>9. Len(rows[t]) + 1 \in 1 .. Len(rows[t]) + 1 BY <1>1 DEF StoreOK, RowsOK
  <1>10. /\ planned' \in [Targets -> SUBSET Ref] /\ planned'[t] = planned[t] \cup {n}
         /\ \A x \in Targets : x # t => planned'[x] = planned[x]
    BY <1>1, <1>4, <1>7 DEF StoreOK, PlansOK
  <1>11. /\ BooksOK' /\ e.id \in Ids(rows'[t])
         /\ \A x \in Targets : Ids(rows[x]) \subseteq Ids(rows'[x])
    BY <1>1, <1>3, <1>4, <1>5, <1>7, <1>8, <1>9, <1>10, OwnRowComes
  <1>12. route' = [route EXCEPT ![t] = RouteOf(t, Routed(id))] /\ catalog' \in [rev : Nat, seq : Nat]
    BY <1>1, <1>4, RerouteIs
  <1>13. Routes1(t, Routed(id), Ids(rows'[t])) BY <1>5, <1>8, <1>11, RoutedIs
  <1>14. route' \in [Targets -> Routes] /\ RoutesExist'
      BY <1>1, <1>11, <1>12, <1>13, ReroutedIs
  <1>15. draft' \in [Targets -> Drafts]
    <2>1. <<[id |-> id, rev |-> 1]>> \in Seq([id : Nat, rev : Nat]) BY <1>5
    <2>. QED BY <1>1, <1>4, <2>1, RedraftIs
  <1>16. RoutesOK' /\ PlansOK' BY <1>10, <1>12, <1>14, <1>15 DEF RoutesOK, PlansOK
  <1>17. CInv' BY <1>1, <1>3, <1>11, <1>14, <1>16, GatesStay, Assembled
  <1>18. ViewsFresh
    <2>1. \A x \in Targets : x # t => draft'[x] = draft[x]
      BY <1>1, <1>4 DEF Redraft, StoreOK, PlansOK
    <2>2. SameGenerated /\ \A x \in Targets : x # t => rows'[x] = rows[x]
      BY <1>1, <1>4, <1>5, <1>8, <1>9, InsertedRows DEF SameGenerated
    <2>. QED BY <1>1, <1>3, <1>4, <2>1, <2>2, RerouteShows
  <1>. QED BY <1>17, <1>18

LEMMA ActivateKeeps ==
  ASSUME CInv, NEW q \in Requests, Activate(q)
  PROVE  CInv' /\ ViewsFresh
  <1> DEFINE t == CHOOSE t \in Targets : gate[t] = q
             id == request[q].id
             n == Row(t, id).cred
  <1>1. StoreOK /\ BooksOK /\ RoutesExist /\ GatesInv BY DEF CInv
  <1>2. /\ request[q].at = "prepared" /\ Release(q) /\ UNCHANGED <<rows, creds, universals, ucreds>>
        /\ id \in Ids(rows[t]) /\ planned' = [planned EXCEPT ![t] = @ \cup {n}]
        /\ Reroute(t, Routed(id)) /\ Redraft(t, <<[id |-> id, rev |-> Row(t, id).rev]>>)
    BY DEF Activate
  <1>3. t \in Targets
    <2>1. request[q] \in Acting BY <1>1, <1>2, KindsOfRequest DEF GatesInv
    <2>2. \E x \in Targets : gate[x] = q
        BY <1>1, <1>2, <2>1 DEF GatesInv, ActivationsHold
    <2>. QED BY <2>2
  <1> HIDE DEF t, id
  <1>4. /\ Row(t, id) \in ToSet(rows[t]) /\ Row(t, id) \in Providers /\ Row(t, id).id = id
    BY <1>1, <1>2, <1>3, RowIs
  <1>5. id \in Nat /\ Row(t, id).rev \in Nat /\ n \in Ref BY <1>4 DEF Providers
  <1>6. /\ planned' \in [Targets -> SUBSET Ref]
        /\ \A x \in Targets : planned[x] \subseteq planned'[x]
        /\ \A x \in Targets : \A m \in planned'[x] :
             m \in planned[x] \/ \E p \in ToSet(rows[x]) : p.cred = m
    <2>1. planned \in [Targets -> SUBSET Ref] BY <1>1 DEF StoreOK, PlansOK
    <2>2. \E p \in ToSet(rows[t]) : p.cred = n BY <1>4
    <2> HIDE DEF n
    <2>. QED BY <1>2, <1>3, <1>5, <2>1, <2>2
  <1>7. BooksOK' BY <1>1, <1>2, <1>6, PlanChange
  <1>8. route' = [route EXCEPT ![t] = RouteOf(t, Routed(id))] /\ catalog' \in [rev : Nat, seq : Nat]
    BY <1>1, <1>2, <1>3, RerouteIs
  <1>9. Routes1(t, Routed(id), Ids(rows'[t])) BY <1>2, <1>5, RoutedIs
  <1>10. route' \in [Targets -> Routes] /\ RoutesExist'
    BY <1>1, <1>2, <1>3, <1>8, <1>9, ReroutedIs
  <1>11. draft' \in [Targets -> Drafts]
    <2>1. <<[id |-> id, rev |-> Row(t, id).rev]>> \in Seq([id : Nat, rev : Nat]) BY <1>5
    <2>. QED BY <1>1, <1>2, <1>3, <2>1, RedraftIs
  <1>12. RoutesOK' /\ PlansOK' BY <1>6, <1>8, <1>10, <1>11 DEF RoutesOK, PlansOK
  <1>13. GatesInv' BY <1>1, <1>2, ReleasedIs
  <1>14. CInv' BY <1>7, <1>10, <1>12, <1>13, Assembled
  <1>15. ViewsFresh
    <2>1. \A x \in Targets : x # t => draft'[x] = draft[x] /\ rows'[x] = rows[x]
      BY <1>1, <1>2, <1>3 DEF Redraft, StoreOK, PlansOK
    <2>2. SameGenerated BY <1>2 DEF SameGenerated
    <2>. QED BY <1>1, <1>2, <1>3, <2>1, <2>2, RerouteShows
  <1>. QED BY <1>14, <1>15

(* A confirmation that makes a provider, and one that finds it.             *)
LEMMA ConfirmKeeps ==
  ASSUME CInv, NEW q \in Requests, ConfirmImport(q)
  PROVE  CInv' /\ ViewsFresh
  <1> DEFINE t == request[q].kind.target
             create == request[q].id = 0
             id == IF create THEN NewId(t) ELSE request[q].id
             rev == IF create THEN 1 ELSE Row(t, id).rev
             s == request[q].kind.secret
             e == OwnRow(id, Plain, NewCredential(t))
  <1>1. StoreOK /\ BooksOK /\ RoutesExist /\ GatesInv BY DEF CInv
  <1>2. /\ request[q].at = "previewed" /\ Release(q)
        /\ UNCHANGED <<universals, ucreds, catalog, planned>>
        /\ ~create => IsExact(q)
        /\ IF create
             THEN Insert(t, e, Len(rows[t]) + 1) /\ creds' = [creds EXCEPT ![t] = NewSecret(t, s)]
             ELSE UNCHANGED <<rows, creds>>
        /\ \E drafts \in BOOLEAN :
             /\ IF drafts THEN Redraft(t, <<[id |-> id, rev |-> rev]>>) ELSE UNCHANGED draft
             /\ route' = IF create \/ drafts THEN Bump(t) ELSE route
    BY DEF ConfirmImport
  <1>3. t \in Targets /\ (create => s \in Secrets)
    <2>1. request[q] \in Previewed BY <1>1, <1>2, KindsOfRequest DEF GatesInv
    <2>. QED BY <2>1 DEF Previewed
  <1>4. /\ BooksOK' /\ id \in Nat /\ rev \in Nat
        /\ \A x \in Targets : Ids(rows[x]) \subseteq Ids(rows'[x])
        /\ create => e \in Providers /\ e.owner = None /\ e.id \notin Ids(rows[t])
    <2>1. CASE create
      <3>1. /\ id \in Nat \ {0} /\ id \notin Ids(rows[t]) /\ rev = 1
        BY <1>1, <1>3, <2>1, NewIdIs
      <3>2. /\ NewCredential(t) = Entered(t, s) /\ Entered(t, s) \in Ref
            /\ IsTable(NewSecret(t, s)) /\ Keeps(creds[t], NewSecret(t, s))
            /\ DOMAIN NewSecret(t, s) = DOMAIN creds[t] \cup ({Entered(t, s)} \ {None})
        BY <1>1, <1>3, <2>1, NoneIsNothing, EnteredIs DEF Entered
      <3>3. Insert(t, e, Len(rows[t]) + 1) /\ creds' = [creds EXCEPT ![t] = NewSecret(t, s)]
        BY <1>2, <2>1
      <3> HIDE DEF id, rev, t, s
      <3>4. e \in Providers /\ e.id = id /\ e.owner = None /\ e.cred = NewCredential(t)
        <4>1. Plain \in Values BY CatalogAssumption
        <4>. QED BY <3>1, <3>2, <4>1, OwnRowIs
      <3>5. Len(rows[t]) + 1 \in 1 .. Len(rows[t]) + 1 BY <1>1, <1>3 DEF StoreOK, RowsOK
      <3> HIDE DEF e
      <3>6. /\ \A x \in Targets : planned'[x] = planned[x]
            /\ planned[t] \subseteq planned'[t] /\ planned'[t] \subseteq planned[t] \cup {e.cred}
        BY <1>2
      <3>7. BooksOK' /\ \A x \in Targets : Ids(rows[x]) \subseteq Ids(rows'[x])
        BY <1>1, <1>2, <1>3, <3>1, <3>2, <3>3, <3>4, <3>5, <3>6, OwnRowComes
      <3>. QED BY <3>1, <3>4, <3>7
    <2>2. CASE ~create
      <3>1. UNCHANGED <<rows, creds>> BY <1>2, <2>2
      <3>2. BooksOK' BY <1>1, <1>2, <3>1, BooksStay
      <3>3. id = request[q].id /\ rev = Row(t, id).rev /\ id \in Ids(rows[t])
        BY <1>2, <2>2 DEF IsExact, Ids
      <3>4. Row(t, id) \in Providers /\ Row(t, id).id = id BY <1>1, <1>3, <3>3, RowIs
      <3>. QED BY <2>2, <3>1, <3>2, <3>3, <3>4 DEF Providers
    <2>. QED BY <2>1, <2>2
  <1> HIDE DEF t, id, rev, create, e
  <1>5. draft' \in [Targets -> Drafts]
    <2>1. <<[id |-> id, rev |-> rev]>> \in Seq([id : Nat, rev : Nat]) BY <1>4
    <2>2. Redraft(t, <<[id |-> id, rev |-> rev]>>) \/ UNCHANGED draft BY <1>2
    <2>. QED BY <1>1, <1>3, <2>1, <2>2, RedraftIs DEF StoreOK, PlansOK
  <1>6. route' \in [Targets -> Routes] /\ SameRoutes(route, route')
    <2>1. route' = Bump(t) \/ route' = route BY <1>2
    <2>. QED BY <1>1, <1>3, <2>1, BumpIs DEF StoreOK, RoutesOK, SameRoutes
  <1>7. RoutesOK' /\ PlansOK' BY <1>1, <1>2, <1>5, <1>6 DEF StoreOK, RoutesOK, PlansOK
  <1>8. GatesInv' BY <1>1, <1>2, ReleasedIs
  <1>9. RoutesExist' BY <1>1, <1>4, <1>6, RowsGrow
  <1>10. CInv' BY <1>4, <1>7, <1>8, <1>9, Assembled
  <1>11. ViewsFresh
    <2>1. PICK drafts \in BOOLEAN :
            /\ IF drafts THEN Redraft(t, <<[id |-> id, rev |-> rev]>>) ELSE UNCHANGED draft
            /\ route' = IF create \/ drafts THEN Bump(t) ELSE route
      BY <1>2
    <2>2. \A x \in Targets : x # t => draft'[x] = draft[x]
      BY <1>1, <2>1 DEF Redraft, StoreOK, PlansOK
    <2>3. CASE create
      <3>1. Len(rows[t]) + 1 \in 1 .. Len(rows[t]) + 1 BY <1>1, <1>3 DEF StoreOK, RowsOK
      <3>2. Insert(t, e, Len(rows[t]) + 1) /\ route' = Bump(t) BY <1>2, <2>1, <2>3
      <3>. QED BY <1>1, <1>2, <1>3, <1>4, <2>2, <2>3, <3>1, <3>2, OwnRowShows
    <2>4. CASE ~create /\ drafts
      <3>1. UNCHANGED rows /\ route' = Bump(t) BY <1>2, <2>1, <2>4
      <3>. QED BY <1>1, <1>2, <1>3, <2>2, <3>1, RowsStayAndShow
    <2>5. CASE ~create /\ ~drafts
      <3>1. UNCHANGED store BY <1>2, <2>1, <2>5 DEF store
      <3>. QED BY <3>1, StoreStaysAndShows
    <2>. QED BY <2>3, <2>4, <2>5
  <1>. QED BY <1>10, <1>11

-----------------------------------------------------------------------------
(* Steps of a request that leave the store.                                 *)
LEMMA StoreStays ==
  ASSUME CInv, UNCHANGED store, GatesInv'
  PROVE  CInv' /\ ViewsFresh
  <1>1. StoreOK /\ BooksOK /\ RoutesExist BY DEF CInv
  <1>2. UNCHANGED <<rows, creds, universals, ucreds, catalog, route, draft, planned>>
      BY DEF store
  <1>3. BooksOK' BY <1>1, <1>2, BooksStay
  <1>4. RoutesOK' /\ PlansOK' /\ RoutesExist'
    BY <1>1, <1>2 DEF StoreOK, RoutesOK, PlansOK, RoutesExist
  <1>5. CInv' BY <1>3, <1>4, Assembled
  <1>. QED BY <1>5, StoreStaysAndShows

LEMMA PlannedIs ==
  ASSUME NEW u
  PROVE  PlannedTargets(u) \in {<<>>, <<"codex">>, <<"claude">>, LockOrder}
  <1> DEFINE S == {t \in Targets : ~Current(u, t)}
  <1>1. /\ ToSet(<<>>) = {} /\ ToSet(<<"codex">>) = {"codex"} /\ ToSet(<<"claude">>) = {"claude"}
        /\ ToSet(LockOrder) = {"codex", "claude"}
    BY DEF ToSet, LockOrder
  <1>2. S = {} \/ S = {"codex"} \/ S = {"claude"} \/ S = {"codex", "claude"}
      BY DEF Targets
  <1>3. PlannedTargets(u) = InLockOrder(S) BY DEF PlannedTargets
  <1> HIDE DEF S
  <1>4. \E s \in {<<>>, <<"codex">>, <<"claude">>, LockOrder} : ToSet(s) = S
      BY <1>1, <1>2
  <1>. QED BY <1>3, <1>4 DEF InLockOrder

LEMMA IssueKeeps ==
  ASSUME CInv, NEW q \in Requests, IssueSynchronize(q) \/ IssueLifecycle(q) \/ IssueActivate(q)
  PROVE  CInv' /\ ViewsFresh
  <1>1. StoreOK /\ GatesInv BY DEF CInv
  <1>2. request[q].at = "idle" /\ UNCHANGED <<store, gate>>
    BY DEF IssueSynchronize, IssueLifecycle, IssueActivate
  <1>3. request[q] = Idle BY <1>1, <1>2, KindsOfRequest DEF GatesInv
  <1>4. PICK r \in Acting :
          /\ request' = [request EXCEPT ![q] = r]
          /\ r.at = "locking" /\ (r.kind.act = "activate" => r.want # <<>>)
    <2>1. catalog.rev \in Nat /\ \A t \in Targets : route[t].rev \in Nat
      BY <1>1 DEF StoreOK, RoutesOK, Routes
    <2>2. \A u \in ToSet(universals) : u.rev \in Nat /\ u.id \in Nat
      <3>1. ToSet(universals) \subseteq Sources BY <1>1, InToSet DEF StoreOK, SourcesOK
      <3>. QED BY <3>1 DEF Sources
    <2>3. CASE IssueSynchronize(q)
      <3>1. PICK u \in ToSet(universals) :
              Issue(q, [act |-> "synchronize", rev |-> u.rev], u.id, PlannedTargets(u))
        BY <2>3 DEF IssueSynchronize
      <3> DEFINE r == [at |-> "locking", kind |-> [act |-> "synchronize", rev |-> u.rev],
                       id |-> u.id, want |-> PlannedTargets(u), seen |-> catalog.rev]
      <3>2. r \in Acting BY <2>1, <2>2, PlannedIs DEF Acting
      <3>3. request' = [request EXCEPT ![q] = r] BY <3>1 DEF Issue
      <3>. QED BY <3>2, <3>3
    <2>4. CASE IssueLifecycle(q)
      <3>1. PICK u \in ToSet(universals) :
              Issue(q, [act |-> "lifecycle", rev |-> u.rev], u.id, LockOrder)
        BY <2>4 DEF IssueLifecycle
      <3> DEFINE r == [at |-> "locking", kind |-> [act |-> "lifecycle", rev |-> u.rev],
                       id |-> u.id, want |-> LockOrder, seen |-> catalog.rev]
      <3>2. r \in Acting BY <2>1, <2>2 DEF Acting
      <3>3. request' = [request EXCEPT ![q] = r] BY <3>1 DEF Issue
      <3>. QED BY <3>2, <3>3
    <2>5. CASE IssueActivate(q)
      <3>1. PICK t \in Targets : \E p \in ToSet(rows[t]) :
              request' = [request EXCEPT ![q] =
                [at |-> "locking", kind |-> [act |-> "activate", rev |-> 0], id |-> p.id,
                 want |-> <<t>>, seen |-> route[t].rev]]
        BY <2>5 DEF IssueActivate
      <3>2. PICK p \in ToSet(rows[t]) :
              request' = [request EXCEPT ![q] =
                [at |-> "locking", kind |-> [act |-> "activate", rev |-> 0], id |-> p.id,
                 want |-> <<t>>, seen |-> route[t].rev]]
        BY <3>1
      <3> DEFINE r == [at |-> "locking", kind |-> [act |-> "activate", rev |-> 0], id |-> p.id,
                       want |-> <<t>>, seen |-> route[t].rev]
      <3>3. p.id \in Nat
        <4>1. ToSet(rows[t]) \subseteq Providers BY <1>1, InToSet DEF StoreOK, RowsOK
        <4>. QED BY <4>1 DEF Providers
      <3>4. <<t>> \in {<<"codex">>, <<"claude">>} /\ <<t>> # <<>> BY DEF Targets
      <3>5. r \in Acting BY <2>1, <3>3, <3>4 DEF Acting
      <3>. QED BY <3>2, <3>4, <3>5
    <2>. QED BY <2>3, <2>4, <2>5
  <1>5. GatesInv' BY <1>1, <1>2, <1>3, <1>4, StartedIs
  <1>. QED BY <1>2, <1>5, StoreStays

LEMMA PreviewKeeps ==
  ASSUME CInv, NEW q \in Requests, PreviewImport(q)
  PROVE  CInv' /\ ViewsFresh
  <1>1. StoreOK /\ BooksOK /\ GatesInv BY DEF CInv
  <1>2. request[q].at = "idle" /\ UNCHANGED <<store, gate>> BY DEF PreviewImport
  <1>3. request[q] = Idle BY <1>1, <1>2, KindsOfRequest DEF GatesInv
  <1>4. PICK t \in Targets :
          \E c \in {<<0, Candidate(t, Plain, s)>> : s \in Secrets}
                   \cup {<<r.id, Candidate(t, r.model, Secret(creds[t], r.cred))>> :
                           r \in {x \in ToSet(rows[t]) : x.owner = None}} :
            request' = [request EXCEPT ![q] =
              [at |-> "previewed", kind |-> c[2], id |-> c[1], want |-> <<>>]]
    BY DEF PreviewImport
  <1>5. PICK n \in Nat, v \in Values, s \in Secrets \cup {None} :
          /\ n = 0 => s \in Secrets
          /\ request' = [request EXCEPT ![q] =
               [at |-> "previewed", kind |-> Candidate(t, v, s), id |-> n, want |-> <<>>]]
    <2>1. PICK c : /\ \/ \E s \in Secrets : c = <<0, Candidate(t, Plain, s)>>
                      \/ \E r \in ToSet(rows[t]) :
                           c = <<r.id, Candidate(t, r.model, Secret(creds[t], r.cred))>>
                   /\ request' = [request EXCEPT ![q] =
                        [at |-> "previewed", kind |-> c[2], id |-> c[1], want |-> <<>>]]
      BY <1>4
    <2>2. CASE \E s \in Secrets : c = <<0, Candidate(t, Plain, s)>>
      <3>1. PICK s \in Secrets : c = <<0, Candidate(t, Plain, s)>> BY <2>2
      <3>2. c[1] = 0 /\ c[2] = Candidate(t, Plain, s) BY <3>1
      <3>. QED BY <2>1, <3>2, CatalogAssumption
    <2>3. CASE \E r \in ToSet(rows[t]) : c = <<r.id, Candidate(t, r.model, Secret(creds[t], r.cred))>>
      <3>1. PICK r \in ToSet(rows[t]) : c = <<r.id, Candidate(t, r.model, Secret(creds[t], r.cred))>>
        BY <2>3
      <3>2. c[1] = r.id /\ c[2] = Candidate(t, r.model, Secret(creds[t], r.cred))
          BY <3>1
      <3>3. r \in Providers BY <1>1, InToSet DEF StoreOK, RowsOK
      <3>4. Secret(creds[t], r.cred) \in Secrets \cup {None}
        BY <1>1, CredIsKept DEF BooksOK, CredsOK, IsTable, Secret
      <3>. QED BY <2>1, <3>2, <3>3, <3>4 DEF Providers
    <2>. QED BY <2>1, <2>2, <2>3
  <1> DEFINE r == [at |-> "previewed", kind |-> Candidate(t, v, s), id |-> n, want |-> <<>>]
  <1>6. r \in Previewed BY <1>5 DEF Previewed, Candidate
  <1>7. r \notin Acting BY DEF Acting
  <1> HIDE DEF r
  <1>8. GatesInv'
    <2>1. request' = [request EXCEPT ![q] = r] /\ gate' = gate BY <1>2, <1>5 DEF r
    <2>. QED BY <1>1, <1>3, <1>6, <1>7, <2>1, StartedIs
  <1>. QED BY <1>2, <1>8, StoreStays

LEMMA GateStepsKeep ==
  ASSUME CInv, NEW q \in Requests, Lock(q) \/ Refuse(q) \/ Prepare(q)
  PROVE  CInv' /\ ViewsFresh
  <1>1. GatesInv /\ UNCHANGED store BY DEF CInv, Lock, Refuse, Prepare
  <1>2. GatesInv' BY <1>1, LockKeepsOrder, ReleasedIs, PrepareKeepsOrder DEF Refuse
  <1>. QED BY <1>1, <1>2, StoreStays

-----------------------------------------------------------------------------
(* Universal Providers.                                                     *)
(* What a provider was generated from is still there, or it is in step with *)
(* what is there now.                                                       *)
Follows(x, p) ==
  \/ p \in ToSet(rows[x]) /\ \A u \in ToSet(universals) : u.id = p.owner => u \in ToSet(universals')
  \/ \E w \in ToSet(universals') : w.id = p.owner /\ InStep(x, p, w)'

LEMMA SourceChange ==
  ASSUME StoreOK, BooksOK, RowsOK', CredsOK', SourcesOK', UcredsExact', OnePerTarget',
         \A x \in Targets : CredsExact(x)',
         Keeps(ucreds, ucreds'), \A x \in Targets : Keeps(creds[x], creds'[x]),
         \A x \in Targets : \A p \in ToSet(rows'[x]) : p.owner # None => Follows(x, p)
  PROVE  BooksOK'
  <1>1. SUFFICES Owned' BY DEF BooksOK
  <1>2. SUFFICES ASSUME NEW x \in Targets, NEW p \in ToSet(rows'[x]), p.owner # None
                 PROVE  \E u \in ToSet(universals') : u.id = p.owner /\ InStep(x, p, u)'
    BY DEF Owned
  <1>3. CASE \E w \in ToSet(universals') : w.id = p.owner /\ InStep(x, p, w)' BY <1>3
  <1>4. CASE /\ p \in ToSet(rows[x])
             /\ \A u \in ToSet(universals) : u.id = p.owner => u \in ToSet(universals')
    <2>1. PICK u \in ToSet(universals) : u.id = p.owner /\ InStep(x, p, u)
      BY <1>2, <1>4 DEF BooksOK, Owned
    <2>2. Secret(creds'[x], p.cred) = Secret(creds[x], p.cred)
      <3>1. p.cred = None \/ p.cred \in DOMAIN creds[x] BY <1>4, CredIsKept DEF BooksOK
      <3>2. p.cred = None \/ p.cred \in DOMAIN creds'[x] BY <1>2 DEF CredsExact
      <3>. QED BY <3>1, <3>2, SecretKept
    <2>3. u \in ToSet(universals') BY <1>4, <2>1
    <2>4. Secret(ucreds', u.cred) = Secret(ucreds, u.cred)
      <3>1. u.cred = None \/ u.cred \in DOMAIN ucreds BY UcredIsKept DEF BooksOK
      <3>2. u.cred = None \/ u.cred \in DOMAIN ucreds' BY <2>3 DEF UcredsExact
      <3>. QED BY <3>1, <3>2, SecretKept
    <2>5. InStep(x, p, u)' BY <2>1, <2>2, <2>4 DEF InStep
    <2>. QED BY <2>1, <2>3, <2>5
  <1>. QED BY <1>2, <1>3, <1>4 DEF Follows

(* A source comes, and no provider of it.                                   *)
LEMMA SourceComes ==
  ASSUME StoreOK, BooksOK, NEW e \in Sources, e.id \notin Ids(universals),
         universals' = Append(universals, e),
         IsTable(ucreds'), Keeps(ucreds, ucreds'),
         DOMAIN ucreds' = DOMAIN ucreds \cup ({e.cred} \ {None}),
         UNCHANGED <<rows, creds, planned>>
  PROVE  BooksOK'
  <1>1. /\ universals' \in Seq(Sources) /\ Keyed(universals')
        /\ ToSet(universals') = ToSet(universals) \cup {e}
    BY AppendedTo DEF StoreOK, SourcesOK
  <1>2. SourcesOK' BY <1>1 DEF SourcesOK
  <1>3. UcredsExact' BY <1>1 DEF BooksOK, UcredsExact
  <1>4. RowsOK' /\ CredsOK' /\ OnePerTarget'
      BY DEF BooksOK, RowsOK, CredsOK, OnePerTarget
  <1>5. \A x \in Targets : CredsExact(x)' BY DEF BooksOK, CredsExact
  <1>6. \A x \in Targets : Keeps(creds[x], creds'[x]) BY DEF Keeps
  <1>7. \A x \in Targets : \A p \in ToSet(rows'[x]) : p.owner # None => Follows(x, p)
    BY <1>1 DEF Follows
  <1>. QED BY <1>2, <1>3, <1>4, <1>5, <1>6, <1>7, SourceChange

LEMMA OverlaysAre ==
  ASSUME NEW on \in BOOLEAN, NEW v \in Values
  PROVE  Overlay(on, v) \in Overlays
  BY DEF Overlay, Overlays

LEMMA NewSourceIs ==
  ASSUME NEW id \in Nat, NEW v \in Values, NEW n \in Ref, NEW targets \in [Targets -> Overlays]
  PROVE  /\ NewSource(id, v, n, targets) \in Sources
         /\ NewSource(id, v, n, targets).id = id /\ NewSource(id, v, n, targets).cred = n
  BY DEF NewSource, Sources

LEMMA RoutesStay ==
  ASSUME StoreOK, RoutesExist, UNCHANGED <<rows, route>>, BumpCatalog
  PROVE  RoutesOK' /\ RoutesExist'
  <1>1. catalog' \in [rev : Nat, seq : Nat] BY BumpCatalogIs
  <1>. QED BY <1>1 DEF StoreOK, RoutesOK, RoutesExist

LEMMA StillThere ==
  ASSUME NEW t \in Targets, SameTarget(t), ToSet(universals) \subseteq ToSet(universals')
  PROVE  StillShown(t)
  BY DEF StillShown, AsCurrent

LEMMA StillSame ==
  ASSUME NEW t \in Targets, SameTarget(t), NEW u, NEW w, w.id = u.id,
         w.rev = u.rev, w.targets[t].ov = u.targets[t].ov,
         ToSet(universals') = (ToSet(universals) \ {u}) \cup {w}
  PROVE  StillShown(t)
  <1>1. ASSUME NEW p \in ToSet(rows[t]), NEW z \in ToSet(universals), p.owner = z.id
        PROVE  \E y \in ToSet(universals') : y.id = z.id /\ AsCurrent(t, p, z, y)
    <2>1. CASE z = u BY <2>1 DEF AsCurrent
    <2>2. CASE z # u BY <2>2 DEF AsCurrent
    <2>. QED BY <2>1, <2>2
  <1>. QED BY <1>1 DEF StillShown

LEMMA CreateUniversalKeeps ==
  ASSUME CInv, CreateUniversal
  PROVE  CInv' /\ ViewsFresh
  <1>1. StoreOK /\ BooksOK /\ RoutesExist /\ GatesInv BY DEF CInv
  <1>2. PICK s \in Secrets \cup {None}, on \in SUBSET Targets :
       /\ universals' = Append(universals,
            NewSource(NewUniversal, Plain, IF s = None THEN None ELSE Fresh(DOMAIN ucreds),
                      [t \in Targets |-> Overlay(t \in on, Plain)]))
       /\ ucreds' = NewUniversalSecret(s)
    BY DEF CreateUniversal
  <1> DEFINE n == IF s = None THEN None ELSE Fresh(DOMAIN ucreds)
             targets == [t \in Targets |-> Overlay(t \in on, Plain)]
             e == NewSource(NewUniversal, Plain, n, targets)
  <1>3. BumpCatalog /\ UNCHANGED <<rows, creds, route, draft, planned, gate, request>>
    BY DEF CreateUniversal
  <1>4. NewUniversal \in Nat /\ NewUniversal \notin Ids(universals)
      BY <1>1, NewUniversalIs
  <1>5. /\ n \in Ref /\ IsTable(ucreds') /\ Keeps(ucreds, ucreds')
        /\ DOMAIN ucreds' = DOMAIN ucreds \cup ({n} \ {None})
    <2>1. CASE s = None
      <3>1. n = None /\ ucreds' = ucreds BY <1>1, <1>2, <2>1, NewUniversalSecretIs
      <3>. QED BY <1>1, <3>1 DEF Keeps, Ref, StoreOK, SourcesOK
    <2>2. CASE s # None
      <3>1. n = Fresh(DOMAIN ucreds) /\ s \in Secrets BY <2>2
      <3>2. /\ n \in Nat /\ IsTable(ucreds') /\ Keeps(ucreds, ucreds')
            /\ DOMAIN ucreds' = DOMAIN ucreds \cup {n}
        BY <1>1, <1>2, <3>1, NewUniversalSecretIs
      <3>3. {n} \ {None} = {n} BY <3>2, NoneIsNothing
      <3>. QED BY <3>2, <3>3 DEF Ref
    <2>. QED BY <2>1, <2>2
  <1>6. targets \in [Targets -> Overlays]
    <2>1. Plain \in Values BY CatalogAssumption
    <2>2. ASSUME NEW t \in Targets PROVE Overlay(t \in on, Plain) \in Overlays
      <3>1. CASE t \in on BY <2>1, <3>1 DEF Overlay, Overlays
      <3>2. CASE t \notin on BY <2>1, <3>2 DEF Overlay, Overlays
      <3>. QED BY <3>1, <3>2
    <2>. QED BY <2>2
  <1> HIDE DEF n, targets
  <1>7. e \in Sources /\ e.id = NewUniversal /\ e.cred = n
    <2>1. Plain \in Values BY CatalogAssumption
    <2>. QED BY <1>4, <1>5, <1>6, <2>1, NewSourceIs
  <1>8. universals' = Append(universals, e) BY <1>2 DEF n, targets
  <1> HIDE DEF e
  <1>9. BooksOK' BY <1>1, <1>3, <1>4, <1>5, <1>7, <1>8, SourceComes
  <1>10. RoutesOK' /\ RoutesExist' BY <1>1, <1>3, RoutesStay
  <1>11. PlansOK' BY <1>1, <1>3 DEF StoreOK, PlansOK
  <1>12. CInv' BY <1>1, <1>3, <1>9, <1>10, <1>11, GatesStay, Assembled
  <1>13. ViewsFresh
    <2>1. \A t \in Targets : SameTarget(t) BY <1>3 DEF SameTarget
    <2>2. ToSet(universals) \subseteq ToSet(universals')
      BY <1>1, <1>4, <1>7, <1>8, AppendedTo DEF StoreOK, SourcesOK
    <2>. QED BY <1>1, <1>3, <1>9, <2>1, <2>2, StillThere, SourcesShow DEF BooksOK
  <1>. QED BY <1>12, <1>13

LEMMA DuplicateUniversalKeeps ==
  ASSUME CInv, DuplicateUniversal
  PROVE  CInv' /\ ViewsFresh
  <1>1. StoreOK /\ BooksOK /\ RoutesExist /\ GatesInv BY DEF CInv
  <1>2. PICK u \in ToSet(universals), reuse \in BOOLEAN :
       universals' = Append(universals,
         NewSource(NewUniversal, u.decl, IF reuse THEN u.cred ELSE None,
                   [t \in Targets |-> Overlay(u.targets[t].on, u.targets[t].model)]))
    BY DEF DuplicateUniversal
  <1> DEFINE n == IF reuse THEN u.cred ELSE None
             targets == [t \in Targets |-> Overlay(u.targets[t].on, u.targets[t].model)]
             e == NewSource(NewUniversal, u.decl, n, targets)
  <1>3. BumpCatalog /\ UNCHANGED <<rows, creds, ucreds, route, draft, planned, gate, request>>
    BY DEF DuplicateUniversal
  <1>4. NewUniversal \in Nat /\ NewUniversal \notin Ids(universals)
      BY <1>1, NewUniversalIs
  <1>5. u \in Sources BY <1>1, InToSet DEF StoreOK, SourcesOK
  <1>6. n \in Ref /\ (n = None \/ n \in DOMAIN ucreds)
    BY <1>1, <1>5, UcredIsKept DEF BooksOK, Sources, Ref
  <1>7. targets \in [Targets -> Overlays]
    <2>1. ASSUME NEW t \in Targets
          PROVE  Overlay(u.targets[t].on, u.targets[t].model) \in Overlays
      <3>1. u.targets[t] \in Overlays BY <1>5 DEF Sources
      <3>2. u.targets[t].on \in BOOLEAN /\ u.targets[t].model \in Values
          BY <3>1 DEF Overlays
      <3>. QED BY <3>2, OverlaysAre
    <2>. QED BY <2>1
  <1> HIDE DEF n, targets
  <1>8. e \in Sources /\ e.id = NewUniversal /\ e.cred = n
    <2>1. u.decl \in Values BY <1>5 DEF Sources
    <2>. QED BY <1>4, <1>6, <1>7, <2>1, NewSourceIs
  <1>9. universals' = Append(universals, e) BY <1>2 DEF n, targets
  <1> HIDE DEF e
  <1>10. /\ IsTable(ucreds') /\ Keeps(ucreds, ucreds')
         /\ DOMAIN ucreds' = DOMAIN ucreds \cup ({e.cred} \ {None})
    BY <1>1, <1>3, <1>6, <1>8 DEF StoreOK, SourcesOK, Keeps
  <1>11. BooksOK' BY <1>1, <1>3, <1>4, <1>8, <1>9, <1>10, SourceComes
  <1>12. RoutesOK' /\ RoutesExist' BY <1>1, <1>3, RoutesStay
  <1>13. PlansOK' BY <1>1, <1>3 DEF StoreOK, PlansOK
  <1>14. CInv' BY <1>1, <1>3, <1>11, <1>12, <1>13, GatesStay, Assembled
  <1>15. ViewsFresh
    <2>1. \A t \in Targets : SameTarget(t) BY <1>3 DEF SameTarget
    <2>2. ToSet(universals) \subseteq ToSet(universals')
      BY <1>1, <1>4, <1>8, <1>9, AppendedTo DEF StoreOK, SourcesOK
    <2>. QED BY <1>1, <1>3, <1>11, <2>1, <2>2, StillThere, SourcesShow DEF BooksOK
  <1>. QED BY <1>14, <1>15

(* The route of the targets in touched is bumped.                           *)
LEMMA SomeBumped ==
  ASSUME StoreOK, NEW touched,
         route' = [t \in Targets |-> IF t \in touched THEN Bump(t)[t] ELSE route[t]]
  PROVE  route' \in [Targets -> Routes] /\ SameRoutes(route, route')
  <1>1. \A t \in Targets : Bump(t)[t] \in Routes /\ SameRoutes(route, Bump(t)) BY BumpIs
  <1>2. \A t \in Targets : route[t] \in Routes BY DEF StoreOK, RoutesOK
  <1>. QED BY <1>1, <1>2 DEF SameRoutes

LEMMA ImportUniversalKeeps ==
  ASSUME CInv, ImportUniversal
  PROVE  CInv' /\ ViewsFresh
  <1>1. StoreOK /\ BooksOK /\ RoutesExist /\ GatesInv BY DEF CInv
  <1>2. PICK s \in Secrets, on \in SUBSET Targets : \E generated \in SUBSET on :
       LET u == NewUniversal
       IN /\ universals' = Append(universals,
               NewSource(u, Plain, Fresh(DOMAIN ucreds),
                 [t \in Targets |-> [Overlay(t \in on, Plain) EXCEPT
                    !.syncSrc = IF t \in on THEN 1 ELSE 0, !.syncOv = IF t \in on THEN 1 ELSE 0]]))
          /\ ucreds' = NewUniversalSecret(s)
          /\ rows' = [t \in Targets |->
               IF t \in generated THEN Append(rows[t], Imported(NewId(t), NewCredential(t), u))
                                  ELSE rows[t]]
          /\ creds' = [t \in Targets |-> IF t \in generated THEN NewSecret(t, s) ELSE creds[t]]
          /\ route' = [t \in Targets |-> IF t \in generated THEN Bump(t)[t] ELSE route[t]]
    BY DEF ImportUniversal
  <1> DEFINE u == NewUniversal
             n == Fresh(DOMAIN ucreds)
             o(t) == [Overlay(t \in on, Plain) EXCEPT
                        !.syncSrc = IF t \in on THEN 1 ELSE 0, !.syncOv = IF t \in on THEN 1 ELSE 0]
             targets == [t \in Targets |-> o(t)]
             source == NewSource(u, Plain, n, targets)
             e(t) == Imported(NewId(t), NewCredential(t), u)
  <1>3. PICK generated \in SUBSET on :
          /\ universals' = Append(universals, source)
          /\ ucreds' = NewUniversalSecret(s)
          /\ rows' = [t \in Targets |-> IF t \in generated THEN Append(rows[t], e(t)) ELSE rows[t]]
          /\ creds' = [t \in Targets |-> IF t \in generated THEN NewSecret(t, s) ELSE creds[t]]
          /\ route' = [t \in Targets |-> IF t \in generated THEN Bump(t)[t] ELSE route[t]]
    BY <1>2
  <1>4. BumpCatalog /\ UNCHANGED <<draft, planned, gate, request>>
      BY DEF ImportUniversal
  <1>5. u \in Nat /\ u \notin Ids(universals) BY <1>1, NewUniversalIs
  <1>6. Plain \in Values /\ s # None BY CatalogAssumption
  <1>7. /\ n \in Nat /\ n # None /\ IsTable(ucreds') /\ Keeps(ucreds, ucreds')
        /\ DOMAIN ucreds' = DOMAIN ucreds \cup {n} /\ ucreds'[n] = s
    BY <1>1, <1>3, NewUniversalSecretIs, NoneIsNothing
  <1> HIDE DEF u, n
  <1>8. ASSUME NEW t \in Targets
        PROVE  /\ o(t) \in Overlays /\ o(t).model = Plain /\ o(t).ov = 1
               /\ t \in on => o(t).on /\ o(t).syncSrc = 1 /\ o(t).syncOv = 1
    <2> DEFINE x == Overlay(t \in on, Plain)
    <2>1. /\ x \in Overlays /\ x.model = Plain /\ x.ov = 1 /\ (t \in on => x.on)
      <3>1. x.model = Plain /\ x.ov = 1 /\ (t \in on => x.on) BY DEF Overlay
      <3>2. x \in Overlays
        <4>1. (t \in on) \in BOOLEAN OBVIOUS
        <4>. QED BY <1>6, <4>1 DEF Overlay, Overlays
      <3>. QED BY <3>1, <3>2
    <2> DEFINE k == IF t \in on THEN 1 ELSE 0
    <2>2. o(t) = [x EXCEPT !.syncSrc = k, !.syncOv = k] OBVIOUS
    <2>3. k \in Nat /\ (t \in on => k = 1) OBVIOUS
    <2> HIDE DEF o, x, k
    <2>. QED BY <2>1, <2>2, <2>3 DEF Overlays
  <1> HIDE DEF o
  <1>9. PICK w \in Sources :
          /\ w = source
          /\ w.id = u /\ w.cred = n /\ w.rev = 1 /\ w.decl = Plain
          /\ \A t \in Targets : w.targets[t] = o(t)
    <2>1. targets \in [Targets -> Overlays] BY <1>8
    <2>2. n \in Ref BY <1>7 DEF Ref
    <2>3. /\ source \in Sources /\ source.id = u /\ source.cred = n /\ source.rev = 1
          /\ source.decl = Plain /\ source.targets = targets
      BY <1>5, <1>6, <2>1, <2>2 DEF NewSource, Sources
    <2>. QED BY <2>3
  <1> HIDE DEF source
  <1>10. /\ universals' \in Seq(Sources) /\ Keyed(universals')
         /\ ToSet(universals') = ToSet(universals) \cup {w}
    BY <1>1, <1>3, <1>5, <1>9, AppendedTo DEF StoreOK, SourcesOK
  <1>11. SourcesOK' BY <1>7, <1>10 DEF SourcesOK
  <1>12. UcredsExact' BY <1>1, <1>7, <1>9, <1>10 DEF BooksOK, UcredsExact
  <1>13. ASSUME NEW t \in Targets
         PROVE  /\ e(t) \in Providers /\ e(t).id \notin Ids(rows[t]) /\ e(t).cred = NewCredential(t)
                /\ e(t).owner = u /\ e(t).src = 1 /\ e(t).ov = 1
                /\ e(t).decl = Plain /\ e(t).model = Plain
    <2>1. NewId(t) \in Nat \ {0} /\ NewId(t) \notin Ids(rows[t]) /\ NewCredential(t) \in Nat
      BY <1>1, NewIdIs, NewSecretIs
    <2> DEFINE x == OwnRow(NewId(t), Plain, NewCredential(t))
    <2>2. /\ x \in Providers /\ x.id = NewId(t) /\ x.cred = NewCredential(t) /\ x.model = Plain
      BY <1>5, <1>6, <2>1 DEF OwnRow, Providers, Ref
    <2>3. e(t) = [x EXCEPT !.decl = Plain, !.owner = u, !.src = 1, !.ov = 1]
        BY DEF Imported
    <2> HIDE DEF e, x
    <2>4. e(t) \in Providers
      <3>1. u \in Ref BY <1>5 DEF Ref
      <3>2. \A d \in Values, m \in Ref, j \in Nat :
              [x EXCEPT !.decl = d, !.owner = m, !.src = j, !.ov = j] \in Providers
        BY <2>2 DEF Providers
      <3>3. 1 \in Nat /\ Plain \in Values BY <1>6
      <3>4. [x EXCEPT !.decl = Plain, !.owner = u, !.src = 1, !.ov = 1] \in Providers
        BY <3>1, <3>2, <3>3
      <3>. QED BY <2>3, <3>4
    <2>5. /\ e(t).id = x.id /\ e(t).cred = x.cred /\ e(t).model = x.model
          /\ e(t).owner = u /\ e(t).src = 1 /\ e(t).ov = 1 /\ e(t).decl = Plain
      BY <2>2, <2>3 DEF Providers
    <2>. QED BY <2>1, <2>2, <2>4, <2>5
  <1> HIDE DEF e
  <1>14. ASSUME NEW t \in Targets
         PROVE  /\ rows'[t] \in Seq(Providers) /\ Keyed(rows'[t])
                /\ ToSet(rows'[t]) = ToSet(rows[t]) \cup (IF t \in generated THEN {e(t)} ELSE {})
    <2>1. rows[t] \in Seq(Providers) /\ Keyed(rows[t]) BY <1>1 DEF StoreOK, RowsOK
    <2>2. CASE t \in generated
      <3>1. rows'[t] = Append(rows[t], e(t)) BY <1>3, <2>2
      <3>. QED BY <1>13, <2>1, <2>2, <3>1, AppendedTo
    <2>3. CASE t \notin generated BY <1>3, <2>1, <2>3
    <2>. QED BY <2>2, <2>3
  <1>15. RowsOK'
    <2>1. rows' \in [Targets -> Seq(Providers)]
      <3>1. rows' = [t \in Targets |-> rows'[t]] BY <1>3
      <3>. QED BY <1>14, <3>1
    <2>. QED BY <1>14, <2>1 DEF RowsOK
  <1>16. ASSUME NEW t \in Targets
         PROVE  /\ IsTable(creds'[t]) /\ Keeps(creds[t], creds'[t])
                /\ DOMAIN creds'[t] =
                     DOMAIN creds[t] \cup (IF t \in generated THEN {NewCredential(t)} ELSE {})
                /\ t \in generated => creds'[t][NewCredential(t)] = s /\ NewCredential(t) # None
    <2>1. CASE t \in generated
      <3>1. creds'[t] = NewSecret(t, s) BY <1>3, <2>1
      <3>. QED BY <1>1, <2>1, <3>1, NewSecretIs, NoneIsNothing
    <2>2. CASE t \notin generated
      <3>1. creds'[t] = creds[t] BY <1>3, <2>2
      <3>. QED BY <1>1, <2>2, <3>1 DEF StoreOK, CredsOK, Keeps
    <2>. QED BY <2>1, <2>2
  <1>17. CredsOK'
    <2>1. creds' = [t \in Targets |-> creds'[t]] BY <1>3
    <2>. QED BY <1>16, <2>1 DEF CredsOK
  <1>18. ASSUME NEW t \in Targets PROVE CredsExact(t)'
    <2>1. DOMAIN creds[t] = ({r.cred : r \in ToSet(rows[t])} \cup planned[t]) \ {None}
      BY <1>1 DEF BooksOK, CredsExact
    <2>2. CASE t \in generated
      <3>1. ToSet(rows'[t]) = ToSet(rows[t]) \cup {e(t)} BY <1>14, <2>2
      <3>2. DOMAIN creds'[t] = DOMAIN creds[t] \cup {e(t).cred} /\ e(t).cred # None
        BY <1>13, <1>16, <2>2
      <3>. QED BY <1>4, <2>1, <3>1, <3>2 DEF CredsExact
    <2>3. CASE t \notin generated
      BY <1>3, <1>4, <2>1, <2>3 DEF CredsExact
    <2>. QED BY <2>2, <2>3
  <1>19. ASSUME NEW t \in Targets, NEW p \in ToSet(rows[t]) PROVE p.owner # u
    <2>1. u # None BY <1>5, NoneIsNothing
    <2>. QED BY <1>1, <1>5, <2>1 DEF BooksOK, Owned, Ids
  <1>20. OnePerTarget'
    <2>1. ASSUME NEW t \in Targets, NEW a \in ToSet(rows'[t]), NEW b \in ToSet(rows'[t]),
                 a.owner # None, a.owner = b.owner
          PROVE  a = b
      <3>1. \A p \in ToSet(rows'[t]) : p \in ToSet(rows[t]) \/ p = e(t) BY <1>14
      <3>2. e(t).owner = u BY <1>13
      <3>3. a \in ToSet(rows[t]) /\ b \in ToSet(rows[t]) => a = b
        BY <1>1, <2>1 DEF BooksOK, OnePerTarget
      <3>. QED BY <1>19, <2>1, <3>1, <3>2, <3>3
    <2>. QED BY <2>1 DEF OnePerTarget
  <1>21. ASSUME NEW t \in Targets, NEW p \in ToSet(rows'[t]), p.owner # None PROVE Follows(t, p)
    <2>1. CASE p \in ToSet(rows[t]) BY <1>10, <2>1 DEF Follows
    <2>2. CASE p \notin ToSet(rows[t])
      <3>1. t \in generated /\ p = e(t) /\ t \in on BY <1>14, <2>2
      <3>2. Secret(creds'[t], p.cred) = s /\ Secret(ucreds', w.cred) = s
        BY <1>7, <1>9, <1>13, <1>16, <3>1 DEF Secret
      <3>3. InStep(t, p, w)'
        BY <1>8, <1>9, <1>13, <3>1, <3>2 DEF InStep
      <3>. QED BY <1>9, <1>10, <1>13, <3>1, <3>3 DEF Follows
    <2>. QED BY <2>1, <2>2
  <1>22. BooksOK'
    BY <1>1, <1>7, <1>11, <1>12, <1>15, <1>16, <1>17, <1>18, <1>20, <1>21, SourceChange
  <1>23. route' \in [Targets -> Routes] /\ SameRoutes(route, route')
      BY <1>1, <1>3, SomeBumped
  <1>24. RoutesOK' /\ PlansOK'
    BY <1>1, <1>4, <1>23, BumpCatalogIs DEF StoreOK, RoutesOK, PlansOK
  <1>25. RoutesExist'
    <2>1. \A t \in Targets : Ids(rows[t]) \subseteq Ids(rows'[t]) BY <1>14 DEF Ids
    <2>. QED BY <1>1, <1>23, <2>1, RowsGrow
  <1>26. CInv' BY <1>1, <1>4, <1>22, <1>24, <1>25, GatesStay, Assembled
  <1>27. ViewsFresh
    <2>1. \A t \in generated : t \in Targets /\ route'[t].seq > route[t].seq
      BY <1>1, <1>3, BumpIsNewer
    <2>2. ASSUME NEW t \in Targets, t \notin generated PROVE StillShown(t)
      <3>1. SameTarget(t) BY <1>3, <1>4, <2>2 DEF SameTarget
      <3>2. ToSet(universals) \subseteq ToSet(universals') BY <1>10
      <3>. QED BY <3>1, <3>2, StillThere
    <2>. QED BY <1>1, <1>4, <1>11, <2>1, <2>2, SourcesShow
  <1>. QED BY <1>26, <1>27

(* A source is replaced by another version of it.                           *)
LEMMA SourceReplaced ==
  ASSUME StoreOK, NEW u \in ToSet(universals), NEW w \in Sources, w.id = u.id,
         universals' = [universals EXCEPT ![At(universals, u.id)] = w]
  PROVE  /\ universals' \in Seq(Sources) /\ Keyed(universals')
         /\ ToSet(universals') = (ToSet(universals) \ {u}) \cup {w}
  <1>1. universals \in Seq(Sources) /\ Keyed(universals) BY DEF StoreOK, SourcesOK
  <1>2. PICK k \in DOMAIN universals : k = At(universals, u.id) /\ universals[k] = u
      BY <1>1, AtIsIt
  <1>3. w.id = universals[k].id BY <1>2
  <1>4. PICK r \in Seq(Sources) : r = [universals EXCEPT ![k] = w]
    <2>1. [universals EXCEPT ![k] = w] \in Seq(Sources) BY <1>1
    <2>. QED BY <2>1
  <1>5. Replaces(r, universals, k, w) BY <1>1, <1>4 DEF Replaces
  <1>6. Keyed(r) /\ ToSet(r) = (ToSet(universals) \ {universals[k]}) \cup {w}
    BY <1>1, <1>3, <1>5, ReplacedAt
  <1>7. universals' = r BY <1>2, <1>4
  <1>. QED BY <1>2, <1>6, <1>7

LEMMA UpdateGeneratedKeeps ==
  ASSUME CInv, NEW t \in Targets, UpdateGenerated(t)
  PROVE  CInv' /\ ViewsFresh
  <1>1. StoreOK /\ BooksOK /\ RoutesExist /\ GatesInv BY DEF CInv
  <1>2. PICK i \in DOMAIN rows[t], v \in Values :
       LET old == rows[t][i]
           k == At(universals, old.owner)
           ov == universals[k].targets[t].ov + 1
       IN /\ old.owner # None /\ Synchronized(t, old) /\ v # old.model
          /\ rows' = [rows EXCEPT ![t][i].model = v, ![t][i].rev = @ + 1, ![t][i].ov = ov]
          /\ universals' = [universals EXCEPT ![k].targets[t] =
                              [@ EXCEPT !.model = v, !.ov = ov, !.syncOv = ov]]
    BY DEF UpdateGenerated
  <1>3. BumpCatalog /\ route' = Bump(t) /\ UNCHANGED <<creds, ucreds, draft, planned, gate, request>>
    BY DEF UpdateGenerated
  <1>4. rows[t] \in Seq(Providers) /\ Keyed(rows[t]) BY <1>1 DEF StoreOK, RowsOK
  <1>5. PICK old \in Providers : old = rows[t][i] /\ old \in ToSet(rows[t]) /\ old.owner # None
    BY <1>2, <1>4, InToSet
  <1>6. PICK u \in ToSet(universals) : u.id = old.owner /\ InStep(t, old, u)
    BY <1>1, <1>5 DEF BooksOK, Owned
  <1> DEFINE k == At(universals, old.owner)
  <1>7. k \in DOMAIN universals /\ universals[k] = u /\ Universal(old.owner) = u
    <2>1. old.owner \in Ids(universals) BY <1>6 DEF Ids
    <2>. QED BY <1>1, <1>6, <2>1, UniversalIs, SourceIsOne
  <1>8. u \in Sources /\ u.targets[t] \in Overlays /\ u.targets \in [Targets -> Overlays]
    <2>1. u \in Sources BY <1>1, <1>6, InToSet DEF StoreOK, SourcesOK
    <2>. QED BY <2>1 DEF Sources
  <1>9. old.src = u.rev /\ old.ov = u.targets[t].ov /\ u.targets[t].on
    BY <1>2, <1>5, <1>7 DEF Synchronized, RowCurrent
  <1>10. PICK ov \in Nat : ov = u.targets[t].ov + 1 BY <1>8 DEF Overlays
  <1>11. PICK o : o = [u.targets[t] EXCEPT !.model = v, !.ov = ov, !.syncOv = ov] OBVIOUS
  <1>12. PICK w : w = [u EXCEPT !.targets = [u.targets EXCEPT ![t] = o]] OBVIOUS
  <1>13. PICK e : e = [old EXCEPT !.model = v, !.rev = @ + 1, !.ov = ov] OBVIOUS
  <1>14. /\ o \in Overlays /\ o.model = v /\ o.ov = ov /\ o.syncOv = ov
         /\ o.syncSrc = u.targets[t].syncSrc /\ o.on = u.targets[t].on
    BY <1>8, <1>10, <1>11 DEF Overlays
  <1>15. /\ w \in Sources /\ w.id = u.id /\ w.rev = u.rev /\ w.decl = u.decl /\ w.cred = u.cred
         /\ w.targets[t] = o /\ \A x \in Targets : x # t => w.targets[x] = u.targets[x]
    BY <1>8, <1>12, <1>14 DEF Sources
  <1>16. universals' = [universals EXCEPT ![k] = w]
    <2>1. universals' = [universals EXCEPT ![k].targets[t] =
                           [@ EXCEPT !.model = v, !.ov = ov, !.syncOv = ov]]
      BY <1>2, <1>5, <1>7, <1>10
    <2> HIDE DEF k
    <2>2. universals \in Seq(Sources) BY <1>1 DEF StoreOK, SourcesOK
    <2>. QED BY <1>7, <1>8, <1>11, <1>12, <2>1, <2>2 DEF Sources
  <1>17. /\ e \in Providers /\ e.id = old.id /\ e.owner = old.owner /\ e.cred = old.cred
         /\ e.decl = old.decl /\ e.src = old.src /\ e.model = v /\ e.ov = ov
    <2>1. old.rev + 1 \in Nat \ {0} BY DEF Providers
    <2>2. \A n \in Nat \ {0} : [old EXCEPT !.model = v, !.rev = n, !.ov = ov] \in Providers
      BY DEF Providers
    <2>3. e \in Providers BY <1>13, <2>1, <2>2
    <2>. QED BY <1>13, <2>3 DEF Providers
  <1> DEFINE r == [rows[t] EXCEPT ![i] = e]
  <1>18. rows' = [rows EXCEPT ![t] = r]
    <2>1. rows' = [rows EXCEPT ![t][i].model = v, ![t][i].rev = @ + 1, ![t][i].ov = ov]
      BY <1>2, <1>5, <1>7, <1>10
    <2>. QED BY <1>1, <1>4, <1>5, <1>13, <2>1 DEF StoreOK, RowsOK, Providers
  <1>19. r \in Seq(Providers) /\ Keyed(r) /\ ToSet(r) = (ToSet(rows[t]) \ {old}) \cup {e}
    <2>1. r \in Seq(Providers) /\ Replaces(r, rows[t], i, e) BY <1>4, <1>17 DEF Replaces
    <2> HIDE DEF r
    <2>. QED BY <1>4, <1>5, <1>17, <2>1, ReplacedAt
  <1> HIDE DEF r
  <1>20. rows'[t] = r /\ \A x \in Targets : x # t => rows'[x] = rows[x]
    BY <1>1, <1>18 DEF StoreOK, RowsOK
  <1>21. /\ universals' \in Seq(Sources) /\ Keyed(universals')
         /\ ToSet(universals') = (ToSet(universals) \ {u}) \cup {w}
    BY <1>1, <1>6, <1>15, <1>16, SourceReplaced
  <1> HIDE DEF k
  <1>22. RowsOK' BY <1>1, <1>18, <1>19, <1>20 DEF StoreOK, RowsOK
  <1>23. SourcesOK' BY <1>1, <1>3, <1>21 DEF StoreOK, SourcesOK
  <1>24. CredsOK' BY <1>1, <1>3 DEF StoreOK, CredsOK
  <1>25. UcredsExact' BY <1>1, <1>3, <1>6, <1>15, <1>21 DEF BooksOK, UcredsExact
  <1>26. ASSUME NEW x \in Targets PROVE CredsExact(x)'
    <2>1. DOMAIN creds[x] = ({p.cred : p \in ToSet(rows[x])} \cup planned[x]) \ {None}
      BY <1>1 DEF BooksOK, CredsExact
    <2>2. {p.cred : p \in ToSet(rows'[x])} = {p.cred : p \in ToSet(rows[x])}
      BY <1>5, <1>17, <1>19, <1>20
    <2>. QED BY <1>3, <2>1, <2>2 DEF CredsExact
  <1>27. OnePerTarget'
    <2>1. ASSUME NEW x \in Targets, NEW a \in ToSet(rows'[x]), NEW b \in ToSet(rows'[x]),
                 a.owner # None, a.owner = b.owner
          PROVE  a = b
      <3>1. CASE x # t BY <1>1, <1>20, <2>1, <3>1 DEF BooksOK, OnePerTarget
      <3>2. CASE x = t
        <4>1. \A p, z \in ToSet(rows[t]) : p.owner # None /\ p.owner = z.owner => p = z
          BY <1>1 DEF BooksOK, OnePerTarget
        <4>2. \A p \in ToSet(rows'[t]) : (p \in ToSet(rows[t]) /\ p # old) \/ p = e
          BY <1>19, <1>20
        <4>. QED BY <1>5, <1>17, <2>1, <3>2, <4>1, <4>2
      <3>. QED BY <3>1, <3>2
    <2>. QED BY <2>1 DEF OnePerTarget
  <1>28. ASSUME NEW x \in Targets, NEW p \in ToSet(rows'[x]), p.owner # None PROVE Follows(x, p)
    <2>1. CASE x = t /\ p = e
      <3>1. InStep(t, e, w)'
        <4>1. /\ old.src = u.targets[t].syncSrc /\ old.decl = u.decl
              /\ Secret(creds[t], old.cred) = Secret(ucreds, u.cred)
          BY <1>6, <1>9 DEF InStep
        <4>2. u.rev \in Nat BY <1>8 DEF Sources
        <4>3. e.src = w.targets[t].syncSrc /\ e.ov = w.targets[t].syncOv
            BY <1>14, <1>15, <1>17, <4>1
        <4>4. e.src <= w.rev /\ e.ov <= w.targets[t].ov /\ w.targets[t].on
          <5>1. e.src = w.rev /\ w.rev \in Nat BY <1>9, <1>15, <1>17, <4>2
          <5>2. e.ov = w.targets[t].ov /\ e.ov \in Nat BY <1>10, <1>14, <1>15, <1>17
          <5>3. w.targets[t].on BY <1>9, <1>14, <1>15
          <5>. QED BY <5>1, <5>2, <5>3
        <4>5. e.decl = w.decl /\ e.model = w.targets[t].model
            BY <1>14, <1>15, <1>17, <4>1
        <4>6. Secret(creds'[t], e.cred) = Secret(ucreds', w.cred)
            BY <1>3, <1>15, <1>17, <4>1
        <4>. QED BY <4>3, <4>4, <4>5, <4>6 DEF InStep
      <3>. QED BY <1>6, <1>15, <1>17, <1>21, <2>1, <3>1 DEF Follows
    <2>2. CASE ~(x = t /\ p = e)
      <3>1. p \in ToSet(rows[x]) /\ (x = t => p # old) BY <1>19, <1>20, <2>2
      <3>2. CASE p.owner # u.id BY <1>21, <3>1, <3>2 DEF Follows
      <3>3. CASE p.owner = u.id
        <4>1. x # t BY <1>1, <1>5, <1>6, <3>1, <3>3 DEF BooksOK, OnePerTarget
        <4>2. PICK z \in ToSet(universals) : z.id = p.owner /\ InStep(x, p, z)
          BY <1>1, <1>28, <3>1 DEF BooksOK, Owned
        <4>3. z = u BY <1>1, <1>6, <3>3, <4>2, SourceIsOne
        <4>4. InStep(x, p, w)' BY <1>3, <1>15, <4>1, <4>2, <4>3 DEF InStep
        <4>. QED BY <1>15, <1>21, <3>3, <4>4 DEF Follows
      <3>. QED BY <3>2, <3>3
    <2>. QED BY <2>1, <2>2
  <1>29. Keeps(ucreds, ucreds') /\ \A x \in Targets : Keeps(creds[x], creds'[x])
    BY <1>3 DEF Keeps
  <1>30. BooksOK'
    BY <1>1, <1>22, <1>23, <1>24, <1>25, <1>26, <1>27, <1>28, <1>29, SourceChange
  <1>31. route' \in [Targets -> Routes] /\ SameRoutes(route, route')
      BY <1>1, <1>3, BumpIs
  <1>32. RoutesOK' /\ PlansOK'
    BY <1>1, <1>3, <1>31, BumpCatalogIs DEF StoreOK, RoutesOK, PlansOK
  <1>33. RoutesExist'
    <2>1. \A x \in Targets : Ids(rows[x]) \subseteq Ids(rows'[x])
      BY <1>5, <1>17, <1>19, <1>20 DEF Ids
    <2>. QED BY <1>1, <1>31, <2>1, RowsGrow
  <1>34. CInv' BY <1>1, <1>3, <1>30, <1>32, <1>33, GatesStay, Assembled
  <1>35. ViewsFresh
    <2>1. route'[t].seq > route[t].seq BY <1>1, <1>3, BumpIsNewer
    <2>2. ASSUME NEW x \in Targets, x # t PROVE StillShown(x)
      <3>1. SameTarget(x) BY <1>1, <1>3, <1>20, <2>2, BumpIsNewer DEF SameTarget
      <3>2. w.rev = u.rev /\ w.targets[x].ov = u.targets[x].ov BY <1>15, <2>2
      <3>. QED BY <1>15, <1>21, <3>1, <3>2, StillSame
    <2>. QED BY <1>1, <1>3, <1>23, <2>1, <2>2, SourcesShow
  <1>. QED BY <1>34, <1>35

(* A target's providers r and secrets c, synchronized to u: what others own *)
(* is there as it was, and of u there is what it declares, or nothing.      *)
Declared(t, u, p, c) ==
  /\ p \in Providers /\ p.owner = u.id
  /\ p.src = u.rev /\ p.ov = u.targets[t].ov
  /\ p.decl = u.decl /\ p.model = u.targets[t].model
  /\ Secret(c, p.cred) = Secret(ucreds, u.cred)

Synced(t, u, r, c) ==
  /\ r \in Seq(Providers) /\ Keyed(r)
  /\ IsTable(c) /\ Keeps(creds[t], c)
  /\ DOMAIN c = ({p.cred : p \in ToSet(r)} \cup planned[t]) \ {None}
  /\ \A p \in ToSet(rows[t]) : p.owner # u.id => p \in ToSet(r)
  /\ \A p \in ToSet(r) : \/ p \in ToSet(rows[t]) /\ p.owner # u.id
                         \/ u.targets[t].on /\ Declared(t, u, p, c)
  /\ \A a, b \in ToSet(r) : a.owner = u.id /\ b.owner = u.id => a = b
  /\ u.targets[t].on => \A p \in ToSet(rows[t]) : p.id \in Ids(r)

LEMMA RecreditedSecret ==
  ASSUME NEW t, NEW n, NEW gone, NEW r, NEW mid, NEW c, Recredits(t, r, n, gone, mid, c)
  PROVE  Secret(c, n) = Secret(mid, n)
  <1>1. CASE n = None BY <1>1 DEF Secret
  <1>2. CASE n # None
    <2>1. n \in DOMAIN mid /\ \E x \in ToSet(r) : x.cred = n BY <1>2 DEF Recredits
    <2>2. n \in DOMAIN c /\ Keeps(mid, c)
      BY <2>1 DEF Recredits, Collected, Keeps
    <2>. QED BY <2>1, <2>2, SecretKept
  <1>. QED BY <1>1, <1>2

LEMMA SyncSecretIs ==
  ASSUME StoreOK, BooksOK, NEW t \in Targets, NEW u \in ToSet(universals),
         NEW previous, previous = None \/ previous \in DOMAIN creds[t]
  PROVE  LET secret == Secret(ucreds, u.cred)
             unchanged == Secret(creds[t], previous) = secret
             n == IF unchanged THEN previous
                  ELSE IF secret = None THEN None ELSE NewCredential(t)
             mid == NewSecret(t, IF unchanged THEN None ELSE secret)
         IN /\ n \in Ref /\ IsTable(mid) /\ Keeps(creds[t], mid)
            /\ DOMAIN mid = DOMAIN creds[t] \cup ({n} \ {None})
            /\ Secret(mid, n) = secret
  <1> DEFINE secret == Secret(ucreds, u.cred)
             unchanged == Secret(creds[t], previous) = secret
             n == IF unchanged THEN previous
                  ELSE IF secret = None THEN None ELSE NewCredential(t)
             mid == NewSecret(t, IF unchanged THEN None ELSE secret)
  <1>1. IsTable(creds[t]) /\ IsTable(ucreds) BY DEF StoreOK, CredsOK, SourcesOK
  <1>2. secret \in Secrets \cup {None}
    BY <1>1, UcredIsKept DEF BooksOK, Secret, IsTable
  <1> HIDE DEF secret
  <1>3. CASE unchanged
    <2>1. mid = creds[t] /\ n = previous BY <1>3, NewSecretIs
    <2>2. n \in Ref /\ DOMAIN creds[t] = DOMAIN creds[t] \cup ({n} \ {None})
      BY <1>1, <2>1 DEF IsTable, Ref
    <2>. QED BY <1>1, <1>3, <2>1, <2>2 DEF Keeps, secret
  <1>4. CASE ~unchanged /\ secret = None
    <2>1. mid = creds[t] /\ n = None BY <1>4, NewSecretIs
    <2>. QED BY <1>1, <1>4, <2>1 DEF Keeps, Ref, Secret, secret
  <1>5. CASE ~unchanged /\ secret # None
    <2>1. mid = NewSecret(t, secret) /\ n = NewCredential(t) /\ secret \in Secrets
      BY <1>2, <1>5
    <2>2. n \in Nat /\ n # None
      <3>1. NewCredential(t) \in Nat BY NewSecretIs
      <3>2. None \notin Nat BY NoneIsNothing
      <3> HIDE DEF n, mid
      <3>. QED BY <2>1, <3>1, <3>2
    <2>3. /\ IsTable(mid) /\ Keeps(creds[t], mid)
          /\ DOMAIN mid = DOMAIN creds[t] \cup {n} /\ mid[n] = secret
      BY <2>1, NewSecretIs
    <2>. QED BY <2>2, <2>3 DEF Ref, Secret, secret
  <1>. QED BY <1>3, <1>4, <1>5 DEF secret

(* What is left of a target when what u generated is removed from it.       *)
Cleared(t, u, r, c) ==
  /\ r \in Seq(Providers) /\ Keyed(r)
  /\ IsTable(c) /\ Keeps(creds[t], c)
  /\ DOMAIN c = ({p.cred : p \in ToSet(r)} \cup planned[t]) \ {None}
  /\ \A p \in ToSet(r) : p \in ToSet(rows[t]) /\ p.owner # u.id
  /\ \A p \in ToSet(rows[t]) : p.owner # u.id => p \in ToSet(r)

LEMMA ClearedIs ==
  ASSUME StoreOK, BooksOK, NEW t \in Targets, NEW u \in ToSet(universals),
         GeneratedBy(u.id, t) # {}
  PROVE  LET row == CHOOSE x \in GeneratedBy(u.id, t) : TRUE
             r == Removed(t, row.id)
         IN Cleared(t, u, r, Collect(t, creds[t], r, row.cred))
  <1> DEFINE old == GeneratedBy(u.id, t)
             row == CHOOSE x \in old : TRUE
             r == Removed(t, row.id)
             c == Collect(t, creds[t], r, row.cred)
  <1>1. rows[t] \in Seq(Providers) /\ Keyed(rows[t]) /\ IsTable(creds[t]) /\ u.id # None
    <2>1. u \in Sources BY InToSet DEF StoreOK, SourcesOK
    <2>. QED BY <2>1, NoneIsNothing DEF StoreOK, RowsOK, CredsOK, Sources
  <1>2. row \in old OBVIOUS
  <1> HIDE DEF row
  <1>3. row \in ToSet(rows[t]) /\ row.owner = u.id BY <1>2 DEF GeneratedBy
  <1>4. \A p \in ToSet(rows[t]) : p.owner = u.id <=> p = row
    BY <1>1, <1>3 DEF BooksOK, OnePerTarget
  <1>5. PICK k \in DOMAIN rows[t] : k = At(rows[t], row.id) /\ rows[t][k] = row
    BY <1>1, <1>3, AtIsIt
  <1>6. r = RemoveAt(rows[t], k) BY <1>5 DEF Removed
  <1>7. c = Collect(t, creds[t], r, row.cred) OBVIOUS
  <1> HIDE DEF r, c
  <1>8. r \in Seq(Providers) /\ Keyed(r) /\ ToSet(r) = ToSet(rows[t]) \ {row}
    <2>1. /\ RemoveAt(rows[t], k) \in Seq(Providers) /\ Keyed(RemoveAt(rows[t], k))
          /\ ToSet(RemoveAt(rows[t], k)) = ToSet(rows[t]) \ {rows[t][k]}
      BY <1>1, RemovedAt
    <2>. QED BY <1>5, <1>6, <2>1
  <1>9. Recredits(t, r, None, row.cred, creds[t], c)
    <2>1. Collected(creds[t], c, row.cred, planned[t] \cup {p.cred : p \in ToSet(r)})
      BY <1>1, <1>7, CollectIs
    <2>2. \A p \in ToSet(rows[t]) : p.cred = row.cred \/ \E x \in ToSet(r) : x.cred = p.cred
      BY <1>8
    <2>3. \A p \in ToSet(r) : \E x \in ToSet(rows[t]) : x.cred = p.cred BY <1>8
    <2>. QED BY <1>1, <2>1, <2>2, <2>3 DEF Recredits, Keeps
  <1>10. /\ IsTable(c) /\ Keeps(creds[t], c)
         /\ DOMAIN c = ({p.cred : p \in ToSet(r)} \cup planned[t]) \ {None}
    BY <1>9, Recredited DEF BooksOK
  <1>11. Cleared(t, u, r, c) BY <1>4, <1>8, <1>10 DEF Cleared
  <1>. QED BY <1>11 DEF r, c, row

LEMMA SyncedIs ==
  ASSUME StoreOK, BooksOK, NEW t \in Targets, NEW u \in ToSet(universals), ~Current(u, t)
  PROVE  Synced(t, u, SynchronizedTarget(u, t).rows, SynchronizedTarget(u, t).creds)
  <1> DEFINE o == u.targets[t]
             old == GeneratedBy(u.id, t)
             row == CHOOSE x \in old : TRUE
             secret == Secret(ucreds, u.cred)
             previous == IF old = {} THEN None ELSE row.cred
             unchanged == Secret(creds[t], previous) = secret
             n == IF unchanged THEN previous
                  ELSE IF secret = None THEN None ELSE NewCredential(t)
             mid == NewSecret(t, IF unchanged THEN None ELSE secret)
             e == [id |-> IF old = {} THEN NewId(t) ELSE row.id,
                   rev |-> IF old = {} THEN 1 ELSE row.rev + 1,
                   decl |-> u.decl, model |-> o.model, cred |-> n,
                   owner |-> u.id, src |-> u.rev, ov |-> o.ov]
             r == IF ~o.on THEN Removed(t, row.id)
                  ELSE IF old = {} THEN Append(rows[t], e)
                  ELSE [rows[t] EXCEPT ![At(rows[t], row.id)] = e]
             c == IF ~o.on THEN Collect(t, creds[t], r, previous)
                  ELSE IF n = previous THEN mid ELSE Collect(t, mid, r, previous)
  <1>1. SynchronizedTarget(u, t).rows = r /\ SynchronizedTarget(u, t).creds = c
    BY DEF SynchronizedTarget
  <1>2. /\ rows[t] \in Seq(Providers) /\ Keyed(rows[t]) /\ IsTable(creds[t])
        /\ u.id # None /\ u \in Sources /\ o \in Overlays
    <2>1. u \in Sources BY InToSet DEF StoreOK, SourcesOK
    <2>. QED BY <2>1, NoneIsNothing DEF StoreOK, RowsOK, CredsOK, Sources
  <1>3. \A p \in ToSet(rows[t]) : p.owner = u.id <=> p \in old BY DEF GeneratedBy
  <1>4. old # {} => row \in Providers /\ row \in ToSet(rows[t]) /\ row.owner = u.id /\ old = {row}
    <2>1. SUFFICES ASSUME old # {} PROVE row \in Providers /\ row \in ToSet(rows[t])
                                         /\ row.owner = u.id /\ old = {row}
      OBVIOUS
    <2>2. row \in old BY <2>1
    <2> HIDE DEF row
    <2>3. row \in ToSet(rows[t]) /\ row.owner = u.id BY <2>2 DEF GeneratedBy
    <2>4. \A x \in old : x = row BY <1>2, <2>3 DEF BooksOK, OnePerTarget, GeneratedBy
    <2>5. row \in Providers BY <1>2, <2>3, InToSet
    <2>. QED BY <2>2, <2>3, <2>4, <2>5
  <1>5. ~o.on => old # {} BY DEF Current
  <1> HIDE DEF row, old
  <1>6. previous = None \/ previous \in DOMAIN creds[t] BY <1>4, CredIsKept DEF BooksOK
  <1>7. /\ old = {} => previous = None
        /\ old # {} => previous = row.cred
    OBVIOUS
  <1> HIDE DEF previous
  <1>8. /\ n \in Ref /\ IsTable(mid) /\ Keeps(creds[t], mid)
        /\ DOMAIN mid = DOMAIN creds[t] \cup ({n} \ {None})
        /\ Secret(mid, n) = secret
    BY <1>6, SyncSecretIs
  <1> HIDE DEF n, mid, secret
  <1>9. /\ e \in Providers /\ e.owner = u.id /\ e.cred = n /\ e.src = u.rev
        /\ e.ov = o.ov /\ e.decl = u.decl /\ e.model = o.model
        /\ old = {} => e.id \notin Ids(rows[t])
        /\ old # {} => e.id = row.id
    <2>1. NewId(t) \in Nat \ {0} /\ NewId(t) \notin Ids(rows[t]) BY NewIdIs
    <2>2. PICK id \in Nat \ {0} : id = IF old = {} THEN NewId(t) ELSE row.id
      BY <1>4, <2>1 DEF Providers
    <2>3. PICK rev \in Nat \ {0} : rev = IF old = {} THEN 1 ELSE row.rev + 1
      <3>1. old # {} => row.rev + 1 \in Nat \ {0} BY <1>4 DEF Providers
      <3>. QED BY <3>1
    <2>4. /\ u.decl \in Values /\ o.model \in Values /\ u.id \in Ref /\ u.rev \in Nat /\ o.ov \in Nat
      BY <1>2 DEF Sources, Overlays, Ref
    <2>5. e = [id |-> id, rev |-> rev, decl |-> u.decl, model |-> o.model, cred |-> n,
               owner |-> u.id, src |-> u.rev, ov |-> o.ov]
      BY <2>2, <2>3
    <2>6. e \in Providers BY <1>8, <2>4, <2>5 DEF Providers
    <2>. QED BY <2>1, <2>2, <2>5, <2>6
  <1> HIDE DEF e
  <1>10. CredsExact(t) BY DEF BooksOK
  <1>11. CASE ~o.on
    <2>1. old # {} /\ previous = row.cred BY <1>5, <1>7, <1>11
    <2>2. r = Removed(t, row.id) BY <1>11
    <2>3. c = Collect(t, creds[t], r, row.cred) BY <1>11, <2>1
    <2> HIDE DEF r, c
    <2>4. Cleared(t, u, r, c) BY <2>1, <2>2, <2>3, ClearedIs DEF row, old
    <2>5. Synced(t, u, r, c) BY <1>11, <2>4 DEF Synced, Cleared
    <2>. QED BY <1>1, <2>5
  <1>12. CASE o.on
    <2>1. /\ r \in Seq(Providers) /\ Keyed(r)
          /\ ToSet(r) = (ToSet(rows[t]) \ old) \cup {e}
      <3>1. CASE old = {}
        <4>1. r = Append(rows[t], e) BY <1>12, <3>1
        <4> HIDE DEF r
        <4>2. /\ Append(rows[t], e) \in Seq(Providers) /\ Keyed(Append(rows[t], e))
              /\ ToSet(Append(rows[t], e)) = ToSet(rows[t]) \cup {e}
          BY <1>2, <1>9, <3>1, AppendedTo
        <4>. QED BY <3>1, <4>1, <4>2
      <3>2. CASE old # {}
        <4>1. PICK k \in DOMAIN rows[t] : k = At(rows[t], row.id) /\ rows[t][k] = row
          BY <1>2, <1>4, <3>2, AtIsIt
        <4>2. r = [rows[t] EXCEPT ![k] = e] BY <1>12, <3>2, <4>1
        <4>3. e.id = rows[t][k].id BY <1>9, <3>2, <4>1
        <4> HIDE DEF r
        <4>4. r \in Seq(Providers) /\ Replaces(r, rows[t], k, e)
          BY <1>2, <1>9, <4>2 DEF Replaces
        <4>5. Keyed(r) /\ ToSet(r) = (ToSet(rows[t]) \ {rows[t][k]}) \cup {e}
          BY <1>2, <1>9, <4>3, <4>4, ReplacedAt
        <4>. QED BY <1>4, <3>2, <4>1, <4>4, <4>5
      <3>. QED BY <3>1, <3>2
    <2>2. c = IF n = previous THEN mid ELSE Collect(t, mid, r, previous) BY <1>12
    <2> HIDE DEF r, c
    <2>3. Recredits(t, r, n, previous, mid, c)
      <3>1. \/ previous = n /\ c = mid
            \/ Collected(mid, c, previous, planned[t] \cup {p.cred : p \in ToSet(r)})
        BY <1>8, <2>2, CollectIs
      <3>2. \A p \in ToSet(rows[t]) : p.cred = previous \/ \E x \in ToSet(r) : x.cred = p.cred
        BY <1>4, <1>7, <2>1
      <3>3. \A p \in ToSet(r) : p.cred = n \/ \E x \in ToSet(rows[t]) : x.cred = p.cred
        BY <1>9, <2>1
      <3>4. \E x \in ToSet(r) : x.cred = n BY <1>9, <2>1
      <3>. QED BY <1>8, <3>1, <3>2, <3>3, <3>4 DEF Recredits
    <2>4. /\ IsTable(c) /\ Keeps(creds[t], c)
          /\ DOMAIN c = ({p.cred : p \in ToSet(r)} \cup planned[t]) \ {None}
      BY <1>10, <2>3, Recredited
    <2>5. Declared(t, u, e, c)
      <3>1. Secret(c, e.cred) = secret BY <1>8, <1>9, <2>3, RecreditedSecret
      <3>. QED BY <1>9, <3>1 DEF Declared, secret
    <2>6. \A p \in ToSet(r) : p = e \/ (p \in ToSet(rows[t]) /\ p.owner # u.id)
        BY <1>3, <2>1
    <2>7. \A p \in ToSet(rows[t]) : p.owner # u.id => p \in ToSet(r) BY <1>3, <2>1
    <2>8. \A p \in ToSet(rows[t]) : p.id \in Ids(r)
      <3>1. \A p \in ToSet(rows[t]) : p \in ToSet(r) \/ (p = row /\ p.id = e.id)
        BY <1>4, <1>9, <2>1
      <3>. QED BY <2>1, <3>1 DEF Ids
    <2>9. Synced(t, u, r, c) BY <1>12, <2>1, <2>4, <2>5, <2>6, <2>7, <2>8 DEF Synced
    <2>. QED BY <1>1, <2>9
  <1>. QED BY <1>11, <1>12

LEMMA SynchronizeKeeps ==
  ASSUME CInv, NEW q \in Requests, Synchronize(q)
  PROVE  CInv' /\ ViewsFresh
  <1>1. StoreOK /\ BooksOK /\ RoutesExist /\ GatesInv BY DEF CInv
  <1>2. PICK u \in ToSet(universals) : u = Universal(request[q].id) /\ u.id = request[q].id
    <2>1. request[q].id \in Ids(universals) BY DEF Synchronize, UpToDate
    <2>. QED BY <1>1, <2>1, UniversalIs
  <1>3. PICK k : k = At(universals, u.id) OBVIOUS
  <1>4. PICK pending : pending = {t \in Targets : ~Current(u, t)} OBVIOUS
  <1>5. PICK targets : targets =
          [t \in Targets |-> IF t \in pending
             THEN [u.targets[t] EXCEPT !.syncSrc = u.rev, !.syncOv = u.targets[t].ov]
             ELSE u.targets[t]]
    OBVIOUS
  <1>6. PICK w : w = [u EXCEPT !.targets = targets] OBVIOUS
  <1>7. k \in DOMAIN universals /\ universals[k] = u /\ universals \in Seq(Sources)
    BY <1>1, <1>3, AtIsIt DEF StoreOK, SourcesOK
  <1>8. /\ rows' = [t \in Targets |-> IF t \in pending THEN SynchronizedTarget(u, t).rows ELSE rows[t]]
        /\ creds' = [t \in Targets |-> IF t \in pending THEN SynchronizedTarget(u, t).creds ELSE creds[t]]
        /\ route' = [t \in Targets |-> IF t \in pending THEN Bump(t)[t] ELSE route[t]]
        /\ ~Blocked(u) /\ BumpCatalog /\ Release(q) /\ UNCHANGED <<ucreds, draft, planned>>
    BY <1>2, <1>4 DEF Synchronize
  <1>9. universals' = [universals EXCEPT ![k] = w]
    <2>1. universals' = [universals EXCEPT ![k].targets =
            [t \in Targets |-> IF t \in pending
               THEN [@[t] EXCEPT !.syncSrc = u.rev, !.syncOv = u.targets[t].ov] ELSE @[t]]]
      BY <1>2, <1>3, <1>4 DEF Synchronize
    <2>. QED BY <1>5, <1>6, <1>7, <2>1
  <1>10. u \in Sources /\ u.rev \in Nat /\ u.id # None /\ u.targets \in [Targets -> Overlays]
    <2>1. u \in Sources BY <1>7, InToSet
    <2>. QED BY <2>1, NoneIsNothing DEF Sources
  <1>11. ASSUME NEW t \in Targets
         PROVE  /\ targets[t] \in Overlays /\ targets[t].on = u.targets[t].on
                /\ targets[t].ov = u.targets[t].ov /\ targets[t].model = u.targets[t].model
                /\ t \in pending => targets[t].syncSrc = u.rev /\ targets[t].syncOv = u.targets[t].ov
                /\ t \notin pending => targets[t] = u.targets[t]
    BY <1>5, <1>10 DEF Overlays
  <1>12. /\ w \in Sources /\ w.id = u.id /\ w.rev = u.rev /\ w.decl = u.decl /\ w.cred = u.cred
         /\ w.targets = targets
    <2>1. targets \in [Targets -> Overlays] BY <1>5, <1>11
    <2>. QED BY <1>6, <1>10, <2>1 DEF Sources
  <1>13. /\ universals' \in Seq(Sources) /\ Keyed(universals')
         /\ ToSet(universals') = (ToSet(universals) \ {u}) \cup {w}
    BY <1>1, <1>3, <1>9, <1>12, SourceReplaced
  <1>14. \A t \in pending : t \in Targets /\ Synced(t, u, rows'[t], creds'[t])
    BY <1>1, <1>4, <1>8, SyncedIs
  <1>15. \A t \in Targets : t \notin pending => rows'[t] = rows[t] /\ creds'[t] = creds[t]
    BY <1>8
  <1>16. RowsOK'
    <2>1. \A t \in Targets : rows'[t] \in Seq(Providers) /\ Keyed(rows'[t])
      BY <1>1, <1>14, <1>15 DEF StoreOK, RowsOK, Synced
    <2>2. rows' = [t \in Targets |-> rows'[t]] BY <1>8
    <2>. QED BY <2>1, <2>2 DEF RowsOK
  <1>17. CredsOK'
    <2>1. \A t \in Targets : IsTable(creds'[t])
      BY <1>1, <1>14, <1>15 DEF StoreOK, CredsOK, Synced
    <2>2. creds' = [t \in Targets |-> creds'[t]] BY <1>8
    <2>. QED BY <2>1, <2>2 DEF CredsOK
  <1>18. SourcesOK' BY <1>1, <1>8, <1>13 DEF StoreOK, SourcesOK
  <1>19. UcredsExact' BY <1>1, <1>2, <1>8, <1>12, <1>13 DEF BooksOK, UcredsExact
  <1>20. \A t \in Targets : CredsExact(t)'
    BY <1>1, <1>8, <1>14, <1>15 DEF BooksOK, CredsExact, Synced
  <1>21. OnePerTarget'
    <2>1. ASSUME NEW t \in Targets, NEW a \in ToSet(rows'[t]), NEW b \in ToSet(rows'[t]),
                 a.owner # None, a.owner = b.owner
          PROVE  a = b
      <3>1. \A p, z \in ToSet(rows[t]) : p.owner # None /\ p.owner = z.owner => p = z
        BY <1>1 DEF BooksOK, OnePerTarget
      <3>2. CASE t \notin pending BY <1>15, <2>1, <3>1, <3>2
      <3>3. CASE t \in pending /\ a.owner = u.id BY <1>14, <2>1, <3>3 DEF Synced
      <3>4. CASE t \in pending /\ a.owner # u.id
        <4>1. a \in ToSet(rows[t]) /\ b \in ToSet(rows[t])
          BY <1>14, <2>1, <3>4 DEF Synced, Declared
        <4>. QED BY <2>1, <3>1, <4>1
      <3>. QED BY <3>2, <3>3, <3>4
    <2>. QED BY <2>1 DEF OnePerTarget
  <1>22. Keeps(ucreds, ucreds') /\ \A t \in Targets : Keeps(creds[t], creds'[t])
    <2>1. \A t \in Targets : t \notin pending => Keeps(creds[t], creds'[t])
        BY <1>15 DEF Keeps
    <2>2. \A t \in pending : Keeps(creds[t], creds'[t]) BY <1>14 DEF Synced
    <2>. QED BY <1>8, <2>1, <2>2 DEF Keeps
  <1>23. ASSUME NEW t \in Targets, NEW p \in ToSet(rows'[t]), p.owner # None
         PROVE  Follows(t, p)
    <2>1. CASE p \in ToSet(rows[t]) /\ p.owner # u.id BY <1>13, <2>1 DEF Follows
    <2>2. CASE t \notin pending /\ p.owner = u.id
      <3>1. p \in ToSet(rows[t]) BY <1>15, <1>23, <2>2
      <3>2. PICK z \in ToSet(universals) : z.id = p.owner /\ InStep(t, p, z)
        BY <1>1, <1>23, <3>1 DEF BooksOK, Owned
      <3>3. z = u BY <1>1, <2>2, <3>2, SourceIsOne
      <3>4. w.targets[t] = u.targets[t] /\ creds'[t] = creds[t] /\ ucreds' = ucreds
        BY <1>8, <1>11, <1>12, <1>15, <2>2
      <3>5. InStep(t, p, w)' BY <1>12, <3>2, <3>3, <3>4 DEF InStep
      <3>. QED BY <1>12, <1>13, <2>2, <3>5 DEF Follows
    <2>3. CASE t \in pending /\ ~(p \in ToSet(rows[t]) /\ p.owner # u.id)
      <3>1. u.targets[t].on /\ Declared(t, u, p, creds'[t])
          BY <1>14, <1>23, <2>3 DEF Synced
      <3>2. /\ p.owner = u.id /\ p.src = u.rev /\ p.ov = u.targets[t].ov
            /\ p.decl = u.decl /\ p.model = u.targets[t].model
            /\ Secret(creds'[t], p.cred) = Secret(ucreds, u.cred)
        BY <3>1 DEF Declared
      <3>3. /\ w.targets[t].on /\ w.targets[t].ov = u.targets[t].ov
            /\ w.targets[t].model = u.targets[t].model
            /\ w.targets[t].syncSrc = u.rev /\ w.targets[t].syncOv = u.targets[t].ov
        BY <1>11, <1>12, <2>3, <3>1
      <3>4. u.targets[t].ov \in Nat BY <1>10 DEF Overlays
      <3>5. InStep(t, p, w)'
        BY <1>8, <1>10, <1>12, <3>2, <3>3, <3>4 DEF InStep
      <3>. QED BY <1>12, <1>13, <3>2, <3>5 DEF Follows
    <2>. QED BY <1>15, <1>23, <2>1, <2>2, <2>3
  <1>24. BooksOK'
    BY <1>1, <1>16, <1>17, <1>18, <1>19, <1>20, <1>21, <1>22, <1>23, SourceChange
  <1>25. route' \in [Targets -> Routes] /\ SameRoutes(route, route')
    BY <1>1, <1>8, SomeBumped
  <1>26. RoutesOK' /\ PlansOK'
    BY <1>1, <1>8, <1>25, BumpCatalogIs DEF StoreOK, RoutesOK, PlansOK
  <1>27. RoutesExist'
    <2>1. ASSUME NEW t \in Targets, NEW id \in Ids(rows[t]), Routable(t, id)
          PROVE  id \in Ids(rows'[t])
      <3>1. PICK p \in ToSet(rows[t]) : p.id = id BY DEF Ids
      <3>2. CASE t \notin pending BY <1>15, <3>2
      <3>3. CASE t \in pending /\ u.targets[t].on
        BY <1>14, <3>1, <3>3 DEF Synced
      <3>4. CASE t \in pending /\ ~u.targets[t].on
        <4>1. Referenced(t, p.id) BY <2>1, <3>1 DEF Routable, Referenced
        <4>2. p.owner # u.id BY <1>8, <3>1, <3>4, <4>1 DEF Blocked, GeneratedBy
        <4>3. p \in ToSet(rows'[t]) BY <1>14, <3>4, <4>2 DEF Synced
        <4>. QED BY <3>1, <4>3 DEF Ids
      <3>. QED BY <3>2, <3>3, <3>4
    <2>. QED BY <1>1, <1>25, <2>1, RoutesKept
  <1>28. GatesInv' BY <1>1, <1>8, ReleasedIs
  <1>29. CInv' BY <1>24, <1>26, <1>27, <1>28, Assembled
  <1>30. ViewsFresh
    <2>1. \A t \in pending : t \in Targets /\ route'[t].seq > route[t].seq
      BY <1>1, <1>4, <1>8, BumpIsNewer
    <2>2. ASSUME NEW t \in Targets, t \notin pending PROVE StillShown(t)
      <3>1. SameTarget(t) BY <1>8, <1>15, <2>2 DEF SameTarget
      <3>2. w.rev = u.rev /\ w.targets[t].ov = u.targets[t].ov BY <1>11, <1>12
      <3>. QED BY <1>12, <1>13, <3>1, <3>2, StillSame
    <2>. QED BY <1>1, <1>8, <1>18, <2>1, <2>2, SourcesShow
  <1>. QED BY <1>29, <1>30

LEMMA UcredsReplaced ==
  ASSUME UcredsExact, NEW u \in ToSet(universals), NEW w, NEW mid,
         IsTable(mid), Keeps(ucreds, mid), DOMAIN mid = DOMAIN ucreds \cup ({w.cred} \ {None}),
         ToSet(universals') = (ToSet(universals) \ {u}) \cup {w},
         \/ w.cred = u.cred /\ ucreds' = mid
         \/ Collected(mid, ucreds', u.cred, {x.cred : x \in ToSet(universals')})
  PROVE  IsTable(ucreds') /\ Keeps(ucreds, ucreds') /\ UcredsExact'
  <1>1. DOMAIN ucreds = {x.cred : x \in ToSet(universals)} \ {None} BY DEF UcredsExact
  <1>2. CASE w.cred = u.cred /\ ucreds' = mid
    <2>1. {x.cred : x \in ToSet(universals')} = {x.cred : x \in ToSet(universals)}
        BY <1>2
    <2>2. DOMAIN mid = DOMAIN ucreds BY <1>1, <1>2
    <2>. QED BY <1>1, <1>2, <2>1, <2>2 DEF UcredsExact
  <1>3. CASE Collected(mid, ucreds', u.cred, {x.cred : x \in ToSet(universals')})
    <2>1. /\ IsTable(ucreds') /\ Keeps(mid, ucreds')
          /\ DOMAIN ucreds' = DOMAIN mid \ ({u.cred} \ {x.cred : x \in ToSet(universals')})
      BY <1>3 DEF Collected
    <2>2. Keeps(ucreds, ucreds') BY <2>1 DEF Keeps
    <2>3. \A n : n \in {x.cred : x \in ToSet(universals)} =>
                   n = u.cred \/ n \in {x.cred : x \in ToSet(universals')}
      OBVIOUS
    <2>4. \A n : n \in {x.cred : x \in ToSet(universals')} =>
                   n = w.cred \/ n \in {x.cred : x \in ToSet(universals)}
      OBVIOUS
    <2>5. w.cred \in {x.cred : x \in ToSet(universals')} OBVIOUS
    <2> DEFINE A == {x.cred : x \in ToSet(universals)}
               B == {x.cred : x \in ToSet(universals')}
    <2>6. DOMAIN ucreds' = B \ {None}
      <3>1. DOMAIN mid = (A \ {None}) \cup ({w.cred} \ {None}) BY <1>1
      <3>2. DOMAIN ucreds' = DOMAIN mid \ ({u.cred} \ B) BY <2>1
      <3>3. (\A n : n \in A => n = u.cred \/ n \in B) /\ w.cred \in B
            /\ (\A n : n \in B => n = w.cred \/ n \in A)
        BY <2>3, <2>4, <2>5
      <3> HIDE DEF A, B
      <3>. QED BY <3>1, <3>2, <3>3
    <2>. QED BY <2>1, <2>2, <2>6 DEF UcredsExact
  <1>. QED BY <1>2, <1>3

LEMMA RepublishedIs ==
  ASSUME StoreOK, NEW shown, Republished(shown)
  PROVE  route' \in [Targets -> Routes] /\ SameRoutes(route, route')
  <1>1. ASSUME NEW t \in Targets
        PROVE  /\ route'[t] \in Routes /\ route'[t].current = route[t].current
               /\ route'[t].snapshot = route[t].snapshot /\ route'[t].plan = route[t].plan
    <2>1. route[t] \in Routes BY DEF StoreOK, RoutesOK
    <2>2. route'[t] = route[t] \/ route'[t] = [route[t] EXCEPT !.seq = @ + 1]
      BY DEF Republished
    <2>. QED BY <2>1, <2>2 DEF Routes
  <1>2. route' = [t \in Targets |-> route'[t]] BY DEF Republished
  <1>. QED BY <1>1, <1>2 DEF SameRoutes

LEMMA UpdateUniversalKeeps ==
  ASSUME CInv, NEW q \in Requests, UpdateUniversal(q)
  PROVE  CInv' /\ ViewsFresh
  <1>1. StoreOK /\ BooksOK /\ RoutesExist /\ GatesInv BY DEF CInv
  <1>2. PICK u \in ToSet(universals) : u = Universal(request[q].id) /\ u.id = request[q].id
    <2>1. request[q].id \in Ids(universals) BY DEF UpdateUniversal, UpToDate
    <2>. QED BY <1>1, <2>1, UniversalIs
  <1> DEFINE Edited(old, edit) ==
       LET v == edit.value
           on == edit.on
           k == At(universals, old.id)
           cred == IF edit.secret = "keep" THEN old.cred
                   ELSE IF edit.secret = None THEN None ELSE Fresh(DOMAIN ucreds)
           source == <<v, cred>> # <<old.decl, old.cred>>
           changed == {t \in Targets : <<t \in on, v>> # <<old.targets[t].on, old.targets[t].model>>}
           shown == {t \in Targets : \E r \in GeneratedBy(old.id, t) : RowCurrent(t, r)}
           after == [universals EXCEPT ![k] =
             [Resourced(old, v, cred) EXCEPT !.targets = [t \in Targets |->
                   IF t \in changed THEN Retargeted(@[t], t \in on, v) ELSE @[t]]]]
           table == IF edit.secret = "keep" THEN ucreds ELSE NewUniversalSecret(edit.secret)
       IN /\ universals' = after
          /\ ucreds' = IF cred = old.cred THEN table ELSE CollectUniversal(table, after, old.cred)
          /\ Republished(IF source THEN shown ELSE shown \intersect changed)
  <1>3. PICK edit \in Edits(u) : Edited(u, edit)
    <2>1. \E edit \in Edits(Universal(request[q].id)) : Edited(Universal(request[q].id), edit)
      BY DEF UpdateUniversal
    <2> HIDE DEF Edited
    <2>. QED BY <1>2, <2>1
  <1>4. BumpCatalog /\ Release(q) /\ UNCHANGED <<rows, creds, draft, planned>>
    BY DEF UpdateUniversal
  <1>5. PICK v : v = edit.value OBVIOUS
  <1>6. PICK n : n = IF edit.secret = "keep" THEN u.cred
                     ELSE IF edit.secret = None THEN None ELSE Fresh(DOMAIN ucreds)
    OBVIOUS
  <1>7. PICK changed :
          changed = {t \in Targets : <<t \in edit.on, v>> # <<u.targets[t].on, u.targets[t].model>>}
    OBVIOUS
  <1>8. PICK mid : mid = IF edit.secret = "keep" THEN ucreds ELSE NewUniversalSecret(edit.secret)
    OBVIOUS
  <1>9. PICK targets : targets =
          [t \in Targets |-> IF t \in changed THEN Retargeted(u.targets[t], t \in edit.on, v)
                             ELSE u.targets[t]]
    OBVIOUS
  <1>10. PICK w : w = [Resourced(u, v, n) EXCEPT !.targets = targets] OBVIOUS
  <1>11. /\ universals \in Seq(Sources) /\ IsTable(ucreds)
      BY <1>1 DEF StoreOK, SourcesOK
  <1>12. u \in Sources /\ u.targets \in [Targets -> Overlays] /\ u.rev \in Nat /\ u.cred \in Ref
    <2>1. u \in Sources BY <1>11, InToSet
    <2>. QED BY <2>1 DEF Sources
  <1>13. universals' = [universals EXCEPT ![At(universals, u.id)] = w]
    <2>1. Resourced(u, v, n).targets = u.targets BY <1>12 DEF Resourced, Sources
    <2>2. w = [Resourced(u, v, n) EXCEPT !.targets = [t \in Targets |->
                   IF t \in changed THEN Retargeted(@[t], t \in edit.on, v) ELSE @[t]]]
      BY <1>9, <1>10, <2>1 DEF Resourced
    <2>. QED BY <1>3, <1>5, <1>6, <1>7, <2>2
  <1>14. /\ n = u.cred /\ ucreds' = mid
         \/ ucreds' = CollectUniversal(mid, universals', u.cred)
    BY <1>3, <1>5, <1>6, <1>8
  <1>15. PICK shown :
           /\ Republished(shown)
           /\ \A t \in Targets : t \notin shown =>
                \/ \A r \in GeneratedBy(u.id, t) : ~RowCurrent(t, r)
                \/ v = u.decl /\ n = u.cred /\ t \notin changed
    <2> DEFINE current == {t \in Targets : \E r \in GeneratedBy(u.id, t) : RowCurrent(t, r)}
    <2>1. Republished(IF <<v, n>> # <<u.decl, u.cred>> THEN current ELSE current \intersect changed)
      BY <1>3, <1>5, <1>6, <1>7
    <2>2. CASE <<v, n>> # <<u.decl, u.cred>>
      <3>1. Republished(current) BY <2>1, <2>2
      <3>. QED BY <3>1
    <2>3. CASE <<v, n>> = <<u.decl, u.cred>>
      <3>1. Republished(current \intersect changed) /\ v = u.decl /\ n = u.cred BY <2>1, <2>3
      <3>. QED BY <3>1
    <2>. QED BY <2>2, <2>3
  <1>16. v \in Values /\ edit.secret \in Secrets \cup {None, "keep"} /\ edit.on \subseteq Targets
    <2>1. u.decl \in Values BY <1>12 DEF Sources
    <2>. QED BY <1>5, <2>1 DEF Edits
  <1>17. /\ n \in Ref /\ IsTable(mid) /\ Keeps(ucreds, mid)
         /\ DOMAIN mid = DOMAIN ucreds \cup ({n} \ {None})
    <2>1. CASE edit.secret = "keep"
      <3>1. n = u.cred /\ mid = ucreds BY <1>6, <1>8, <2>1
      <3>2. n = None \/ n \in DOMAIN ucreds BY <1>1, <3>1, UcredIsKept DEF BooksOK
      <3>. QED BY <1>11, <1>12, <3>1, <3>2 DEF Keeps
    <2>2. CASE edit.secret # "keep" /\ edit.secret = None
      <3>1. n = None /\ mid = ucreds BY <1>1, <1>6, <1>8, <2>2, NewUniversalSecretIs
      <3>. QED BY <1>11, <3>1 DEF Keeps, Ref
    <2>3. CASE edit.secret # "keep" /\ edit.secret # None
      <3>1. n = Fresh(DOMAIN ucreds) /\ mid = NewUniversalSecret(edit.secret) /\ edit.secret \in Secrets
        BY <1>6, <1>8, <1>16, <2>3
      <3>2. n \in Nat /\ n # None BY <1>1, <3>1, NewUniversalSecretIs, NoneIsNothing
      <3>3. IsTable(mid) /\ Keeps(ucreds, mid) /\ DOMAIN mid = DOMAIN ucreds \cup {n}
        BY <1>1, <3>1, NewUniversalSecretIs
      <3>. QED BY <3>2, <3>3 DEF Ref
    <2>. QED BY <2>1, <2>2, <2>3
  <1>18. ASSUME NEW t \in Targets
         PROVE  /\ targets[t] \in Overlays
                /\ targets[t].syncSrc = u.targets[t].syncSrc
                /\ targets[t].syncOv = u.targets[t].syncOv
                /\ \/ targets[t].ov = u.targets[t].ov + 1
                   \/ targets[t] = u.targets[t]
                /\ t \notin changed => targets[t] = u.targets[t]
    <2>1. u.targets[t] \in Overlays BY <1>12
    <2>2. CASE t \in changed
      <3>1. targets[t] = Retargeted(u.targets[t], t \in edit.on, v) BY <1>9, <2>2
      <3>2. (t \in edit.on) \in BOOLEAN OBVIOUS
      <3>3. PICK b \in BOOLEAN : targets[t] = Retargeted(u.targets[t], b, v)
          BY <3>1, <3>2
      <3>4. u.targets[t].ov + 1 \in Nat BY <2>1 DEF Overlays
      <3>. QED BY <1>16, <2>1, <2>2, <3>3, <3>4 DEF Retargeted, Overlays
    <2>3. CASE t \notin changed BY <1>9, <2>1, <2>3
    <2>. QED BY <2>2, <2>3
  <1>19. /\ w \in Sources /\ w.id = u.id /\ w.decl = v /\ w.cred = n /\ w.targets = targets
         /\ \/ w.rev = u.rev + 1
            \/ w.rev = u.rev /\ v = u.decl /\ n = u.cred
         /\ v = u.decl /\ n = u.cred => w.rev = u.rev
    <2>1. targets \in [Targets -> Overlays] BY <1>9, <1>18
    <2>2. PICK rev \in Nat : /\ rev = IF <<v, n>> # <<u.decl, u.cred>> THEN u.rev + 1 ELSE u.rev
                             /\ w = [u EXCEPT !.decl = v, !.cred = n, !.rev = rev, !.targets = targets]
      <3>1. PICK rev \in Nat : rev = IF <<v, n>> # <<u.decl, u.cred>> THEN u.rev + 1 ELSE u.rev
        BY <1>12
      <3>2. Resourced(u, v, n) = [u EXCEPT !.decl = v, !.cred = n, !.rev = rev]
        BY <1>12, <3>1 DEF Resourced, Sources
      <3>. QED BY <1>10, <1>12, <3>1, <3>2 DEF Sources
    <2>3. w \in Sources BY <1>12, <1>16, <1>17, <2>1, <2>2 DEF Sources
    <2>4. /\ w.id = u.id /\ w.decl = v /\ w.cred = n /\ w.targets = targets /\ w.rev = rev
      BY <1>12, <2>2 DEF Sources
    <2>. QED BY <2>2, <2>3, <2>4
  <1>20. /\ universals' \in Seq(Sources) /\ Keyed(universals')
         /\ ToSet(universals') = (ToSet(universals) \ {u}) \cup {w}
    BY <1>1, <1>13, <1>19, SourceReplaced
  <1>21. IsTable(ucreds') /\ Keeps(ucreds, ucreds') /\ UcredsExact'
    <2>1. UcredsExact BY <1>1 DEF BooksOK
    <2>2. \/ w.cred = u.cred /\ ucreds' = mid
          \/ Collected(mid, ucreds', u.cred, {x.cred : x \in ToSet(universals')})
      <3>1. CASE ucreds' = CollectUniversal(mid, universals', u.cred)
        <4>1. \A s : Collected(mid, CollectUniversal(mid, s, u.cred), u.cred, {x.cred : x \in ToSet(s)})
          BY <1>17, CollectUniversalIs
        <4>2. Collected(mid, CollectUniversal(mid, universals', u.cred), u.cred,
                        {x.cred : x \in ToSet(universals')})
          BY <4>1
        <4>. QED BY <3>1, <4>2
      <3>. QED BY <1>14, <1>19, <3>1
    <2>. QED BY <1>17, <1>19, <1>20, <2>1, <2>2, UcredsReplaced
  <1>22. RowsOK' /\ CredsOK' BY <1>1, <1>4 DEF StoreOK, RowsOK, CredsOK
  <1>23. SourcesOK' BY <1>20, <1>21 DEF SourcesOK
  <1>24. OnePerTarget' /\ \A t \in Targets : CredsExact(t)'
    BY <1>1, <1>4 DEF BooksOK, OnePerTarget, CredsExact
  <1>25. \A t \in Targets : Keeps(creds[t], creds'[t]) BY <1>4 DEF Keeps
  <1>26. ASSUME NEW t \in Targets, NEW p \in ToSet(rows'[t]), p.owner # None
         PROVE  Follows(t, p)
    <2>1. p \in ToSet(rows[t]) /\ p \in Providers
      BY <1>1, <1>4, <1>26, InToSet DEF StoreOK, RowsOK
    <2>2. CASE p.owner # u.id BY <1>20, <2>1, <2>2 DEF Follows
    <2>3. CASE p.owner = u.id
      <3>1. PICK z \in ToSet(universals) : z.id = p.owner /\ InStep(t, p, z)
        BY <1>1, <1>26, <2>1 DEF BooksOK, Owned
      <3>2. z = u BY <1>1, <2>3, <3>1, SourceIsOne
      <3>3. /\ p.src \in Nat /\ p.ov \in Nat /\ u.rev \in Nat /\ u.targets[t].ov \in Nat
        BY <1>12, <2>1 DEF Providers, Overlays
      <3>4. /\ p.src = u.targets[t].syncSrc /\ p.ov = u.targets[t].syncOv
            /\ p.src <= u.rev /\ p.ov <= u.targets[t].ov
            /\ ~u.targets[t].on => p.ov # u.targets[t].ov
            /\ p.src = u.rev /\ p.ov = u.targets[t].ov =>
                 /\ p.decl = u.decl /\ p.model = u.targets[t].model
                 /\ Secret(creds[t], p.cred) = Secret(ucreds, u.cred)
        BY <3>1, <3>2 DEF InStep
      <3>5. p.src = w.targets[t].syncSrc /\ p.ov = w.targets[t].syncOv
        BY <1>18, <1>19, <3>4
      <3>6. p.src <= w.rev /\ p.ov <= w.targets[t].ov BY <1>18, <1>19, <3>3, <3>4
      <3>7. ~w.targets[t].on => p.ov # w.targets[t].ov BY <1>18, <1>19, <3>3, <3>4
      <3>8. ASSUME p.src = w.rev, p.ov = w.targets[t].ov
            PROVE  /\ p.decl = w.decl /\ p.model = w.targets[t].model
                   /\ Secret(creds'[t], p.cred) = Secret(ucreds', w.cred)
        <4>1. w.rev = u.rev /\ v = u.decl /\ n = u.cred BY <1>19, <3>3, <3>4, <3>8
        <4>2. w.targets[t] = u.targets[t] BY <1>18, <1>19, <3>3, <3>4, <3>8
        <4>3. u.cred = None \/ u.cred \in DOMAIN ucreds \cap DOMAIN ucreds'
          <5>1. u.cred = None \/ u.cred \in DOMAIN ucreds
              BY <1>1, UcredIsKept DEF BooksOK
          <5>2. w \in ToSet(universals') /\ w.cred = u.cred BY <1>19, <1>20, <4>1
          <5>3. w.cred = None \/ w.cred \in DOMAIN ucreds'
              BY <1>21, <5>2 DEF UcredsExact
          <5>. QED BY <5>1, <5>2, <5>3
        <4>4. Secret(ucreds', u.cred) = Secret(ucreds, u.cred)
            BY <1>21, <4>3, SecretKept
        <4>5. w.cred = u.cred /\ w.decl = u.decl BY <1>19, <4>1
        <4>6. /\ p.decl = u.decl /\ p.model = u.targets[t].model
              /\ Secret(creds[t], p.cred) = Secret(ucreds, u.cred)
          BY <3>4, <3>8, <4>1, <4>2
        <4>. QED BY <1>4, <4>2, <4>4, <4>5, <4>6
      <3>9. InStep(t, p, w)' BY <3>5, <3>6, <3>7, <3>8 DEF InStep
      <3>. QED BY <1>19, <1>20, <2>3, <3>9 DEF Follows
    <2>. QED BY <2>2, <2>3
  <1>27. BooksOK'
    BY <1>1, <1>21, <1>22, <1>23, <1>24, <1>25, <1>26, SourceChange
  <1>28. route' \in [Targets -> Routes] /\ SameRoutes(route, route')
    BY <1>1, <1>15, RepublishedIs
  <1>29. RoutesOK' /\ PlansOK'
    BY <1>1, <1>4, <1>28, BumpCatalogIs DEF StoreOK, RoutesOK, PlansOK
  <1>30. RoutesExist'
    <2>1. \A t \in Targets : Ids(rows[t]) \subseteq Ids(rows'[t]) BY <1>4
    <2>. QED BY <1>1, <1>28, <2>1, RowsGrow
  <1>31. GatesInv' BY <1>1, <1>4, ReleasedIs
  <1>32. CInv' BY <1>27, <1>29, <1>30, <1>31, Assembled
  <1>33. ViewsFresh
    <2>1. ASSUME NEW t \in Targets, t \in shown PROVE route'[t].seq > route[t].seq
      <3>1. route[t] \in Routes BY <1>1 DEF StoreOK, RoutesOK
      <3>. QED BY <1>15, <2>1, <3>1 DEF Republished, Routes
    <2>2. ASSUME NEW t \in Targets, t \notin shown PROVE StillShown(t)
      <3>1. SameTarget(t) BY <1>4, <1>28 DEF SameTarget, SameRoutes
      <3>2. ASSUME NEW p \in ToSet(rows[t]), p.owner = u.id PROVE AsCurrent(t, p, u, w)
        <4>1. CASE v = u.decl /\ n = u.cred /\ t \notin changed
          BY <1>18, <1>19, <4>1 DEF AsCurrent
        <4>2. CASE \A r \in GeneratedBy(u.id, t) : ~RowCurrent(t, r)
          <5>1. ~(p.src = u.rev /\ p.ov = u.targets[t].ov)
            BY <1>1, <3>2, <4>2, RowCurrentIs DEF GeneratedBy
          <5>2. PICK z \in ToSet(universals) : z.id = p.owner /\ InStep(t, p, z)
            <6>1. p.owner # None BY <1>12, <3>2, NoneIsNothing DEF Sources
            <6>. QED BY <1>1, <6>1 DEF BooksOK, Owned
          <5>3. z = u BY <1>1, <3>2, <5>2, SourceIsOne
          <5>4. p.src <= u.rev /\ p.ov <= u.targets[t].ov BY <5>2, <5>3 DEF InStep
          <5>5. p \in Providers BY <1>1, InToSet DEF StoreOK, RowsOK
          <5>6. p.src \in Nat /\ p.ov \in Nat /\ u.targets[t].ov \in Nat
            BY <1>12, <5>5 DEF Providers, Overlays
          <5>7. w.rev = u.rev + 1 \/ w.rev = u.rev BY <1>19
          <5>8. w.targets[t].ov = u.targets[t].ov + 1 \/ w.targets[t].ov = u.targets[t].ov
            BY <1>18, <1>19
          <5>. QED BY <1>12, <5>1, <5>4, <5>6, <5>7, <5>8 DEF AsCurrent
        <4>. QED BY <1>15, <2>2, <4>1, <4>2
      <3>3. ASSUME NEW p \in ToSet(rows[t]), NEW z \in ToSet(universals), p.owner = z.id
            PROVE  \E y \in ToSet(universals') : y.id = z.id /\ AsCurrent(t, p, z, y)
        <4>1. CASE z = u BY <1>19, <1>20, <3>2, <3>3, <4>1
        <4>2. CASE z # u BY <1>20, <4>2 DEF AsCurrent
        <4>. QED BY <4>1, <4>2
      <3>. QED BY <3>1, <3>3 DEF StillShown
    <2>. QED BY <1>1, <1>4, <1>23, <2>1, <2>2, SourcesShow
  <1>. QED BY <1>32, <1>33

LEMMA DeleteUniversalKeeps ==
  ASSUME CInv, NEW q \in Requests, DeleteUniversal(q)
  PROVE  CInv' /\ ViewsFresh
  <1>1. StoreOK /\ BooksOK /\ RoutesExist /\ GatesInv BY DEF CInv
  <1>2. PICK u \in ToSet(universals) : u = Universal(request[q].id) /\ u.id = request[q].id
    <2>1. request[q].id \in Ids(universals) BY DEF DeleteUniversal, UpToDate
    <2>. QED BY <1>1, <2>1, UniversalIs
  <1>3. PICK k \in DOMAIN universals : k = At(universals, u.id) /\ universals[k] = u
    BY <1>1, AtIsIt DEF StoreOK, SourcesOK
  <1> DEFINE gone(t) == CHOOSE r \in GeneratedBy(u.id, t) : TRUE
  <1>4. PICK touched : touched = {t \in Targets : GeneratedBy(u.id, t) # {}} OBVIOUS
  <1>5. /\ BumpCatalog /\ Release(q) /\ UNCHANGED <<draft, planned>>
        /\ universals' = RemoveAt(universals, k)
        /\ ucreds' = CollectUniversal(ucreds, universals', u.cred)
        /\ \A t \in Targets : \A r \in GeneratedBy(u.id, t) : ~Referenced(t, r.id)
    BY <1>2, <1>3 DEF DeleteUniversal
  <1>6. /\ rows' = [t \in Targets |->
             IF GeneratedBy(u.id, t) = {} THEN rows[t] ELSE Removed(t, gone(t).id)]
        /\ creds' = [t \in Targets |->
             IF GeneratedBy(u.id, t) = {} THEN creds[t]
             ELSE Collect(t, creds[t], Removed(t, gone(t).id), gone(t).cred)]
        /\ route' = [t \in Targets |-> IF GeneratedBy(u.id, t) = {} THEN route[t] ELSE Bump(t)[t]]
    BY <1>2 DEF DeleteUniversal
  <1>7. ASSUME NEW t \in Targets PROVE Cleared(t, u, rows'[t], creds'[t])
    <2>1. CASE GeneratedBy(u.id, t) = {}
      <3>1. rows'[t] = rows[t] /\ creds'[t] = creds[t] BY <1>6, <2>1
      <3>2. \A p \in ToSet(rows[t]) : p.owner # u.id BY <2>1 DEF GeneratedBy
      <3>3. /\ rows[t] \in Seq(Providers) /\ Keyed(rows[t]) /\ IsTable(creds[t]) /\ CredsExact(t)
        BY <1>1 DEF StoreOK, RowsOK, CredsOK, BooksOK
      <3>. QED BY <3>1, <3>2, <3>3 DEF Cleared, Keeps, CredsExact
    <2>2. CASE GeneratedBy(u.id, t) # {}
      <3>1. /\ rows'[t] = Removed(t, gone(t).id)
            /\ creds'[t] = Collect(t, creds[t], Removed(t, gone(t).id), gone(t).cred)
        BY <1>6, <2>2
      <3>2. Cleared(t, u, Removed(t, gone(t).id),
                    Collect(t, creds[t], Removed(t, gone(t).id), gone(t).cred))
        BY <1>1, <2>2, ClearedIs
      <3>. QED BY <3>1, <3>2
    <2>. QED BY <2>1, <2>2
  <1>8. universals \in Seq(Sources) /\ Keyed(universals) /\ IsTable(ucreds)
    BY <1>1 DEF StoreOK, SourcesOK
  <1>9. /\ universals' \in Seq(Sources) /\ Keyed(universals')
        /\ ToSet(universals') = ToSet(universals) \ {u}
    <2>1. /\ RemoveAt(universals, k) \in Seq(Sources) /\ Keyed(RemoveAt(universals, k))
          /\ ToSet(RemoveAt(universals, k)) = ToSet(universals) \ {universals[k]}
      BY <1>8, RemovedAt
    <2>. QED BY <1>3, <1>5, <2>1
  <1>10. Collected(ucreds, ucreds', u.cred, {x.cred : x \in ToSet(universals')})
    <2>1. \A s : Collected(ucreds, CollectUniversal(ucreds, s, u.cred), u.cred,
                           {x.cred : x \in ToSet(s)})
      BY <1>8, CollectUniversalIs
    <2>2. Collected(ucreds, CollectUniversal(ucreds, universals', u.cred), u.cred,
                    {x.cred : x \in ToSet(universals')})
      BY <2>1
    <2>. QED BY <1>5, <2>2
  <1>11. IsTable(ucreds') /\ Keeps(ucreds, ucreds') /\ UcredsExact'
    <2> DEFINE A == {x.cred : x \in ToSet(universals)}
               B == {x.cred : x \in ToSet(universals')}
    <2>1. DOMAIN ucreds = A \ {None} BY <1>1 DEF BooksOK, UcredsExact
    <2>2. (\A n : n \in A => n = u.cred \/ n \in B) /\ \A n : n \in B => n \in A BY <1>9
    <2>3. DOMAIN ucreds' = DOMAIN ucreds \ ({u.cred} \ B) BY <1>10 DEF Collected
    <2>4. DOMAIN ucreds' = B \ {None}
      <3> HIDE DEF A, B
      <3>. QED BY <2>1, <2>2, <2>3
    <2>. QED BY <1>10, <2>4 DEF Collected, UcredsExact
  <1>12. RowsOK'
    <2>1. \A t \in Targets : rows'[t] \in Seq(Providers) /\ Keyed(rows'[t])
        BY <1>7 DEF Cleared
    <2>2. rows' = [t \in Targets |-> rows'[t]] BY <1>6
    <2>. QED BY <2>1, <2>2 DEF RowsOK
  <1>13. CredsOK'
    <2>1. \A t \in Targets : IsTable(creds'[t]) BY <1>7 DEF Cleared
    <2>2. creds' = [t \in Targets |-> creds'[t]] BY <1>6
    <2>. QED BY <2>1, <2>2 DEF CredsOK
  <1>14. SourcesOK' BY <1>9, <1>11 DEF SourcesOK
  <1>15. \A t \in Targets : CredsExact(t)' BY <1>5, <1>7 DEF Cleared, CredsExact
  <1>16. OnePerTarget' BY <1>1, <1>7 DEF BooksOK, OnePerTarget, Cleared
  <1>17. \A t \in Targets : Keeps(creds[t], creds'[t]) BY <1>7 DEF Cleared
  <1>18. ASSUME NEW t \in Targets, NEW p \in ToSet(rows'[t]), p.owner # None
         PROVE  Follows(t, p)
    <2>1. p \in ToSet(rows[t]) /\ p.owner # u.id BY <1>7 DEF Cleared
    <2>. QED BY <1>9, <2>1 DEF Follows
  <1>19. BooksOK'
    BY <1>1, <1>11, <1>12, <1>13, <1>14, <1>15, <1>16, <1>17, <1>18, SourceChange
  <1>20. route' \in [Targets -> Routes] /\ SameRoutes(route, route')
    <2>1. route' = [t \in Targets |-> IF t \in touched THEN Bump(t)[t] ELSE route[t]]
      BY <1>4, <1>6
    <2>. QED BY <1>1, <2>1, SomeBumped
  <1>21. RoutesOK' /\ PlansOK'
    BY <1>1, <1>5, <1>20, BumpCatalogIs DEF StoreOK, RoutesOK, PlansOK
  <1>22. RoutesExist'
    <2>1. ASSUME NEW t \in Targets, NEW id \in Ids(rows[t]), Routable(t, id)
          PROVE  id \in Ids(rows'[t])
      <3>1. PICK p \in ToSet(rows[t]) : p.id = id BY DEF Ids
      <3>2. Referenced(t, p.id) BY <2>1, <3>1 DEF Routable, Referenced
      <3>3. p.owner # u.id BY <1>5, <3>1, <3>2 DEF GeneratedBy
      <3>4. p \in ToSet(rows'[t]) BY <1>7, <3>1, <3>3 DEF Cleared
      <3>. QED BY <3>1, <3>4 DEF Ids
    <2>. QED BY <1>1, <1>20, <2>1, RoutesKept
  <1>23. GatesInv' BY <1>1, <1>5, ReleasedIs
  <1>24. CInv' BY <1>19, <1>21, <1>22, <1>23, Assembled
  <1>25. ViewsFresh
    <2>1. ASSUME NEW t \in Targets, GeneratedBy(u.id, t) # {} PROVE route'[t].seq > route[t].seq
      BY <1>1, <1>6, <2>1, BumpIsNewer
    <2>2. ASSUME NEW t \in Targets, GeneratedBy(u.id, t) = {} PROVE StillShown(t)
      <3>1. SameTarget(t) BY <1>5, <1>6, <2>2 DEF SameTarget
      <3>2. ASSUME NEW p \in ToSet(rows[t]), NEW z \in ToSet(universals), p.owner = z.id
            PROVE  \E y \in ToSet(universals') : y.id = z.id /\ AsCurrent(t, p, z, y)
        <4>1. z # u BY <2>2, <3>2 DEF GeneratedBy
        <4>. QED BY <1>9, <4>1 DEF AsCurrent
      <3>. QED BY <3>1, <3>2 DEF StillShown
    <2>3. SourcesOK' BY <1>19 DEF BooksOK
    <2>. QED BY <1>1, <1>5, <2>1, <2>2, <2>3, SourcesShow
  <1>. QED BY <1>24, <1>25

-----------------------------------------------------------------------------
(* The configured home that a service starts from.                          *)
LEMMA OneRow ==
  ASSUME NEW S, NEW a \in S
  PROVE  <<a>> \in Seq(S) /\ ToSet(<<a>>) = {a} /\ Keyed(<<a>>)
  <1>1. <<a>> \in Seq(S) /\ DOMAIN <<a>> = {1} /\ <<a>>[1] = a OBVIOUS
  <1>. QED BY <1>1 DEF ToSet, Keyed

LEMMA TwoRows ==
  ASSUME NEW S, NEW a \in S, NEW b \in S, a.id # b.id
  PROVE  <<a, b>> \in Seq(S) /\ ToSet(<<a, b>>) = {a, b} /\ Keyed(<<a, b>>)
  <1>1. <<a, b>> \in Seq(S) /\ DOMAIN <<a, b>> = {1, 2} /\ <<a, b>>[1] = a /\ <<a, b>>[2] = b
    OBVIOUS
  <1>. QED BY <1>1 DEF ToSet, Keyed

LEMMA FirstRowsAre ==
  /\ Own \in Providers /\ Own.id = 1 /\ Own.cred = 1 /\ Own.owner = None
  /\ Generated \in Providers /\ Generated.id = 2 /\ Generated.cred = 2 /\ Generated.owner = 1
  /\ Generated.src = 1 /\ Generated.ov = 1 /\ Generated.decl = Plain /\ Generated.model = Plain
  <1>1. Plain \in Values BY CatalogAssumption
  <1>2. Own = [id |-> 1, rev |-> 1, decl |-> Plain, model |-> Plain, cred |-> 1,
               owner |-> None, src |-> 0, ov |-> 0]
    BY DEF Own, OwnRow
  <1>3. /\ Generated \in Providers /\ Generated.id = 2 /\ Generated.cred = 2
        /\ Generated.owner = 1 /\ Generated.src = 1 /\ Generated.ov = 1
        /\ Generated.decl = Plain /\ Generated.model = Plain
    <2>1. OwnRow(2, Plain, 2) = [id |-> 2, rev |-> 1, decl |-> Plain, model |-> Plain, cred |-> 2,
                                 owner |-> None, src |-> 0, ov |-> 0]
      BY DEF OwnRow
    <2>2. PICK e : e = OwnRow(2, Plain, 2) OBVIOUS
    <2>3. Generated = [e EXCEPT !.owner = 1, !.src = 1, !.ov = 1] BY <2>2 DEF Generated
    <2>4. e \in Providers BY <1>1, <2>1, <2>2 DEF Providers, Ref
    <2>5. Generated \in Providers BY <2>3, <2>4 DEF Providers, Ref
    <2>6. /\ Generated.id = e.id /\ Generated.cred = e.cred /\ Generated.decl = e.decl
          /\ Generated.model = e.model /\ Generated.owner = 1
          /\ Generated.src = 1 /\ Generated.ov = 1
      BY <2>3, <2>4 DEF Providers
    <2>7. e.id = 2 /\ e.cred = 2 /\ e.decl = Plain /\ e.model = Plain BY <2>1, <2>2
    <2>. QED BY <2>5, <2>6, <2>7
  <1>4. /\ Own \in Providers /\ Own.id = 1 /\ Own.cred = 1 /\ Own.owner = None
    BY <1>1, <1>2 DEF Providers, Ref
  <1>. QED BY <1>3, <1>4

LEMMA InitHolds ==
  ASSUME Init
  PROVE  CInv
  <1>1. PICK s \in Secrets, managed \in BOOLEAN :
       /\ rows = [t \in Targets |-> IF managed THEN <<Own, Generated>> ELSE <<Own>>]
       /\ creds = [t \in Targets |-> [c \in 1..(IF managed THEN 2 ELSE 1) |-> s]]
       /\ universals = <<NewSource(1, Plain, 1, [t \in Targets |->
            [Overlay(TRUE, Plain) EXCEPT !.syncSrc = IF managed THEN 1 ELSE 0,
                                         !.syncOv = IF managed THEN 1 ELSE 0]])>>
       /\ ucreds = [c \in {1} |-> s]
       /\ route = [t \in Targets |->
            [current |-> IF managed THEN Managed(t)[1] ELSE None,
             snapshot |-> IF managed THEN Managed(t)[1] ELSE None,
             plan |-> IF managed THEN Managed(t) ELSE <<>>, rev |-> 1, seq |-> 1]]
       /\ draft = [t \in Targets |-> [rev |-> 1, members |->
            IF managed THEN [i \in DOMAIN Managed(t) |-> [id |-> Managed(t)[i], rev |-> 1]] ELSE <<>>]]
       /\ planned = [t \in Targets |-> IF managed THEN ToSet(Managed(t)) ELSE {}]
    BY DEF Init
  <1>2. PICK n \in {0, 1} : n = IF managed THEN 1 ELSE 0 OBVIOUS
  <1>3. PICK o : o = [Overlay(TRUE, Plain) EXCEPT !.syncSrc = n, !.syncOv = n] OBVIOUS
  <1>4. PICK u : u = NewSource(1, Plain, 1, [t \in Targets |-> o]) OBVIOUS
  <1>5. o \in Overlays /\ o.on /\ o.model = Plain /\ o.ov = 1 /\ o.syncSrc = n /\ o.syncOv = n
    <2>1. Plain \in Values BY CatalogAssumption
    <2>. QED BY <1>2, <1>3, <2>1 DEF Overlay, Overlays
  <1>6. /\ u \in Sources /\ u.id = 1 /\ u.rev = 1 /\ u.cred = 1 /\ u.decl = Plain
        /\ \A t \in Targets : u.targets[t] = o
    <2>1. Plain \in Values BY CatalogAssumption
    <2>2. u = [id |-> 1, rev |-> 1, decl |-> Plain, cred |-> 1, targets |-> [t \in Targets |-> o]]
      BY <1>4 DEF NewSource
    <2>. QED BY <1>5, <2>1, <2>2 DEF Sources, Ref
  <1>7. universals = <<u>> BY <1>1, <1>2, <1>3, <1>4
  <1>8. universals \in Seq(Sources) /\ ToSet(universals) = {u} /\ Keyed(universals)
    BY <1>6, <1>7, OneRow
  <1>9. IsTable(ucreds) /\ DOMAIN ucreds = {1} /\ ucreds[1] = s
    <2>1. IsFiniteSet({1}) BY FS_Singleton
    <2>. QED BY <1>1, <2>1 DEF IsTable
  <1>10. ASSUME NEW t \in Targets
         PROVE  /\ rows[t] \in Seq(Providers) /\ Keyed(rows[t])
                /\ ToSet(rows[t]) = IF managed THEN {Own, Generated} ELSE {Own}
    <2>1. CASE managed
      <3>1. rows[t] = <<Own, Generated>> BY <1>1, <2>1
      <3>2. Own \in Providers /\ Generated \in Providers /\ Own.id # Generated.id
        BY FirstRowsAre
      <3>3. /\ <<Own, Generated>> \in Seq(Providers) /\ Keyed(<<Own, Generated>>)
            /\ ToSet(<<Own, Generated>>) = {Own, Generated}
        BY <3>2, TwoRows
      <3>. QED BY <2>1, <3>1, <3>3
    <2>2. CASE ~managed
      <3>1. rows[t] = <<Own>> BY <1>1, <2>2
      <3>2. Own \in Providers BY FirstRowsAre
      <3>3. <<Own>> \in Seq(Providers) /\ Keyed(<<Own>>) /\ ToSet(<<Own>>) = {Own}
        BY <3>2, OneRow
      <3>. QED BY <2>2, <3>1, <3>3
    <2>. QED BY <2>1, <2>2
  <1>11. ASSUME NEW t \in Targets
         PROVE  /\ IsTable(creds[t]) /\ DOMAIN creds[t] = IF managed THEN {1, 2} ELSE {1}
                /\ \A c \in DOMAIN creds[t] : creds[t][c] = s
    <2>1. IsFiniteSet(1..1) /\ IsFiniteSet(1..2)
      <3>1. 1 \in Int /\ 2 \in Int OBVIOUS
      <3>. QED BY <3>1, FS_Interval
    <2>2. 1..1 = {1} /\ 1..2 = {1, 2} OBVIOUS
    <2>3. CASE managed
      <3>1. creds[t] = [c \in 1..2 |-> s] BY <1>1, <2>3
      <3>. QED BY <2>1, <2>2, <2>3, <3>1 DEF IsTable
    <2>4. CASE ~managed
      <3>1. creds[t] = [c \in 1..1 |-> s] BY <1>1, <2>4
      <3>. QED BY <2>1, <2>2, <2>4, <3>1 DEF IsTable
    <2>. QED BY <2>3, <2>4
  <1>12. ASSUME NEW t \in Targets
         PROVE  /\ Managed(t) \in Seq({1, 2}) /\ Managed(t) \in Seq(Nat)
                /\ ToSet(Managed(t)) \subseteq {1, 2} /\ 2 \in ToSet(Managed(t))
                /\ Managed(t)[1] \in {1, 2}
    <2>1. CASE t = "codex"
      <3>1. Managed(t) = <<1, 2>> BY <2>1 DEF Managed
      <3>2. ToSet(<<1, 2>>) = {1, 2} BY DEF ToSet
      <3>. QED BY <3>1, <3>2
    <2>2. CASE t # "codex"
      <3>1. Managed(t) = <<2>> BY <2>2 DEF Managed
      <3>2. ToSet(<<2>>) = {2} BY DEF ToSet
      <3>. QED BY <3>1, <3>2
    <2>. QED BY <2>1, <2>2
  <1>13. RowsOK
    <2>1. rows = [t \in Targets |-> rows[t]] BY <1>1
    <2>. QED BY <1>10, <2>1 DEF RowsOK
  <1>14. CredsOK
    <2>1. creds = [t \in Targets |-> creds[t]] BY <1>1
    <2>. QED BY <1>11, <2>1 DEF CredsOK
  <1>15. SourcesOK BY <1>8, <1>9 DEF SourcesOK
  <1>16. ASSUME NEW t \in Targets
         PROVE  /\ route[t] \in Routes
                /\ ({route[t].current, route[t].snapshot} \ {None}) \cup ToSet(route[t].plan)
                     \subseteq IF managed THEN {1, 2} ELSE {}
    <2>1. CASE managed
      <3>1. route[t] = [current |-> Managed(t)[1], snapshot |-> Managed(t)[1],
                        plan |-> Managed(t), rev |-> 1, seq |-> 1]
        BY <1>1, <2>1
      <3>. QED BY <1>12, <2>1, <3>1 DEF Routes, Ref
    <2>2. CASE ~managed
      <3>1. route[t] = [current |-> None, snapshot |-> None, plan |-> <<>>, rev |-> 1, seq |-> 1]
        BY <1>1, <2>2
      <3>2. <<>> \in Seq(Nat) /\ ToSet(<<>>) = {} BY DEF ToSet
      <3>. QED BY <2>2, <3>1, <3>2 DEF Routes, Ref
    <2>. QED BY <2>1, <2>2
  <1>17. RoutesOK
    <2>1. route = [t \in Targets |-> route[t]] BY <1>1
    <2>2. catalog = [rev |-> 1, seq |-> 1] BY DEF Init
    <2>. QED BY <1>16, <2>1, <2>2 DEF RoutesOK
  <1>18. PlansOK
    <2>1. ASSUME NEW t \in Targets PROVE draft[t] \in Drafts /\ planned[t] \in SUBSET Ref
      <3>1. CASE managed
        <4>1. [i \in DOMAIN Managed(t) |-> [id |-> Managed(t)[i], rev |-> 1]] \in
                Seq([id : Nat, rev : Nat])
          <5>1. PICK m \in Seq(Nat) : m = Managed(t) BY <1>12
          <5>2. \A i \in 1 .. Len(m) : [id |-> m[i], rev |-> 1] \in [id : Nat, rev : Nat] OBVIOUS
          <5>3. [i \in 1 .. Len(m) |-> [id |-> m[i], rev |-> 1]] \in Seq([id : Nat, rev : Nat])
            BY <5>2
          <5>4. DOMAIN m = 1 .. Len(m) BY <5>1
          <5>. QED BY <5>1, <5>3, <5>4
        <4>2. /\ draft[t] = [rev |-> 1, members |->
                    [i \in DOMAIN Managed(t) |-> [id |-> Managed(t)[i], rev |-> 1]]]
              /\ planned[t] = ToSet(Managed(t))
          BY <1>1, <3>1
        <4>. QED BY <1>12, <4>1, <4>2 DEF Drafts, Ref
      <3>2. CASE ~managed
        <4>1. draft[t] = [rev |-> 1, members |-> <<>>] /\ planned[t] = {} BY <1>1, <3>2
        <4>. QED BY <4>1 DEF Drafts, Ref
      <3>. QED BY <3>1, <3>2
    <2>2. /\ draft = [t \in Targets |-> draft[t]] /\ planned = [t \in Targets |-> planned[t]]
      BY <1>1
    <2>. QED BY <2>1, <2>2 DEF PlansOK
  <1>19. ASSUME NEW t \in Targets PROVE CredsExact(t)
    <2>1. CASE managed
      <3>1. {r.cred : r \in ToSet(rows[t])} = {1, 2} BY <1>10, <2>1, FirstRowsAre
      <3>2. planned[t] \subseteq {1, 2} BY <1>1, <1>12, <2>1
      <3>. QED BY <1>11, <2>1, <3>1, <3>2, NoneIsNothing DEF CredsExact
    <2>2. CASE ~managed
      <3>1. {r.cred : r \in ToSet(rows[t])} = {1} BY <1>10, <2>2, FirstRowsAre
      <3>2. planned[t] = {} BY <1>1, <2>2
      <3>. QED BY <1>11, <2>2, <3>1, <3>2, NoneIsNothing DEF CredsExact
    <2>. QED BY <2>1, <2>2
  <1>20. UcredsExact BY <1>6, <1>8, <1>9, NoneIsNothing DEF UcredsExact
  <1>21. Owned
    <2>1. ASSUME NEW t \in Targets, NEW r \in ToSet(rows[t]), r.owner # None
          PROVE  u.id = r.owner /\ InStep(t, r, u)
      <3>1. managed /\ r = Generated BY <1>10, <2>1, FirstRowsAre
      <3>2. n = 1 BY <1>2, <3>1
      <3>3. Secret(creds[t], 2) = s /\ Secret(ucreds, 1) = s
        BY <1>9, <1>11, <3>1, NoneIsNothing DEF Secret
      <3>. QED BY <1>5, <1>6, <3>1, <3>2, <3>3, FirstRowsAre DEF InStep
    <2>. QED BY <1>8, <2>1 DEF Owned
  <1>22. OnePerTarget
    <2>1. ASSUME NEW t \in Targets, NEW a \in ToSet(rows[t]), NEW b \in ToSet(rows[t]),
                 a.owner # None, a.owner = b.owner
          PROVE  a = b
      <3>1. \A r \in ToSet(rows[t]) : r = Own \/ r = Generated BY <1>10
      <3>. QED BY <2>1, <3>1, FirstRowsAre
    <2>. QED BY <2>1 DEF OnePerTarget
  <1>23. RoutesExist
    <2>1. ASSUME NEW t \in Targets
          PROVE  ({route[t].current, route[t].snapshot} \ {None}) \cup ToSet(route[t].plan)
                   \subseteq Ids(rows[t])
      <3>1. CASE managed
        <4>1. {1, 2} \subseteq Ids(rows[t]) BY <1>10, <3>1, FirstRowsAre DEF Ids
        <4>. QED BY <1>16, <3>1, <4>1
      <3>2. CASE ~managed BY <1>16, <3>2
      <3>. QED BY <3>1, <3>2
    <2>. QED BY <2>1 DEF RoutesExist
  <1>24. GatesInv
    <2>1. gate = [t \in Targets |-> None] /\ request = [q \in Requests |-> Idle]
        BY DEF Init
    <2>2. RequestsOK BY <2>1 DEF RequestsOK
    <2>3. HeldInOrder BY <2>1 DEF HeldInOrder
    <2>4. Idle \notin Acting BY DEF Idle, Acting
    <2>5. ActivationsHold BY <2>1, <2>4 DEF ActivationsHold
    <2>. QED BY <2>2, <2>3, <2>5 DEF GatesInv
  <1>25. StoreOK BY <1>13, <1>14, <1>15, <1>17, <1>18 DEF StoreOK
  <1>26. BooksOK BY <1>13, <1>14, <1>15, <1>19, <1>20, <1>21, <1>22 DEF BooksOK
  <1>. QED BY <1>23, <1>24, <1>25, <1>26 DEF CInv

(* Every step preserves the invariant.                                      *)
LEMMA NextHolds ==
  ASSUME CInv, [Next]_vars
  PROVE  CInv' /\ ViewsFresh
  <1>1. ASSUME NEW t \in Targets, TargetAction(t) PROVE CInv' /\ ViewsFresh
    BY <1>1, CreateKeeps, DuplicateKeeps, UpdateKeeps, UpdateGeneratedKeeps, DeleteKeeps,
       ReorderKeeps, SaveDraftKeeps, ApplyKeeps, RestoreKeeps, AdoptKeeps
       DEF TargetAction
  <1>2. ASSUME NEW q \in Requests, Step(q) PROVE CInv' /\ ViewsFresh
    BY <1>2, GateStepsKeep, SynchronizeKeeps, UpdateUniversalKeeps, DeleteUniversalKeeps,
       ActivateKeeps, ConfirmKeeps
       DEF Step
  <1>3. ASSUME UNCHANGED vars PROVE CInv' /\ ViewsFresh
    <2>1. UNCHANGED store /\ UNCHANGED <<gate, request>> BY <1>3 DEF vars, store
    <2>2. GatesInv' BY <2>1, GatesStay DEF CInv
    <2>. QED BY <2>1, <2>2, StoreStays
  <1>. QED BY <1>1, <1>2, <1>3, CreateUniversalKeeps, DuplicateUniversalKeeps,
              ImportUniversalKeeps, IssueKeeps, PreviewKeeps
           DEF Next

-----------------------------------------------------------------------------
(* Whatever a committed row names is there, and no secret is kept that      *)
(* nothing names, for any requests, contents, secrets and numbers of rows.  *)
THEOREM ReferencesStay == Spec => []ReferencesHold
  <1>1. ASSUME CInv PROVE ReferencesHold
    <2>1. StoreOK /\ BooksOK /\ RoutesExist /\ GatesInv BY <1>1 DEF CInv
    <2>2. TypeOK
      <3>1. ASSUME NEW t \in Targets
            PROVE  /\ \A r \in ToSet(rows[t]) : r.id \in Nat /\ r.rev \in Nat \ {0} /\ r.owner \in Nat \cup {None}
                   /\ \A c \in DOMAIN creds[t] : creds[t][c] \in Secrets
                   /\ route[t].rev \in Nat /\ route[t].seq \in Nat
                   /\ gate[t] \in Requests \cup {None}
        <4>1. rows[t] \in Seq(Providers) /\ IsTable(creds[t]) /\ route[t] \in Routes
          BY <2>1 DEF StoreOK, RowsOK, CredsOK, RoutesOK
        <4>2. ToSet(rows[t]) \subseteq Providers BY <4>1, InToSet
        <4>. QED
            BY <2>1, <4>1, <4>2
               DEF Providers, Ref, IsTable, Routes, GatesInv, RequestsOK
      <3>. QED BY <2>1, <3>1, KindsOfRequest DEF TypeOK, GatesInv
    <2>3. CredentialsAreExact
        BY <2>1 DEF BooksOK, CredsExact, UcredsExact, CredentialsAreExact
    <2>. QED BY <2>1, <2>2, <2>3 DEF ReferencesHold
  <1>. QED BY <1>1, InitHolds, NextHolds, PTL DEF Spec

(* A generated provider that is called synchronized is what its source      *)
(* declares, both views agree on which are, and none outlives its source.   *)
THEOREM GeneratedStaysSource == Spec => []GeneratedIsSource
  <1>1. ASSUME CInv PROVE GeneratedIsSource
    <2>1. StoreOK /\ BooksOK BY <1>1 DEF CInv
    <2>2. ASSUME NEW t \in Targets, NEW r \in ToSet(rows[t]), r.owner # None
          PROVE  /\ r.owner \in Ids(universals)
                 /\ LET u == Universal(r.owner)
                    IN /\ Current(u, t) <=> RowCurrent(t, r)
                       /\ RowCurrent(t, r) =>
                            /\ u.targets[t].on
                            /\ <<r.decl, r.model>> = <<u.decl, u.targets[t].model>>
                            /\ Secret(creds[t], r.cred) = Secret(ucreds, u.cred)
      <3>1. PICK u \in ToSet(universals) : u.id = r.owner /\ InStep(t, r, u)
        BY <2>1, <2>2 DEF BooksOK, Owned
      <3>2. r.owner \in Ids(universals) BY <3>1 DEF Ids
      <3>3. Universal(r.owner) = u BY <2>1, <3>1, <3>2, UniversalIs, SourceIsOne
      <3>4. r \in GeneratedBy(u.id, t) BY <3>1 DEF GeneratedBy
      <3>5. RowCurrent(t, r) <=> r.src = u.rev /\ r.ov = u.targets[t].ov
        BY <3>3 DEF RowCurrent
      <3>6. Current(u, t) <=> RowCurrent(t, r) BY <3>1, <3>4, <3>5 DEF Current, InStep
      <3>. QED BY <3>1, <3>2, <3>3, <3>5, <3>6 DEF InStep
    <2>. QED BY <2>2 DEF GeneratedIsSource
  <1>. QED BY <1>1, InitHolds, NextHolds, PTL DEF Spec

(* Requests that wait for gates never wait for each other, however many     *)
(* there are.                                                               *)
THEOREM WaitsAreOrdered == Spec => []NoCircularWait
  <1>1. CInv => NoCircularWait BY NobodyWaitsInCircles DEF CInv
  <1>. QED BY <1>1, InitHolds, NextHolds, PTL DEF Spec

(* A Universal Provider's part of the catalog tells which providers it      *)
(* generated.                                                               *)
LEMMA ContentTellsGenerated ==
  ASSUME CatalogContent' = CatalogContent, NEW i \in DOMAIN universals, NEW t \in Targets
  PROVE  /\ DOMAIN universals' = DOMAIN universals
         /\ {r.id : r \in GeneratedBy(universals[i].id, t)}' =
            {r.id : r \in GeneratedBy(universals[i].id, t)}
  <1> DEFINE refs == {<<r.id, r.id = route[t].current, r.id = route[t].snapshot>> :
                        r \in GeneratedBy(universals[i].id, t)}
             ids == {r.id : r \in GeneratedBy(universals[i].id, t)}
  <1>1. DOMAIN universals' = DOMAIN universals
    <2>1. DOMAIN CatalogContent = DOMAIN universals BY DEF CatalogContent
    <2>2. DOMAIN CatalogContent' = DOMAIN universals' BY DEF CatalogContent
    <2>. QED BY <2>1, <2>2
  <1>2. CatalogContent[i][5][t][5] = refs BY DEF CatalogContent
  <1>3. CatalogContent'[i][5][t][5] = refs' BY <1>1 DEF CatalogContent
  <1>4. refs' = refs BY <1>2, <1>3
  <1>5. ASSUME NEW y PROVE y \in ids <=> \E z \in refs : y = z[1]
    <2>1. ASSUME y \in ids PROVE \E z \in refs : y = z[1]
      <3>1. PICK r \in GeneratedBy(universals[i].id, t) : y = r.id BY <2>1
      <3>2. <<r.id, r.id = route[t].current, r.id = route[t].snapshot>> \in refs OBVIOUS
      <3>3. <<r.id, r.id = route[t].current, r.id = route[t].snapshot>>[1] = r.id OBVIOUS
      <3> HIDE DEF refs
      <3>. QED BY <3>1, <3>2, <3>3
    <2>2. ASSUME NEW z \in refs, y = z[1] PROVE y \in ids
      <3>1. PICK r \in GeneratedBy(universals[i].id, t) :
              z = <<r.id, r.id = route[t].current, r.id = route[t].snapshot>> OBVIOUS
      <3>2. y = r.id BY <2>2, <3>1
      <3>. QED BY <3>2
    <2> HIDE DEF refs, ids
    <2>. QED BY <2>1, <2>2
  <1>6. ASSUME NEW y PROVE y \in ids' <=> \E z \in refs' : y = z[1]
    <2>1. ASSUME y \in ids' PROVE \E z \in refs' : y = z[1]
      <3>1. PICK r \in GeneratedBy(universals[i].id, t)' : y = r.id BY <2>1
      <3>2. <<r.id, r.id = route'[t].current, r.id = route'[t].snapshot>> \in refs' OBVIOUS
      <3>3. <<r.id, r.id = route'[t].current, r.id = route'[t].snapshot>>[1] = r.id OBVIOUS
      <3> HIDE DEF refs
      <3>. QED BY <3>1, <3>2, <3>3
    <2>2. ASSUME NEW z \in refs', y = z[1] PROVE y \in ids'
      <3>1. PICK r \in GeneratedBy(universals[i].id, t)' :
              z = <<r.id, r.id = route'[t].current, r.id = route'[t].snapshot>> OBVIOUS
      <3>2. y = r.id BY <2>2, <3>1
      <3>. QED BY <3>2
    <2> HIDE DEF refs, ids
    <2>. QED BY <2>1, <2>2
  <1> HIDE DEF refs
  <1>7. ids' = ids
    <2> HIDE DEF ids
    <2>1. \A y : y \in ids <=> y \in ids' BY <1>4, <1>5, <1>6
    <2>2. ASSUME NEW A, NEW B, \A y : y \in A <=> y \in B,
                 NEW P, NEW Q, A = {r.id : r \in P}, B = {r.id : r \in Q} PROVE A = B
      BY <2>2
    <2>. QED BY <2>1, <2>2 DEF ids
  <1>. QED BY <1>1, <1>7 DEF ids

(* What changes of the catalog without a number is a target's new plan.     *)
LEMMA UnnumberedIsReplanned ==
  ASSUME ViewsFresh, CatalogView' # CatalogView, ~(catalog'.seq > catalog.seq)
  PROVE  OnlyReplanned
  <1>1. CatalogContent' = CatalogContent BY DEF ViewsFresh, CatalogFresh
  <1>2. PlanReferences' # PlanReferences BY <1>1 DEF CatalogView
  <1>3. \E t \in Targets : route'[t].plan # route[t].plan
    <2> SUFFICES ASSUME \A t \in Targets : route'[t].plan = route[t].plan
                 PROVE  PlanReferences' = PlanReferences
      BY <1>2
    <2>1. CASE DOMAIN universals = {}
      <3>1. DOMAIN universals' = {}
        <4>1. DOMAIN CatalogContent = DOMAIN universals BY DEF CatalogContent
        <4>2. DOMAIN CatalogContent' = DOMAIN universals' BY DEF CatalogContent
        <4>. QED BY <1>1, <2>1, <4>1, <4>2
      <3>. QED BY <2>1, <3>1 DEF PlanReferences
    <2>2. CASE DOMAIN universals # {}
      <3>1. DOMAIN universals' = DOMAIN universals
        BY <1>1, <2>2, ContentTellsGenerated DEF Targets
      <3>2. ASSUME NEW i \in DOMAIN universals, NEW t \in Targets
            PROVE  ({r.id : r \in GeneratedBy(universals[i].id, t)} \intersect ToSet(route[t].plan))'
                   = {r.id : r \in GeneratedBy(universals[i].id, t)} \intersect ToSet(route[t].plan)
        BY <1>1, ContentTellsGenerated
      <3>. QED BY <3>1, <3>2 DEF PlanReferences
    <2>. QED BY <2>1, <2>2
  <1>4. PICK t \in Targets : route'[t].plan # route[t].plan BY <1>3
  <1>5. TargetView(t)' # TargetView(t) BY <1>4 DEF TargetView
  <1>6. route'[t].seq > route[t].seq BY <1>5 DEF ViewsFresh, TargetFresh
  <1>. QED BY <1>1, <1>4, <1>6 DEF OnlyReplanned

(* A transaction that changes what a client's view shows moves the sequence *)
(* that orders the views, of the target it is about, of the other one and   *)
(* of the catalog, where only the references by active plans change without *)
(* it: whichever gates are held and whatever requests are on their way.     *)
THEOREM ViewsStayFresh == Spec => ViewsAreFresh
  <1>1. CInv /\ [Next]_vars => CInv' BY NextHolds
  <1>2. Spec => []CInv BY <1>1, InitHolds, PTL DEF Spec
  <1>3. CInv /\ [Next]_vars =>
         [/\ \A t \in Targets : TargetView(t)' # TargetView(t) => route'[t].seq > route[t].seq
          /\ CatalogView' # CatalogView => catalog'.seq > catalog.seq \/ OnlyReplanned]_vars
    BY NextHolds, UnnumberedIsReplanned DEF ViewsFresh, TargetFresh
  <1>. QED BY <1>2, <1>3, PTL DEF Spec, ViewsAreFresh
=============================================================================
