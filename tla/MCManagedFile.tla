--------------------------- MODULE MCManagedFile ---------------------------
(* One replacement and an editor that saves or removes the file a few      *)
(* times; the replacement ends, so the system may stop.  And the documents *)
(* such a file holds, with the managements they go through: two provider   *)
(* tables of the operator's beside Muxvia's, each blank, plain, another,   *)
(* written in the operator's own way, or pointing to the model server;     *)
(* and settings of Claude with two names that Muxvia does not own.         *)
EXTENDS ManagedFile, CodexDocument, ClaudeSettings

MCKeys == {"muxvia_codex", "a", "b"}
MCValues == {"v", "w", "styled", "slash", "local"}
MCCanonical == [v \in MCValues |-> IF v = "styled" THEN "v" ELSE v]
MCNormal == [v \in MCValues |-> IF v = "slash" THEN "v" ELSE v]
MCRestorable == MCValues \ {"local"}

Filled(v) == [f \in Fields |-> v]
Plain == {NoFields, Filled("v"), Filled("w")}
Found == {[NoFields EXCEPT !["name"] = "v"], Filled("local")}
Local == Filled("local")

(* The operator's files before Muxvia, and the ones an edit may leave.      *)
Originals ==
  {[Blank EXCEPT !.exists = TRUE, !.model = "v", !.selected = s,
                 !.fields = [Blank.fields EXCEPT !["a"] = a, !["b"] = b],
                 !.beside = [Blank.beside EXCEPT !["a"] = x]] :
     s \in {"a", "b", None}, a \in Plain \cup Found, b \in Plain, x \in {None, "v"}}
  \cup {Blank}
Adoptables(d, k) ==
  {[d EXCEPT !.selected = k, !.model = "w", !.fields[k] = t, !.other = o] :
     t \in {Filled("v"), Filled("w"), Filled("styled"), Filled("slash")}, o \in {None, "w"}}

(* Taken over; then the operator selects a table of its own and adopts it;  *)
(* then Muxvia takes that one over as well.                                 *)
TakenOver == {Started(d, "v", Local) : d \in Originals}
AdoptedFrom(m, k) == {n \in {Edited(m, d) : d \in Adoptables(m.document, k)} : CanAdopt(n)}
AdoptedOnce == {Adopted(n) : n \in UNION {AdoptedFrom(m, "a") : m \in TakenOver}}
TakenOverAgain == {Switched(m, "v", Local) : m \in {n \in AdoptedOnce : CanSwitch(n)}}

(* What a restore must leave: the fields and the selection from before, the *)
(* named tables as they were, and everything else as it is now.             *)
GivesBack(m, original, keys) ==
  LET d == Restored(m) IN
  /\ d.model = original.model /\ d.selected = original.selected
  /\ \A k \in keys \cup {Reserved} : TableMeans(d.fields[k]) = TableMeans(original.fields[k])
  /\ d.beside = m.document.beside /\ d.other = m.document.other

(* A takeover leaves everything that is not Muxvia's as it was and can be   *)
(* undone to the letter.                                                    *)
ASSUME TakeoverIsUndone ==
  \A d \in Originals :
    LET m == Started(d, "v", Local) IN
    /\ Unrelated(m.document, Reserved) = Unrelated(d, Reserved)
    /\ CanSwitch(m) /\ CanRestore(m) /\ Restored(m) = d

(* A restore passes the verification that follows it, and undoing it gives  *)
(* the observed document back.                                              *)
ASSUME RestoreIsVerified ==
  \A m \in TakenOver \cup AdoptedOnce \cup TakenOverAgain :
    LET bound == WithRestoreFor(m.bound, m.committed.key)
        before == Snapshot(m.document, m.committed.key)
        planned == PlannedExists(
          RestoreUnionDocument(m.document, before, bound.owned, bound.restore), bound)
    IN /\ CanRestore(m)
       /\ RestoreUnionMatches(Restored(m), before, bound.owned, bound.restore, planned)
       /\ MatchesBefore(UndoRestoreUnion(Restored(m), before, bound.owned), before)

(* With one table adopted, before and after it is taken over, a restore     *)
(* gives the table back that Muxvia found.                                  *)
ASSUME OneAdoptionIsUndone ==
  \A d \in Originals \ {Blank} :
    \A n \in AdoptedFrom(Started(d, "v", Local), "a") :
      /\ GivesBack(Adopted(n), d, {"a"})
      /\ CanSwitch(Adopted(n)) => GivesBack(Switched(Adopted(n), "v", Local), d, {"a"})

(* With a second one adopted the first is forgotten: the file that is       *)
(* restored selects a table that still points to the model server.          *)
ASSUME TwoAdoptionsAreNotUndone ==
  \E d \in Originals \ {Blank} :
    \E n \in AdoptedFrom(Started(d, "v", Local), "a") :
      /\ CanSwitch(Adopted(n))
      /\ LET m == Switched(Adopted(n), "v", Local) IN
         \E second \in AdoptedFrom(m, "b") :
           LET last == Restored(Adopted(second)) IN
           /\ last.selected = "a" /\ last.fields["a"]["base_url"] = "local"

(* An adopted table that is not written as Muxvia writes it, or whose URL   *)
(* is not normal, is managed but no other Provider can be activated.        *)
ASSUME AdoptedAsWritten ==
  \A m \in AdoptedOnce :
    CanSwitch(m) <=> m.committed.fields \in {Filled("v"), Filled("w")}

-----------------------------------------------------------------------------
(* Claude: one mode and one name of the operator's beside the owned ones.   *)
MCOtherNames == {"mode", "path"}
MCModes == {"mode"}
MCTexts == {"v", "w", "slash", "local"}
MCNormalUrl == [t \in MCTexts |-> IF t = "slash" THEN "v" ELSE t]
MCRest == {"r", Nothing}

Entry(api, token) ==
  [n \in Names |-> CASE n = "api_key" -> api [] n = "auth_token" -> token
                     [] n \in {"base_url", "model"} -> IF token = NoEntry THEN NoEntry ELSE "v"
                     [] n \in OtherNames -> NoEntry]
Envs ==
  {[Entry(api, token) EXCEPT !["base_url"] = u, !["path"] = x] :
     api \in {NoEntry, Null, "v"}, token \in {NoEntry, Null, "v"},
     u \in {NoEntry, "v", "slash"}, x \in {NoEntry, "w"}}
Homes ==
  {s \in [exists : {TRUE}, env : Envs \cup {NoEnv}, member : {"none", "inserted", "own"},
          other : Rest, text : {"own", "pretty"}] : s.member = "none" => s.env = NoEnv}
  \cup {Missing}
Takeover == DesiredTakeover("w", "local", "local")
Writings ==
  {[home |-> s, ownership |-> o, owned |-> w] :
     s \in Homes, o \in Ownerships, w \in {Takeover}}
  \cup {[home |-> s, ownership |-> "FourField", owned |-> DesiredDirect("w", "w", a, "w")] :
          s \in Homes, a \in {"auth_token", "api_key"}}
HasNull(s, o) == \E n \in OwnedKeys(o) : s.env[n] = Null

(* What Muxvia writes passes its verification and is taken back again, to   *)
(* the letter where the operator had no "env".                              *)
ASSUME SettingsAreTakenBack ==
  \A x \in Writings :
    LET before == ReadSnapshot(x.home, x.ownership)
        written == WriteOwned(x.home, x.owned, x.ownership)
        back == TakenBack(written, before, x.owned)
    IN /\ Verified(written, before, x.owned) /\ back.settled
       /\ back.settings.env = x.home.env /\ back.settings.other = x.home.other
       /\ x.home.member = "none" => back.settings = x.home

(* A start after a kill on either side of the write settles the intent,     *)
(* unless an owned name held null: the journal forgets it, and the settings *)
(* that were never written are not recognised.                              *)
ASSUME CrashesAreTakenBack ==
  \A x \in Writings :
    LET before == StoredSnapshot(ReadSnapshot(x.home, x.ownership))
        written == WriteOwned(x.home, x.owned, x.ownership)
        after == ReconcileOne(written, before, x.owned)
    IN /\ ReconcileOne(x.home, before, x.owned).settled <=> ~HasNull(x.home, x.ownership)
       /\ after.settled
       /\ \A n \in Names : after.settings.env[n] = x.home.env[n] \/ x.home.env[n] = Null

(* What is adopted stays managed if it is written as its Provider would be; *)
(* with null in an owned name it has drifted as soon as it is committed.    *)
ASSUME AdoptedSettings ==
  \A s \in {h \in Homes : CanBeAdopted(CaptureOwned(h, "FourField"))} :
    LET url == s.env["base_url"] IN
    /\ StillManaged(s, AdoptedOwned(s)) <=> NormalUrl[url] = url /\ ~HasNull(s, "FourField")
    /\ OwnedDrifted(s, AdoptedOwned(s)) <=> HasNull(s, "FourField")

(* A Restore of drifted settings gives the owned names back, but leaves a   *)
(* file that Muxvia made; the undoing of an activation does the same once   *)
(* the settings were adopted or reapplied.                                  *)
ASSUME SettingsAreRestored ==
  \A x \in Writings : \A r \in Rest :
    LET before == ReadSnapshot(x.home, x.ownership)
        edited == [WriteOwned(x.home, x.owned, x.ownership) EXCEPT !.other = r, !.text = "own"]
        rebound == LatestUnrelated(ReadSnapshot(edited, x.ownership), before)
        restored == ReconciledRestore(edited, before)
        undone == TakenBack(edited, rebound, x.owned)
    IN /\ restored.exists /\ restored.env = x.home.env /\ restored.other = r
       /\ undone.settled /\ undone.settings = restored

(* Where a reconciliation shows a shadow an activation is refused, and the  *)
(* other way round unless the project's directory is a link to the user's.  *)
Users == {[s EXCEPT !.env["mode"] = m] : m \in {NoEntry, "v", "w"}, s \in {h \in Homes :
             h.other = Nothing /\ h.text = "own" /\ h.env["base_url"] # "slash"}}
Beside == {Missing, [Missing EXCEPT !.exists = TRUE], [Missing EXCEPT !.exists = TRUE, !.env["api_key"] = Null],
           [Missing EXCEPT !.exists = TRUE, !.env["mode"] = "v"]}
ASSUME ShadowsAgree ==
  \A user \in Users, o \in Ownerships, switched \in SUBSET {"host"} :
    \A at \in [Places -> [alias : {"none"}, settings : Beside]
                         \cup [alias : Aliases \ {"none"}, settings : {Missing}]] :
      LET passes == PreflightPasses(user, at, switched, o)
          shadows == ObservedShadows(user, at, switched, o)
      IN /\ shadows # {} => ~passes
         /\ ~passes => \/ shadows # {}
                       \/ /\ \E p \in Places : at[p].alias = "directory"
                          /\ user.exists /\ HasOwnedShadow(user, o)
=============================================================================
