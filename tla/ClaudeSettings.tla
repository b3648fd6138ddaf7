--------------------------- MODULE ClaudeSettings ---------------------------
(***************************************************************************)
(* What Muxvia does to the settings of Claude: the names of "env" it owns, *)
(* how it writes and takes back them without disturbing the text around    *)
(* them, what its journal remembers of them, what a start makes of a crash *)
(* on either side of a write, and which other settings stand in the way.   *)
(* Pure operators, as in CodexDocument.                                    *)
(*                                                                         *)
(* Settings are what "env" holds, the other members, and how the text is   *)
(* laid out: in the operator's way or the serializer's, with the member    *)
(* "env" missing, where Muxvia inserts it, or elsewhere.                   *)
(***************************************************************************)
CONSTANTS
  OtherNames, \* names in "env" that Muxvia never owns
  Modes,      \* those of them that select another kind of provider
  Texts,      \* JSON strings
  Null,       \* JSON's null
  NoEntry,     \* no entry of that name
  Blocking,   \* entries that switch a mode on
  NormalUrl,  \* text -> the same as a normalised URL
  Rest,       \* what the other members say
  Nothing     \* there are none

OwnedNames == {"base_url", "auth_token", "model", "api_key"}

ASSUME NamesAssumption == Modes \subseteq OtherNames /\ OtherNames \cap OwnedNames = {}
ASSUME TextsAssumption ==
  /\ Null \notin Texts /\ NoEntry \notin Texts /\ Null # NoEntry /\ Nothing \in Rest
  /\ NormalUrl \in [Texts -> Texts] /\ Blocking \subseteq Texts

Names == OwnedNames \cup OtherNames
Entries == Texts \cup {Null, NoEntry}
OwnedParts == [OwnedNames -> Entries]
Settings ==
  [exists : BOOLEAN, env : [Names -> Entries], member : {"none", "inserted", "own"},
   other : Rest, text : {"own", "pretty"}]

NoEnv == [n \in Names |-> NoEntry]
Missing == [exists |-> FALSE, env |-> NoEnv, member |-> "none", other |-> Nothing, text |-> "own"]

(* Homes taken over by the first version own three of the names.            *)
Ownerships == {"LegacyThree", "FourField"}
OwnedKeys(o) == IF o = "LegacyThree" THEN OwnedNames \ {"api_key"} ELSE OwnedNames

CaptureOwned(s, o) == [n \in OwnedNames |-> IF n \in OwnedKeys(o) THEN s.env[n] ELSE NoEntry]
UnrelatedProjection(s, o) ==
  [env |-> [n \in Names |-> IF n \in OwnedKeys(o) THEN NoEntry ELSE s.env[n]], other |-> s.other]
ReadSnapshot(s, o) ==
  [ownership |-> o, exists |-> s.exists,
   owned |-> CaptureOwned(s, o), unrelated |-> UnrelatedProjection(s, o)]

-----------------------------------------------------------------------------
(* Writing.  "env" is inserted and removed in the text as it stands where   *)
(* that can be found; otherwise the whole file is written anew.             *)
OwnedHasValues(owned, o) == \E n \in OwnedKeys(o) : owned[n] # NoEntry

AppliedOwned(s, owned, o) ==
  [n \in Names |-> IF n \in OwnedKeys(o) THEN owned[n] ELSE s.env[n]]

InsertsEnv(s, owned, o) == s.exists /\ s.member = "none" /\ OwnedHasValues(owned, o)
RemovesEnv(s, owned, o) ==
  /\ s.env # NoEnv /\ ~OwnedHasValues(owned, o)
  /\ \A n \in Names \ OwnedKeys(o) : s.env[n] = NoEntry
  /\ s.member = "inserted" \/ s.other = Nothing

WriteOwned(s, owned, o) ==
  LET env == AppliedOwned(s, owned, o) IN
  [exists |-> TRUE, env |-> env, other |-> s.other,
   member |-> IF env = NoEnv THEN "none"
              ELSE IF InsertsEnv(s, owned, o) THEN "inserted" ELSE "own",
   text |-> IF InsertsEnv(s, owned, o) \/ RemovesEnv(s, owned, o) THEN s.text ELSE "pretty"]

DesiredTakeover(model, url, credential) ==
  [n \in OwnedNames |-> CASE n = "base_url" -> url [] n = "auth_token" -> credential
                          [] n = "model" -> model [] n = "api_key" -> NoEntry]
DesiredDirect(model, url, authentication, credential) ==
  [n \in OwnedNames |-> CASE n = "base_url" -> url [] n = "model" -> model
                          [] n \notin {"base_url", "model"} ->
                               IF n = authentication THEN credential ELSE NoEntry]

(* verify: what was meant is there, and nothing else has changed.           *)
Verified(s, before, owned) ==
  /\ CaptureOwned(s, before.ownership) = owned
  /\ UnrelatedProjection(s, before.ownership) = before.unrelated

-----------------------------------------------------------------------------
(* Taking back.                                                             *)
SettingsMatch(s, before) == Verified(s, before, before.owned)

RestoredSettings(s, before) ==
  LET unrelated == UnrelatedProjection(s, before.ownership) IN
  IF ~before.exists /\ unrelated.env = NoEnv /\ unrelated.other = Nothing THEN Missing
  ELSE WriteOwned(s, before.owned, before.ownership)

(* restore_or_confirm_before, and reconcile_one at a start: the settings    *)
(* they leave, and whether the intent is rolled back.                       *)
TakenBack(s, before, desired) ==
  LET restored == RestoredSettings(s, before) IN
  IF SettingsMatch(s, before) THEN [settings |-> s, settled |-> TRUE]
  ELSE IF CaptureOwned(s, before.ownership) # desired THEN [settings |-> s, settled |-> FALSE]
  ELSE [settings |-> restored, settled |-> SettingsMatch(restored, before)]

ReconcileOne(s, before, desired) ==
  IF SettingsMatch(s, before) \/ Verified(s, before, desired)
  THEN TakenBack(s, before, desired)
  ELSE [settings |-> s, settled |-> FALSE]

(* What the store gives back of the owned fields: null is taken for a field *)
(* that is not there.                                                       *)
Stored(owned) == [n \in OwnedNames |-> IF owned[n] = Null THEN NoEntry ELSE owned[n]]
StoredSnapshot(before) == [before EXCEPT !.owned = Stored(@)]

-----------------------------------------------------------------------------
(* Drift: adopting what the file says, reapplying and restoring.            *)
OneCredential(owned) ==
  \E n \in {"auth_token", "api_key"} :
    owned[n] \in Texts /\ \A k \in {"auth_token", "api_key"} \ {n} : owned[k] \notin Texts
ProviderOf(owned) ==
  [model |-> owned["model"], base_url |-> NormalUrl[owned["base_url"]],
   authentication |-> CHOOSE n \in {"auth_token", "api_key"} : owned[n] \in Texts]
CanBeAdopted(owned) ==
  owned["model"] \in Texts /\ owned["base_url"] \in Texts /\ OneCredential(owned)

(* A configuration that was adopted is committed as it was captured; the    *)
(* next activation expects what its Provider would be written as.           *)
AdoptedOwned(s) == Stored(CaptureOwned(s, "FourField"))
ExpectedDirect(owned) ==
  LET p == ProviderOf(owned) IN
  DesiredDirect(p.model, p.base_url, p.authentication, owned[p.authentication])
StillManaged(s, committed) ==
  committed = ExpectedDirect(committed) /\ CaptureOwned(s, "FourField") = committed
OwnedDrifted(s, committed) == CaptureOwned(s, "FourField") # committed

(* The Recovery Snapshot an adoption or a reapplication binds.              *)
LatestUnrelated(current, before) ==
  [before EXCEPT !.exists = current.exists, !.unrelated = current.unrelated]

ReconciledRestore(s, before) == WriteOwned(s, before.owned, before.ownership)

-----------------------------------------------------------------------------
(* Other settings.  A place is a path beside the user's settings; it may be *)
(* those settings, as a path, as a link, or behind a linked directory.      *)
Places == {"managed", "shared", "local"}
Aliases == {"none", "same", "link", "directory"}

HasOwnedShadow(s, o) == \E n \in OwnedKeys(o) : s.env[n] # NoEntry
ActiveModes(s) == {n \in Modes : s.env[n] \in Blocking}

(* at[p]: the alias of a place and, if it has none, the settings there.     *)
SettingsAt(user, at, p) == IF at[p].alias = "none" THEN at[p].settings ELSE user

(* preflight_snapshot_with_ownership lets an activation pass.               *)
PreflightPasses(user, at, switched, o) ==
  /\ switched = {} /\ ActiveModes(user) = {}
  /\ \A p \in Places :
       \/ at[p].alias = "same" \/ ~SettingsAt(user, at, p).exists
       \/ ~HasOwnedShadow(SettingsAt(user, at, p), o) /\ ActiveModes(SettingsAt(user, at, p)) = {}

(* reconciliation_snapshot shows these shadows; switched are those of the   *)
(* Control Plane's own environment.                                         *)
ObservedShadows(user, at, switched, o) ==
  LET look(p) == \/ at[p].alias = "link"
                 \/ at[p].alias = "none" /\ at[p].settings.exists
  IN
  switched \cup ActiveModes(user)
    \cup {p \in Places : look(p) /\ HasOwnedShadow(SettingsAt(user, at, p), o)}
    \cup UNION {ActiveModes(SettingsAt(user, at, p)) : p \in {q \in Places : look(q)}}
=============================================================================
