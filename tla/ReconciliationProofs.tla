------------------------ MODULE ReconciliationProofs ------------------------
(***************************************************************************)
(* For any number of previews, activations, edits, crashes and failed      *)
(* store writes: what the operator wrote into a managed file is written    *)
(* over only by who was shown it, and at rest the file and the model       *)
(* server are what is committed.                                           *)
(***************************************************************************)
EXTENDS Reconciliation, TLAPS

-----------------------------------------------------------------------------
(* What everything ranges over.                                             *)
Routes ==
  [target : Targets, managed : BOOLEAN, desired : Owned, before : Files, takeover : BOOLEAN,
   required : BOOLEAN, drift : BOOLEAN, revision : Nat]
Rows ==
  [state : {"none", "pending", "committed", "rolledBack", "required"}, before : Files,
   desired : Owned, union : BOOLEAN]
Sessions ==
  [pc : {"idle", "registered", "shown", "over"}, strategy : Strategies, rec : Observed,
   previous : Observed, disables : BOOLEAN]
Operations ==
  [pc : Steps, strategy : Strategies, rec : Observed, drains : BOOLEAN, before : Files,
   desired : Owned]
Bounded ==
  [writes : 0 .. MaxWrites, edits : 0 .. MaxEdits, crashes : Nat, faults : Nat, unsettled : Nat]

Shape ==
  /\ file \in Files /\ route \in Routes
  /\ tokens \in [Strategies -> Observed] /\ shown \in [Strategies -> 0 .. MaxPreviews]
  /\ clients \in [Clients -> Sessions]
  /\ intents \in [Clients -> Rows] /\ act \in Rows
  /\ model \in {"none", "serving", "reserved", "draining"} /\ active \in 0 .. MaxRequests
  /\ op \in Operations /\ skipped \in BOOLEAN /\ counts \in Bounded

-----------------------------------------------------------------------------
(* The registrations.  Who may consume a token holds the lock of its        *)
(* strategy, and so does who has registered one that was not shown yet.     *)
LockSteps == ApplySteps \ {"lock"}
Registered(c, s) == clients[c].pc = "registered" /\ clients[c].strategy = s

OneHoldsTheLock ==
  /\ \A c, d \in Clients, s \in Strategies : Registered(c, s) /\ Registered(d, s) => c = d
  /\ op.pc \in LockSteps => \A c \in Clients : ~Registered(c, op.strategy)

(* What is registered is what was last shown, or it is about to be shown    *)
(* and what was shown before it is remembered.                              *)
TokensAreShown ==
  \A s \in Strategies :
    \/ tokens[s].id = shown[s]
    \/ \E c \in Clients : Registered(c, s)
PreviewsAreTokens ==
  \A c \in Clients, s \in Strategies :
    Registered(c, s) => tokens[s] = clients[c].rec /\ clients[c].previous.id = shown[s]

(* A token is of one strategy: who is shown it and who applies it mean the  *)
(* same one.                                                                *)
UsedFor(n, s) ==
  \/ tokens[s].id = n \/ shown[s] = n
  \/ \E c \in Clients : Registered(c, s) /\ clients[c].previous.id = n

TokensAreOwn ==
  \A c \in Clients :
    /\ clients[c].pc = "idle" => \A s \in Strategies : ~UsedFor(c, s)
    /\ clients[c].pc \in {"registered", "shown"} =>
         /\ clients[c].rec.id = c
         /\ clients[c].disables => clients[c].strategy = "restore"
         /\ \A s \in Strategies : UsedFor(c, s) => s = clients[c].strategy

AppliedIsOwn ==
  /\ op.drains => op.strategy = "restore"
  /\ op.pc \in ApplySteps \cup {"complete", "markComplete"} =>
       op.rec.id \in Clients /\ clients[op.rec.id].pc = "over"
  /\ op.pc \in ApplySteps => \A s \in Strategies : UsedFor(op.rec.id, s) => s = op.strategy

TokensInv ==
  OneHoldsTheLock /\ TokensAreShown /\ PreviewsAreTokens /\ TokensAreOwn /\ AppliedIsOwn

-----------------------------------------------------------------------------
(* The operation at the gate.                                               *)
Deciding == {"reserve", "intent", "write", "commit", "rollback", "settle", "mark"}
Journalled == {"write", "commit", "rollback", "settle", "mark"}

(* Until its commit the route is the one it was shown for.                  *)
AppliesWhatItSaw ==
  /\ op.pc \in {"validate"} \cup Deciding => ~route.required
  /\ op.pc \in Deciding =>
       /\ route.managed /\ op.before = op.rec.seen
       /\ op.strategy = "adopt" => op.desired = op.before.owned
       /\ op.strategy = "reapply" => op.desired = route.desired
       /\ op.strategy = "restore" => op.desired = route.before.owned
  /\ op.pc \in Journalled =>
       intents[op.rec.id] =
         [state |-> "pending", before |-> op.before, desired |-> op.desired, union |-> Union]

ActivatesOverCommitted ==
  op.pc \in ActivationSteps =>
    /\ ~route.required
    /\ act = [state |-> "pending", before |-> op.before, desired |-> op.desired, union |-> FALSE]
    /\ route.managed => op.before.owned = route.desired
    /\ ~route.managed /\ route.target = "codex" => op.before.owned < Muxvia(0)

ActIsMuxvias ==
  /\ act.state \in {"none", "pending"}
  /\ act.state = "pending" =>
       /\ act.desired \notin Edited /\ ~act.union
       /\ op.pc \in ActivationSteps \cup {"down", "recover", "actRecover"}

BeforeIsOperators ==
  route.managed /\ route.target = "codex" => route.before.owned < Muxvia(0)

(* The model server is that of a committed takeover; reserved or draining   *)
(* it is who holds the gate that leaves the takeover.                       *)
ServerIsCommitted ==
  /\ model \in {"none", "reserved"} => active = 0
  /\ model # "none" => Up
  /\ model = "serving" => route.managed /\ route.takeover
  /\ model \in {"reserved", "draining"} =>
       op.pc \in {"intent", "write", "commit", "rollback", "settle", "mark", "stop", "complete"}
  /\ model = "reserved" => ~op.drains
  /\ model = "draining" => op.drains
  /\ op.pc \in {"intent", "write", "commit", "rollback", "settle", "mark"} =>
       /\ model = "serving" => ~LeavesTakeover
       /\ model \in {"reserved", "draining"} => LeavesTakeover /\ route.managed /\ route.takeover
  /\ op.pc \in {"stop", "markStop"} => ~op.drains
  /\ op.pc = "stop" /\ model = "reserved" => ~(route.managed /\ route.takeover)
  /\ op.pc = "markStop" => ~(route.managed /\ route.takeover)
  /\ op.pc \in {"complete", "markComplete"} => ~route.managed

TakeoverIsServed ==
  Up /\ route.managed /\ route.takeover /\ ~route.required => model # "none" \/ skipped

ServerInv == ServerIsCommitted /\ TakeoverIsServed
OperationInv == AppliesWhatItSaw /\ ActivatesOverCommitted /\ ActIsMuxvias /\ BeforeIsOperators

-----------------------------------------------------------------------------
(* The journals and the file, as long as no intent was left pending by a    *)
(* store that failed.                                                       *)
Known(owned) == owned \in Edited \cup {route.desired}

OnePending ==
  \A n \in Pending :
    /\ (op.pc \in Journalled /\ n = op.rec.id) \/ op.pc \in {"down", "recover"}
    /\ act.state # "pending" /\ ~route.required
    /\ \A m \in Pending : m = n

(* What an intent would put back is what the file held, and what it puts in *)
(* its place is what is committed, or goes back to.                         *)
BeforesAreKnown ==
  /\ \A n \in Pending :
       /\ Known(intents[n].before.owned)
       /\ intents[n].desired \in {intents[n].before.owned, route.desired, route.before.owned}
  /\ act.state = "pending" =>
       /\ Known(act.before.owned)
       /\ route.managed => act.before.owned = route.desired
  /\ op.pc \in {"reserve", "intent"} => Known(op.before.owned)

FileIsKnown ==
  \/ Known(file.owned)
  \/ /\ op.pc \in {"commit", "rollback", "mark", "down", "recover"}
     /\ \E n \in Pending : file.owned = intents[n].desired
  \/ /\ op.pc \in {"actCommit", "actUndo", "actMark", "down", "recover", "actRecover"}
     /\ act.state = "pending" /\ file.owned = act.desired

Verified == op.pc \in {"commit", "actCommit"} => file.owned \in Edited \cup {op.desired}

JournalInv ==
  counts.unsettled = 0 =>
    /\ OnePending
    /\ ~route.required => BeforesAreKnown /\ FileIsKnown /\ Verified

IInv == Shape /\ TokensInv /\ OperationInv /\ ServerInv /\ JournalInv

-----------------------------------------------------------------------------
LEMMA Bounds ==
  /\ {MaxPreviews, MaxWrites, MaxEdits, MaxCrashes, MaxStoreFaults, MaxRequests} \subseteq Nat
  /\ 0 \in Owned /\ Muxvia(0) \in Owned /\ Blank \in Files
  /\ Edited \subseteq Owned /\ \A n \in Edited : n < Muxvia(0)
  /\ \A n \in 0 .. MaxWrites : Muxvia(n) \in Owned /\ Muxvia(n) \notin Edited
  /\ 0 < Muxvia(0)
  BY ReconciliationAssumption DEF Owned, Muxvia, Files, Blank, Edited

LEMMA Constants ==
  /\ NoToken \in Observed /\ NoToken.id = 0
  /\ Idle \in Operations /\ Idle.pc = "idle" /\ Idle.drains = FALSE
  /\ NoIntent \in Rows /\ NoIntent.state = "none"
  /\ \A state \in {"none", "pending", "committed", "rolledBack", "required"} :
       Settled(state) \in Rows /\ Settled(state).state = state
  /\ NoClient \in Sessions /\ NoClient.pc = "idle" /\ ~NoClient.disables
  /\ Over \in Sessions /\ Over.pc = "over"
  <1>1. NoToken \in Observed /\ NoToken.id = 0 BY Bounds DEF NoToken, Observed
  <1>2. Idle \in Operations /\ Idle.pc = "idle" /\ Idle.drains = FALSE
    BY <1>1, Bounds DEF Idle, Operations, Steps, Strategies
  <1>3. NoIntent \in Rows /\ NoIntent.state = "none" BY Bounds DEF NoIntent, Rows
  <1>4. ASSUME NEW state \in {"none", "pending", "committed", "rolledBack", "required"}
        PROVE  Settled(state) \in Rows /\ Settled(state).state = state
    BY <1>3 DEF Settled, Rows
  <1>5. NoClient \in Sessions /\ NoClient.pc = "idle" /\ ~NoClient.disables
    BY <1>1 DEF NoClient, Sessions, Strategies
  <1>6. Over \in Sessions /\ Over.pc = "over" BY <1>5 DEF Over, Sessions
  <1>. QED BY <1>1, <1>2, <1>3, <1>4, <1>5, <1>6

(* The operation goes to its next step and is otherwise the same; or the    *)
(* gate is given back.                                                      *)
Steady(step) ==
  /\ op' \in Operations /\ op'.pc = step /\ op'.strategy = op.strategy /\ op'.rec = op.rec
  /\ op'.drains = op.drains /\ op'.before = op.before /\ op'.desired = op.desired
Ends == op' \in Operations /\ op'.pc = "idle" /\ ~op'.drains

LEMMA GotoDoes == ASSUME Shape, NEW step \in Steps, Goto(step) PROVE Steady(step)
  BY DEF Shape, Goto, Operations, Steady

LEMMA EndDoes == ASSUME End PROVE Ends
  BY Constants DEF End, Ends

LEMMA CountDoes ==
  ASSUME Shape, NEW kind \in {"writes", "edits", "crashes", "faults"}, Count(kind),
         kind = "writes" => counts.writes < MaxWrites,
         kind = "edits" => counts.edits < MaxEdits
  PROVE  counts' \in Bounded /\ counts'.unsettled = counts.unsettled
  BY Bounds DEF Shape, Count, Bounded

-----------------------------------------------------------------------------
(* Files and rows.                                                          *)
LEMMA FileFields ==
  ASSUME NEW f \in Files
  PROVE  /\ f.owned \in Owned /\ f.unrelated \in 0 .. MaxEdits
         /\ \A o \in Owned :
              /\ [f EXCEPT !.owned = o] \in Files
              /\ [f EXCEPT !.owned = o].owned = o
              /\ [f EXCEPT !.owned = o].unrelated = f.unrelated
  BY DEF Files

LEMMA InitHolds == Init => IInv
  <1> SUFFICES ASSUME Init PROVE IInv
    OBVIOUS
  <1>1. PICK t \in Targets, takeover \in BOOLEAN :
       /\ route = [target |-> t, managed |-> TRUE, desired |-> Muxvia(0), before |-> Blank,
                   takeover |-> takeover, required |-> FALSE, drift |-> FALSE, revision |-> 1]
       /\ model = IF takeover THEN "serving" ELSE "none"
    BY DEF Init
  <1>2. /\ file = [owned |-> Muxvia(0), unrelated |-> 0]
        /\ tokens = [s \in Strategies |-> NoToken]
        /\ clients = [c \in Clients |-> NoClient]
        /\ intents = [c \in Clients |-> NoIntent] /\ act = NoIntent
        /\ active = 0 /\ op = Idle /\ skipped = FALSE
        /\ shown = [s \in Strategies |-> 0]
        /\ counts = [writes |-> 0, edits |-> 0, crashes |-> 0, faults |-> 0, unsettled |-> 0]
    BY DEF Init
  <1>3. Shape
    <2>1. file \in Files /\ route \in Routes BY <1>1, <1>2, Bounds DEF Files, Routes
    <2>2. counts \in Bounded BY <1>2, Bounds DEF Bounded
    <2>3. 0 \in 0 .. MaxPreviews /\ 0 \in 0 .. MaxRequests BY Bounds
    <2>4. /\ tokens \in [Strategies -> Observed] /\ shown \in [Strategies -> 0 .. MaxPreviews]
          /\ clients \in [Clients -> Sessions] /\ intents \in [Clients -> Rows] /\ act \in Rows
      BY <1>2, <2>3, Constants
    <2>. QED BY <1>1, <1>2, <2>1, <2>2, <2>3, <2>4, Constants DEF Shape
  <1>4. TokensInv
    BY <1>2, Constants
    DEF TokensInv, OneHoldsTheLock, TokensAreShown, PreviewsAreTokens, TokensAreOwn,
        AppliedIsOwn,
        Registered, UsedFor, LockSteps, ApplySteps, Clients
  <1>5. OperationInv
    BY <1>1, <1>2, Constants, Bounds
    DEF OperationInv, AppliesWhatItSaw, ActivatesOverCommitted, ActIsMuxvias, BeforeIsOperators,
        Deciding, Journalled, ActivationSteps, Blank
  <1>6. ServerInv
    BY <1>1, <1>2, Constants DEF ServerInv, ServerIsCommitted, TakeoverIsServed, Up
  <1>7. JournalInv
    BY <1>1, <1>2, Constants
    DEF JournalInv, OnePending, BeforesAreKnown, FileIsKnown, Verified, Known, Pending
  <1>. QED BY <1>3, <1>4, <1>5, <1>6, <1>7 DEF IInv

-----------------------------------------------------------------------------
(* Previews.                                                                *)
LEMMA GateKept ==
  ASSUME IInv, UNCHANGED <<file, store, server, op, counts>>
  PROVE  OperationInv' /\ ServerInv' /\ JournalInv'
  <1>. USE DEF store, server
  <1>1. OperationInv'
    BY DEF IInv, OperationInv, AppliesWhatItSaw, ActivatesOverCommitted, ActIsMuxvias,
           BeforeIsOperators, Union
  <1>2. ServerInv'
    BY DEF IInv, ServerInv, ServerIsCommitted, TakeoverIsServed, Up, LeavesTakeover
  <1>3. JournalInv'
    BY DEF IInv, JournalInv, OnePending, BeforesAreKnown, FileIsKnown, Verified, Known,
           Pending
  <1>. QED BY <1>1, <1>2, <1>3

LEMMA ObservationDoes ==
  ASSUME Shape, NEW c \in Clients
  PROVE  Observation(c) \in Observed /\ Observation(c).id = c /\ c # 0
  BY Bounds DEF Shape, Observation, Observed, Clients, Routes

LEMMA PreviewKeeps ==
  ASSUME IInv, NEW c \in Clients, NEW s \in Strategies, Preview(c, s)
  PROVE  IInv'
  <1>1. PICK rec \in Observed :
          /\ rec.id = c /\ c # 0 /\ c \in 0 .. MaxPreviews
          /\ tokens' = [tokens EXCEPT ![s] = rec]
          /\ clients' = [clients EXCEPT ![c] =
               [pc |-> "registered", strategy |-> s, rec |-> rec, previous |-> tokens[s],
                disables |-> FALSE]]
    <2>1. Observation(c) \in Observed /\ Observation(c).id = c /\ c # 0
      BY ObservationDoes DEF IInv
    <2>2. c \in 0 .. MaxPreviews BY DEF Clients
    <2>. QED BY <2>1, <2>2 DEF Preview
  <1>2. UNCHANGED <<file, store, server, op, shown, counts>> BY DEF Preview
  <1>3. /\ clients[c].pc = "idle" /\ \A d \in Clients : ~Registered(d, s)
        /\ op.pc \in LockSteps => op.strategy # s
    BY DEF Preview, Begins, Locked, Registered, LockSteps
  <1>4. Shape'
    BY <1>1, <1>2 DEF IInv, Shape, Sessions, store, server
  <1>5. /\ Registered(c, s)' /\ clients'[c].previous = tokens[s] /\ clients'[c].rec = rec
        /\ clients'[c].strategy = s /\ clients'[c].disables = FALSE
        /\ \A d \in Clients \ {c} : clients'[d] = clients[d]
        /\ \A t \in Strategies \ {s} : tokens'[t] = tokens[t]
        /\ tokens'[s] = rec
    BY <1>1 DEF IInv, Shape, Registered
  <1>6. tokens[s].id = shown[s] BY <1>3 DEF IInv, TokensInv, TokensAreShown
  <1>7. \A d \in Clients, t \in Strategies :
          Registered(d, t)' <=> (d = c /\ t = s) \/ (d # c /\ Registered(d, t))
    BY <1>5 DEF Registered
  <1>8. OneHoldsTheLock'
    <2>1. \A d, e \in Clients, t \in Strategies : Registered(d, t)' /\ Registered(e, t)' => d = e
      BY <1>3, <1>7 DEF IInv, TokensInv, OneHoldsTheLock
    <2>2. ASSUME op.pc \in LockSteps, NEW d \in Clients PROVE ~Registered(d, op.strategy)'
      BY <1>2, <1>3, <1>5, <2>2 DEF IInv, TokensInv, OneHoldsTheLock, Registered
    <2>. QED BY <1>2, <2>1, <2>2 DEF OneHoldsTheLock
  <1>9. TokensAreShown'
    BY <1>2, <1>3, <1>5, <1>7 DEF IInv, TokensInv, TokensAreShown, Registered
  <1>10. PreviewsAreTokens'
    BY <1>2, <1>3, <1>5, <1>6, <1>7 DEF IInv, TokensInv, PreviewsAreTokens
  <1>12. ASSUME NEW n, NEW t \in Strategies, UsedFor(n, t)'
         PROVE  UsedFor(n, t) \/ (n = c /\ t = s)
    BY <1>12, <1>1, <1>2, <1>5, <1>6, <1>7 DEF UsedFor
  <1>13. TokensAreOwn'
    <2>1. ASSUME NEW d \in Clients, d # c
          PROVE  /\ clients'[d].pc = "idle" => \A t \in Strategies : ~UsedFor(d, t)'
                 /\ clients'[d].pc \in {"registered", "shown"} =>
                      /\ clients'[d].rec.id = d
                      /\ clients'[d].disables => clients'[d].strategy = "restore"
                      /\ \A t \in Strategies : UsedFor(d, t)' => t = clients'[d].strategy
      BY <1>5, <1>12, <2>1 DEF IInv, TokensInv, TokensAreOwn
    <2>2. /\ clients'[c].pc = "registered" /\ clients'[c].rec.id = c
          /\ ~clients'[c].disables /\ clients'[c].strategy = s
          /\ \A t \in Strategies : UsedFor(c, t)' => t = s
      BY <1>1, <1>3, <1>5, <1>12 DEF IInv, TokensInv, TokensAreOwn, Registered
    <2>. QED BY <2>1, <2>2 DEF TokensAreOwn
  <1>14. AppliedIsOwn'
    <2>1. op.pc \in ApplySteps \cup {"complete", "markComplete"} => op.rec.id # c
      BY <1>3 DEF IInv, TokensInv, AppliedIsOwn
    <2>. QED BY <1>2, <1>5, <1>12, <2>1 DEF IInv, TokensInv, AppliedIsOwn
  <1>. QED BY <1>2, <1>4, <1>8, <1>9, <1>10, <1>13, <1>14, GateKept DEF IInv, TokensInv

LEMMA DisableKeeps ==
  ASSUME IInv, NEW c \in Clients, Disable(c)
  PROVE  IInv'
  <1>1. PICK rec \in Observed :
          /\ rec.id = c /\ c # 0 /\ c \in 0 .. MaxPreviews
          /\ tokens' = [tokens EXCEPT !["restore"] = rec]
          /\ shown' = [shown EXCEPT !["restore"] = c]
          /\ clients' = [clients EXCEPT ![c] =
               [NoClient EXCEPT !.pc = "shown", !.strategy = "restore", !.rec = rec,
                                !.disables = TRUE]]
    <2>1. Observation(c) \in Observed /\ Observation(c).id = c /\ c # 0
      BY ObservationDoes DEF IInv
    <2>2. c \in 0 .. MaxPreviews BY DEF Clients
    <2>. QED BY <2>1, <2>2 DEF Disable
  <1>2. UNCHANGED <<file, store, server, op, counts>> BY DEF Disable
  <1>3. clients[c].pc = "idle" /\ "restore" \in Strategies
      BY DEF Disable, Begins, Strategies
  <1>4. /\ clients'[c] \in Sessions /\ clients'[c].pc = "shown" /\ clients'[c].rec = rec
        /\ clients'[c].strategy = "restore"
        /\ \A d \in Clients \ {c} : clients'[d] = clients[d]
        /\ \A t \in Strategies \ {"restore"} : tokens'[t] = tokens[t] /\ shown'[t] = shown[t]
        /\ tokens'["restore"] = rec /\ shown'["restore"] = c
    BY <1>1, <1>3, Constants DEF IInv, Shape, Sessions
  <1>5. Shape'
    BY <1>1, <1>2, <1>3, <1>4 DEF IInv, Shape, store, server
  <1>6. \A d \in Clients : ~Registered(d, "restore")
    BY DEF Disable, Locked, Registered
  <1>7. \A d \in Clients, t \in Strategies : Registered(d, t)' <=> Registered(d, t)
    BY <1>3, <1>4 DEF Registered
  <1>8. OneHoldsTheLock'
    <2>1. \A d, e \in Clients, t \in Strategies : Registered(d, t)' /\ Registered(e, t)' => d = e
      BY <1>7 DEF IInv, TokensInv, OneHoldsTheLock
    <2>2. ASSUME op.pc \in LockSteps, NEW d \in Clients PROVE ~Registered(d, op.strategy)'
      BY <1>2, <1>3, <1>4, <2>2 DEF IInv, TokensInv, OneHoldsTheLock, Registered
    <2>. QED BY <1>2, <2>1, <2>2 DEF OneHoldsTheLock
  <1>9. TokensAreShown'
    BY <1>1, <1>4, <1>7 DEF IInv, TokensInv, TokensAreShown
  <1>10. PreviewsAreTokens'
    BY <1>3, <1>4, <1>6, <1>7 DEF IInv, TokensInv, PreviewsAreTokens, Registered
  <1>11. ASSUME NEW n, NEW t \in Strategies, UsedFor(n, t)'
         PROVE  UsedFor(n, t) \/ (n = c /\ t = "restore")
    BY <1>11, <1>1, <1>3, <1>4, <1>7 DEF UsedFor, Registered
  <1>12. TokensAreOwn'
    <2>1. ASSUME NEW d \in Clients, d # c
          PROVE  /\ clients'[d].pc = "idle" => \A t \in Strategies : ~UsedFor(d, t)'
                 /\ clients'[d].pc \in {"registered", "shown"} =>
                      /\ clients'[d].rec.id = d
                      /\ clients'[d].disables => clients'[d].strategy = "restore"
                      /\ \A t \in Strategies : UsedFor(d, t)' => t = clients'[d].strategy
      BY <1>4, <1>11, <2>1 DEF IInv, TokensInv, TokensAreOwn
    <2>2. \A t \in Strategies : UsedFor(c, t)' => t = "restore"
      BY <1>3, <1>11 DEF IInv, TokensInv, TokensAreOwn
    <2>. QED BY <1>1, <1>4, <2>1, <2>2 DEF TokensAreOwn
  <1>13. AppliedIsOwn'
    <2>1. op.pc \in ApplySteps \cup {"complete", "markComplete"} => op.rec.id # c
      BY <1>3 DEF IInv, TokensInv, AppliedIsOwn
    <2>. QED BY <1>2, <1>4, <1>11, <2>1 DEF IInv, TokensInv, AppliedIsOwn
  <1>. QED BY <1>2, <1>5, <1>8, <1>9, <1>10, <1>12, <1>13, GateKept DEF IInv, TokensInv

LEMMA DeliverKeeps ==
  ASSUME IInv, NEW c \in Clients, Deliver(c)
  PROVE  IInv'
  <1>1. PICK s \in Strategies : s = clients[c].strategy BY DEF IInv, Shape, Sessions
  <1>2. Registered(c, s) /\ clients[c].rec.id = c
    BY <1>1 DEF Deliver, Registered, IInv, TokensInv, TokensAreOwn
  <1>3. /\ clients' = [clients EXCEPT ![c].pc = "shown"] /\ shown' = [shown EXCEPT ![s] = c]
        /\ UNCHANGED <<file, store, tokens, server, op, counts>>
    BY <1>1, <1>2 DEF Deliver
  <1>4. /\ clients'[c] \in Sessions /\ clients'[c].pc = "shown" /\ clients'[c].rec = clients[c].rec
        /\ clients'[c].strategy = s /\ clients'[c].disables = clients[c].disables
        /\ \A d \in Clients \ {c} : clients'[d] = clients[d]
        /\ \A t \in Strategies \ {s} : shown'[t] = shown[t]
        /\ shown'[s] = c
    BY <1>1, <1>3 DEF IInv, Shape, Sessions
  <1>5. Shape'
    BY <1>3, <1>4 DEF IInv, Shape, store, server, Clients
  <1>6. tokens[s].id = c /\ \A d \in Clients : Registered(d, s) => d = c
    BY <1>2 DEF IInv, TokensInv, PreviewsAreTokens, OneHoldsTheLock
  <1>7. \A d \in Clients, t \in Strategies : Registered(d, t)' <=> d # c /\ Registered(d, t)
    BY <1>4 DEF Registered
  <1>8. \A d \in Clients : ~Registered(d, s)' BY <1>6, <1>7
  <1>9. OneHoldsTheLock'
    <2>1. \A d, e \in Clients, t \in Strategies : Registered(d, t)' /\ Registered(e, t)' => d = e
      BY <1>7 DEF IInv, TokensInv, OneHoldsTheLock
    <2>2. ASSUME op.pc \in LockSteps, NEW d \in Clients PROVE ~Registered(d, op.strategy)'
      BY <1>3, <1>4, <2>2 DEF IInv, TokensInv, OneHoldsTheLock, Registered
    <2>. QED BY <1>3, <2>1, <2>2 DEF OneHoldsTheLock
  <1>10. TokensAreShown'
    BY <1>2, <1>3, <1>4, <1>6, <1>7 DEF IInv, TokensInv, TokensAreShown, Registered
  <1>11. PreviewsAreTokens'
    BY <1>3, <1>4, <1>7, <1>8 DEF IInv, TokensInv, PreviewsAreTokens
  <1>12. ASSUME NEW n, NEW t \in Strategies, UsedFor(n, t)'
         PROVE  UsedFor(n, t) \/ (n = c /\ t = s)
    BY <1>12, <1>3, <1>4, <1>7 DEF UsedFor, Registered
  <1>13. TokensAreOwn'
    <2>1. ASSUME NEW d \in Clients, d # c
          PROVE  /\ clients'[d].pc = "idle" => \A t \in Strategies : ~UsedFor(d, t)'
                 /\ clients'[d].pc \in {"registered", "shown"} =>
                      /\ clients'[d].rec.id = d
                      /\ clients'[d].disables => clients'[d].strategy = "restore"
                      /\ \A t \in Strategies : UsedFor(d, t)' => t = clients'[d].strategy
      BY <1>4, <1>12, <2>1 DEF IInv, TokensInv, TokensAreOwn
    <2>2. /\ \A t \in Strategies : UsedFor(c, t)' => t = s
          /\ clients[c].disables => s = "restore"
      BY <1>1, <1>2, <1>12 DEF IInv, TokensInv, TokensAreOwn, Registered
    <2>. QED BY <1>2, <1>4, <2>1, <2>2 DEF TokensAreOwn
  <1>14. AppliedIsOwn'
    <2>1. op.pc \in ApplySteps \cup {"complete", "markComplete"} => op.rec.id # c
      BY <1>2 DEF IInv, TokensInv, AppliedIsOwn, Registered
    <2>. QED BY <1>3, <1>4, <1>12, <2>1 DEF IInv, TokensInv, AppliedIsOwn
  <1>. QED BY <1>3, <1>5, <1>9, <1>10, <1>11, <1>13, <1>14, GateKept DEF IInv, TokensInv

LEMMA RollbackPreviewKeeps ==
  ASSUME IInv, NEW c \in Clients, RollbackPreview(c)
  PROVE  IInv'
  <1>1. PICK s \in Strategies : s = clients[c].strategy BY DEF IInv, Shape, Sessions
  <1>2. Registered(c, s) BY <1>1 DEF RollbackPreview, Registered
  <1>3. /\ tokens[s] = clients[c].rec /\ clients[c].previous.id = shown[s]
        /\ clients[c].previous \in Observed
        /\ \A d \in Clients : Registered(d, s) => d = c
    BY <1>2 DEF IInv, TokensInv, PreviewsAreTokens, OneHoldsTheLock, Shape, Sessions
  <1>4. /\ tokens' = [tokens EXCEPT ![s] = clients[c].previous]
        /\ clients' = [clients EXCEPT ![c] = Over]
        /\ UNCHANGED <<file, store, server, op, shown, counts>>
    <2>1. /\ clients' = [clients EXCEPT ![c] = Over]
          /\ UNCHANGED <<file, store, server, op, shown, counts>>
      BY DEF RollbackPreview
    <2>2. tokens' = [tokens EXCEPT ![s] =
                       IF tokens[s].id = clients[c].rec.id THEN clients[c].previous ELSE tokens[s]]
      BY <1>1 DEF RollbackPreview
    <2>. QED BY <1>3, <2>1, <2>2
  <1>5. /\ clients'[c] = Over /\ tokens'[s] = clients[c].previous
        /\ \A d \in Clients \ {c} : clients'[d] = clients[d]
        /\ \A t \in Strategies \ {s} : tokens'[t] = tokens[t]
    BY <1>4 DEF IInv, Shape
  <1>6. Shape'
    BY <1>3, <1>4, Constants DEF IInv, Shape, store, server
  <1>7. \A d \in Clients, t \in Strategies : Registered(d, t)' <=> d # c /\ Registered(d, t)
    BY <1>5, Constants DEF Registered
  <1>8. \A d \in Clients : ~Registered(d, s)' BY <1>3, <1>7
  <1>9. OneHoldsTheLock'
    <2>1. \A d, e \in Clients, t \in Strategies : Registered(d, t)' /\ Registered(e, t)' => d = e
      BY <1>7 DEF IInv, TokensInv, OneHoldsTheLock
    <2>2. ASSUME op.pc \in LockSteps, NEW d \in Clients PROVE ~Registered(d, op.strategy)'
      BY <1>4, <1>5, <2>2, Constants DEF IInv, TokensInv, OneHoldsTheLock, Registered
    <2>. QED BY <1>4, <2>1, <2>2 DEF OneHoldsTheLock
  <1>10. TokensAreShown'
    BY <1>2, <1>3, <1>4, <1>5, <1>7 DEF IInv, TokensInv, TokensAreShown, Registered
  <1>11. PreviewsAreTokens'
    BY <1>4, <1>5, <1>7, <1>8 DEF IInv, TokensInv, PreviewsAreTokens
  <1>12. ASSUME NEW n, NEW t \in Strategies, UsedFor(n, t)' PROVE UsedFor(n, t)
    BY <1>12, <1>3, <1>4, <1>5, <1>7 DEF UsedFor, Registered
  <1>13. TokensAreOwn'
    BY <1>5, <1>12, Constants DEF IInv, TokensInv, TokensAreOwn
  <1>14. AppliedIsOwn'
    BY <1>4, <1>5, <1>12, Constants DEF IInv, TokensInv, AppliedIsOwn
  <1>. QED BY <1>4, <1>6, <1>9, <1>10, <1>11, <1>13, <1>14, GateKept DEF IInv, TokensInv

LEMMA ApplyKeeps ==
  ASSUME IInv, NEW c \in Clients, Apply(c)
  PROVE  IInv'
  <1>1. /\ op.pc = "idle" /\ clients[c].pc = "shown"
        /\ clients' = [clients EXCEPT ![c] = Over]
        /\ UNCHANGED <<file, store, tokens, server, shown, counts>>
    BY DEF Apply
  <1>2. /\ op' \in Operations /\ op'.pc = "lock" /\ op'.strategy = clients[c].strategy
        /\ op'.rec = clients[c].rec /\ op'.drains = clients[c].disables
    BY Constants DEF Apply, IInv, Shape, Sessions, Operations, Steps, ApplySteps
  <1>3. Shape' BY <1>1, <1>2, Constants DEF IInv, Shape, store, server
  <1>4. /\ clients'[c] = Over /\ \A d \in Clients \ {c} : clients'[d] = clients[d]
        /\ clients[c].rec.id = c /\ clients[c].strategy \in Strategies
        /\ clients[c].disables => clients[c].strategy = "restore"
        /\ \A t \in Strategies : UsedFor(c, t) => t = clients[c].strategy
    BY <1>1 DEF IInv, Shape, Sessions, TokensInv, TokensAreOwn
  <1>5. \A d \in Clients, t \in Strategies : Registered(d, t)' <=> Registered(d, t)
    BY <1>1, <1>4, Constants DEF Registered
  <1>6. \A n : \A t \in Strategies : UsedFor(n, t)' <=> UsedFor(n, t)
    <2>1. ASSUME NEW n, NEW t \in Strategies PROVE UsedFor(n, t)' <=> UsedFor(n, t)
      BY <1>1, <1>4, <1>5, Constants DEF UsedFor, Registered
    <2>. QED BY <2>1
  <1>7. OneHoldsTheLock' /\ TokensAreShown'
    BY <1>1, <1>2, <1>5
    DEF IInv, TokensInv, OneHoldsTheLock, TokensAreShown, LockSteps, ApplySteps
  <1>8. PreviewsAreTokens'
    BY <1>1, <1>4, <1>5 DEF IInv, TokensInv, PreviewsAreTokens, Registered
  <1>9. TokensAreOwn'
    BY <1>4, <1>6, Constants DEF IInv, TokensInv, TokensAreOwn
  <1>10. AppliedIsOwn'
    BY <1>2, <1>4, <1>6, Constants DEF AppliedIsOwn
  <1>11. OperationInv'
    BY <1>1, <1>2
    DEF IInv, OperationInv, AppliesWhatItSaw, ActivatesOverCommitted, ActIsMuxvias,
        BeforeIsOperators, Deciding, Journalled, ActivationSteps, store
  <1>12. ServerInv'
    BY <1>1, <1>2
       DEF IInv, ServerInv, ServerIsCommitted, TakeoverIsServed, Up, store, server
  <1>13. JournalInv'
    BY <1>1, <1>2
    DEF IInv, JournalInv, OnePending, BeforesAreKnown, FileIsKnown, Verified, Known, Pending,
        Journalled, store
  <1>. QED BY <1>3, <1>7, <1>8, <1>9, <1>10, <1>11, <1>12, <1>13 DEF IInv, TokensInv

-----------------------------------------------------------------------------
(* What a step of the operation keeps of the registrations.                 *)
Applied == ApplySteps \cup {"complete", "markComplete"}

LEMMA TokensKept ==
  ASSUME IInv, UNCHANGED previews, op' \in Operations,
         op'.drains => op.drains /\ op'.strategy = op.strategy,
         op'.pc \in Applied => op'.rec = op.rec /\ op'.strategy = op.strategy /\ op.pc \in Applied,
         op'.pc \in ApplySteps => op.pc \in ApplySteps,
         op'.pc \in LockSteps =>
           op.pc \in LockSteps \/ \A c \in Clients : ~Registered(c, op.strategy)
  PROVE  TokensInv'
  <1>1. /\ tokens' = tokens /\ clients' = clients /\ shown' = shown BY DEF previews
  <1>2. \A c \in Clients : \A s : Registered(c, s)' <=> Registered(c, s)
    BY <1>1 DEF Registered
  <1>3. \A n : \A s \in Strategies : UsedFor(n, s)' <=> UsedFor(n, s)
    <2>1. ASSUME NEW n, NEW s \in Strategies PROVE UsedFor(n, s)' <=> UsedFor(n, s)
      BY <1>1, <1>2 DEF UsedFor
    <2>. QED BY <2>1
  <1>4. OneHoldsTheLock'
    <2>1. \A d, e \in Clients, t \in Strategies : Registered(d, t)' /\ Registered(e, t)' => d = e
      BY <1>2 DEF IInv, TokensInv, OneHoldsTheLock
    <2>2. ASSUME op'.pc \in LockSteps, NEW d \in Clients PROVE ~Registered(d, op.strategy)'
      BY <1>1, <2>2 DEF IInv, TokensInv, OneHoldsTheLock, Registered, LockSteps, Applied
    <2>. QED BY <2>1, <2>2 DEF OneHoldsTheLock, LockSteps, Applied, Registered
  <1>5. TokensAreShown' /\ PreviewsAreTokens'
    BY <1>1, <1>2 DEF IInv, TokensInv, TokensAreShown, PreviewsAreTokens
  <1>6. TokensAreOwn' BY <1>1, <1>3 DEF IInv, TokensInv, TokensAreOwn
  <1>7. AppliedIsOwn' BY <1>1, <1>3 DEF IInv, TokensInv, AppliedIsOwn, Applied
  <1>. QED BY <1>4, <1>5, <1>6, <1>7 DEF TokensInv

(* A token is consumed where it is registered and where it was shown.       *)
LEMMA TokensConsumed ==
  ASSUME IInv, op.pc \in LockSteps, ConsumeToken, UNCHANGED clients, Ends \/ Steady("complete")
  PROVE  /\ tokens' \in [Strategies -> Observed] /\ shown' \in [Strategies -> 0 .. MaxPreviews]
         /\ TokensInv'
  <1>1. PICK s \in Strategies, n \in Clients :
          s = op.strategy /\ n = op.rec.id /\ clients[n].pc = "over"
    BY DEF IInv, Shape, Operations, TokensInv, AppliedIsOwn, LockSteps
  <1>2. \A t \in Strategies : UsedFor(n, t) => t = s
    BY <1>1 DEF IInv, TokensInv, AppliedIsOwn, LockSteps
  <1>3. tokens[s].id = shown[s] /\ \A c \in Clients : ~Registered(c, s)
    BY <1>1 DEF IInv, TokensInv, TokensAreShown, OneHoldsTheLock
  <1>4. /\ tokens' = [tokens EXCEPT ![s] = IF tokens[s].id = n THEN NoToken ELSE tokens[s]]
        /\ shown' = [t \in Strategies |-> IF shown[t] = n THEN 0 ELSE shown[t]]
        /\ clients' = clients
    BY <1>1 DEF ConsumeToken, Consumed
  <1>5. \A t \in Strategies : t # s => shown'[t] = shown[t] /\ tokens'[t] = tokens[t]
    BY <1>2, <1>4 DEF UsedFor, IInv, Shape
  <1>6. /\ tokens'[s] \in {tokens[s], NoToken} /\ shown'[s] \in {shown[s], 0}
        /\ tokens'[s].id = shown'[s]
    BY <1>3, <1>4, Constants DEF IInv, Shape
  <1>7. \A c \in Clients : \A t \in Strategies : Registered(c, t)' <=> Registered(c, t)
    BY <1>4 DEF Registered
  <1>8. \A d \in Clients : \A t \in Strategies : UsedFor(d, t)' => UsedFor(d, t)
    BY <1>4, <1>5, <1>6, <1>7, Constants DEF UsedFor, Clients
  <1>9. tokens' \in [Strategies -> Observed] /\ shown' \in [Strategies -> 0 .. MaxPreviews]
    BY <1>4, Constants, Bounds DEF IInv, Shape
  <1>10. OneHoldsTheLock'
    <2>1. op'.pc \notin LockSteps BY DEF Ends, Steady, LockSteps, ApplySteps
    <2>. QED BY <1>7, <2>1 DEF IInv, TokensInv, OneHoldsTheLock
  <1>11. TokensAreShown'
    BY <1>5, <1>6, <1>7 DEF IInv, TokensInv, TokensAreShown
  <1>12. PreviewsAreTokens'
    BY <1>3, <1>4, <1>5, <1>7 DEF IInv, TokensInv, PreviewsAreTokens
  <1>13. TokensAreOwn'
    BY <1>4, <1>8 DEF IInv, TokensInv, TokensAreOwn
  <1>14. AppliedIsOwn'
    <2>1. op'.pc \notin ApplySteps BY DEF Ends, Steady, ApplySteps
    <2>. QED BY <1>1, <1>4, <2>1 DEF IInv, TokensInv, AppliedIsOwn, Ends, Steady
  <1>. QED BY <1>9, <1>10, <1>11, <1>12, <1>13, <1>14 DEF TokensInv

-----------------------------------------------------------------------------
(* Applying.                                                                *)
LEMMA LockKeeps == ASSUME IInv, Lock PROVE IInv'
  <1>1. /\ op.pc = "lock" /\ UNCHANGED <<file, store, previews, server, counts>>
        /\ \A c \in Clients : ~Registered(c, op.strategy)
    BY DEF Lock, Locked, Registered
  <1>2. Ends \/ (Steady("validate") /\ ~route.required)
    <2>1. "validate" \in Steps BY DEF Steps, ApplySteps
    <2>. QED BY <2>1, GotoDoes, EndDoes DEF Lock, IInv
  <1>3. Shape' BY <1>1, <1>2 DEF IInv, Shape, store, previews, server, Ends, Steady
  <1>4. TokensInv'
    <2>1. op'.pc \in ApplySteps =>
            op.pc \in ApplySteps /\ op'.rec = op.rec /\ op'.strategy = op.strategy
      BY <1>1, <1>2 DEF Ends, Steady, ApplySteps
    <2>2. op'.pc \notin {"complete", "markComplete"} BY <1>2 DEF Ends, Steady
    <2>3. op'.drains => op.drains /\ op'.strategy = op.strategy BY <1>2 DEF Ends, Steady
    <2>4. op' \in Operations BY <1>2 DEF Ends, Steady
    <2>. QED BY <1>1, <2>1, <2>2, <2>3, <2>4, TokensKept DEF Applied
  <1>5. OperationInv'
    BY <1>1, <1>2
    DEF IInv, OperationInv, AppliesWhatItSaw, ActivatesOverCommitted, ActIsMuxvias,
        BeforeIsOperators, Deciding, Journalled, ActivationSteps, store, Ends, Steady
  <1>6. ServerInv'
    BY <1>1, <1>2
    DEF IInv, ServerInv, ServerIsCommitted, TakeoverIsServed, Up, store, server, Ends, Steady
  <1>7. JournalInv'
    BY <1>1, <1>2
    DEF IInv, JournalInv, OnePending, BeforesAreKnown, FileIsKnown, Verified, Known, Pending,
        Journalled, store, Ends, Steady
  <1>. QED BY <1>3, <1>4, <1>5, <1>6, <1>7 DEF IInv

LEMMA ValidateKeeps == ASSUME IInv, Validate PROVE IInv'
  <1>1. op.pc = "validate" /\ UNCHANGED <<file, store, previews, server, counts>>
    BY DEF Validate
  <1>2. CASE Refuse({"validate"})
    <2>1. Ends BY <1>2, EndDoes DEF Refuse
    <2>2. Shape' BY <1>1, <2>1 DEF IInv, Shape, store, previews, server, Ends
    <2>3. TokensInv'
      BY <1>1, <2>1, TokensKept DEF Ends, Applied, ApplySteps, LockSteps
    <2>4. OperationInv'
      BY <1>1, <2>1
      DEF IInv, OperationInv, AppliesWhatItSaw, ActivatesOverCommitted, ActIsMuxvias,
          BeforeIsOperators, Deciding, Journalled, ActivationSteps, store, Ends
    <2>5. ServerInv'
      BY <1>1, <2>1
      DEF IInv, ServerInv, ServerIsCommitted, TakeoverIsServed, Up, store, server, Ends
    <2>6. JournalInv'
      BY <1>1, <2>1
      DEF IInv, JournalInv, OnePending, BeforesAreKnown, FileIsKnown, Verified, Known, Pending,
          Journalled, store, Ends
    <2>. QED BY <2>2, <2>3, <2>4, <2>5, <2>6 DEF IInv
  <1>3. CASE /\ AsShown
             /\ op' = [op EXCEPT !.pc = "reserve", !.before = op.rec.seen, !.desired = Desired]
    <2>1. /\ op' \in Operations /\ op'.pc = "reserve" /\ op'.strategy = op.strategy
          /\ op'.rec = op.rec /\ op'.drains = op.drains /\ op'.before = file
          /\ route.managed
          /\ op'.before = op'.rec.seen
          /\ op.strategy = "adopt" => op'.desired = file.owned
          /\ op.strategy = "reapply" => op'.desired = route.desired
          /\ op.strategy = "restore" => op'.desired = route.before.owned
      <3>1. Desired \in Owned
        BY DEF IInv, Shape, Desired, Files, Routes, Operations, Strategies
      <3>. QED BY <1>3, <3>1
           DEF IInv, Shape, Operations, Steps, ApplySteps, AsShown, Desired, Strategies,
               Observed
    <2>2. Shape' BY <1>1, <2>1 DEF IInv, Shape, store, previews, server
    <2>3. TokensInv'
      BY <1>1, <2>1, TokensKept DEF Applied, ApplySteps, LockSteps
    <2>4. OperationInv'
      BY <1>1, <2>1
      DEF IInv, OperationInv, AppliesWhatItSaw, ActivatesOverCommitted, ActIsMuxvias,
          BeforeIsOperators, Deciding, Journalled, ActivationSteps, store
    <2>5. ServerInv'
      BY <1>1, <2>1
      DEF IInv, ServerInv, ServerIsCommitted, TakeoverIsServed, Up, store, server
    <2>6. JournalInv'
      BY <1>1, <2>1
      DEF IInv, JournalInv, OnePending, BeforesAreKnown, FileIsKnown, Verified, Known, Pending,
          Journalled, store
    <2>. QED BY <2>2, <2>3, <2>4, <2>5, <2>6 DEF IInv
  <1>. QED BY <1>2, <1>3 DEF Validate

LEMMA ReserveKeeps == ASSUME IInv, Reserve PROVE IInv'
  <1>1. op.pc = "reserve" /\ UNCHANGED <<file, store, previews, active, skipped, counts>>
    BY DEF Reserve
  <1>2. \/ Ends /\ model' = model
        \/ /\ Steady("intent")
           /\ \/ model' = model /\ (model = "serving" => ~LeavesTakeover)
              \/ model = "serving" /\ LeavesTakeover /\ op.drains /\ model' = "draining"
              \/ /\ model = "serving" /\ LeavesTakeover /\ ~op.drains /\ active = 0
                 /\ model' = "reserved"
    <2>1. "intent" \in Steps BY DEF Steps, ApplySteps
    <2>. QED BY <2>1, GotoDoes, EndDoes DEF Reserve, IInv
  <1>3. Shape' BY <1>1, <1>2 DEF IInv, Shape, store, previews, Ends, Steady
  <1>4. TokensInv'
    BY <1>1, <1>2, TokensKept DEF Ends, Steady, Applied, ApplySteps, LockSteps
  <1>5. OperationInv'
    BY <1>1, <1>2
    DEF IInv, OperationInv, AppliesWhatItSaw, ActivatesOverCommitted, ActIsMuxvias,
        BeforeIsOperators, Deciding, Journalled, ActivationSteps, store, Ends, Steady
  <1>6. ServerInv'
    BY <1>1, <1>2
    DEF IInv, ServerInv, ServerIsCommitted, TakeoverIsServed, Up, LeavesTakeover, store, Ends,
        Steady
  <1>7. JournalInv'
    BY <1>1, <1>2
    DEF IInv, JournalInv, OnePending, BeforesAreKnown, FileIsKnown, Verified, Known, Pending,
        Journalled, store, Ends, Steady
  <1>. QED BY <1>3, <1>4, <1>5, <1>6, <1>7 DEF IInv

LEMMA RowFields ==
  ASSUME Shape, NEW n \in Clients, NEW row \in Rows, intents' = [intents EXCEPT ![n] = row]
  PROVE  /\ intents' \in [Clients -> Rows] /\ intents'[n] = row
         /\ \A m \in Clients \ {n} : intents'[m] = intents[m]
         /\ \A m : m \in Pending' <=>
                     m \in Clients /\ (IF m = n THEN row.state = "pending" ELSE m \in Pending)
  BY DEF Shape, Pending

(* Who gives the gate back gives the model server back.                     *)
LEMMA GiveBackDoes ==
  ASSUME GiveBack
  PROVE  model' = IF model \in {"reserved", "draining"} THEN "serving" ELSE model
  BY DEF GiveBack

LEMMA InsertIntentKeeps == ASSUME IInv, InsertIntent PROVE IInv'
  <1>1. op.pc = "intent" /\ UNCHANGED <<file, route, act, previews, active, skipped, counts>>
    BY DEF InsertIntent
  <1>2. CASE End /\ GiveBack /\ UNCHANGED intents
    <2>1. Ends /\ intents' = intents
          /\ model' = IF model \in {"reserved", "draining"} THEN "serving" ELSE model
      BY <1>2, EndDoes, GiveBackDoes
    <2>2. Shape' BY <1>1, <2>1 DEF IInv, Shape, previews, Ends
    <2>3. TokensInv' BY <1>1, <2>1, TokensKept DEF Ends, Applied, ApplySteps, LockSteps
    <2>4. OperationInv'
      BY <1>1, <2>1
      DEF IInv, OperationInv, AppliesWhatItSaw, ActivatesOverCommitted, ActIsMuxvias,
          BeforeIsOperators, Deciding, Journalled, ActivationSteps, Ends
    <2>5. ServerInv'
      BY <1>1, <2>1
         DEF IInv, Shape, ServerInv, ServerIsCommitted, TakeoverIsServed, Up, Ends
    <2>6. JournalInv'
      BY <1>1, <2>1
      DEF IInv, JournalInv, OnePending, BeforesAreKnown, FileIsKnown, Verified, Known, Pending,
          Journalled, Ends
    <2>. QED BY <2>2, <2>3, <2>4, <2>5, <2>6 DEF IInv
  <1>3. CASE /\ intents' = [intents EXCEPT ![op.rec.id] =
                  [state |-> "pending", before |-> op.before, desired |-> op.desired,
                   union |-> Union]]
             /\ Goto("write") /\ UNCHANGED model
    <2>1. Steady("write") BY <1>3, GotoDoes DEF IInv, Steps, ApplySteps
    <2>2. PICK n \in Clients : n = op.rec.id
      BY <1>1 DEF IInv, TokensInv, AppliedIsOwn, ApplySteps
    <2>3. PICK row \in Rows : row = [state |-> "pending", before |-> op.before,
                                     desired |-> op.desired, union |-> Union]
      BY DEF IInv, Shape, Rows, Operations, Union
    <2>4. /\ intents' \in [Clients -> Rows] /\ intents'[n] = row
          /\ \A m \in Clients \ {n} : intents'[m] = intents[m]
          /\ \A m : m \in Pending' <=>
                      m \in Clients /\ (IF m = n THEN row.state = "pending" ELSE m \in Pending)
      <3>1. intents' = [intents EXCEPT ![n] = row] BY <1>3, <2>2, <2>3
      <3>. QED BY <3>1, RowFields DEF IInv
    <2>5. Shape' BY <1>1, <1>3, <2>1, <2>4 DEF IInv, Shape, previews, Steady
    <2>6. TokensInv'
        BY <1>1, <2>1, TokensKept DEF Steady, Applied, ApplySteps, LockSteps
    <2>7. OperationInv'
      <3>1. AppliesWhatItSaw'
        BY <1>1, <2>1, <2>2, <2>3, <2>4
        DEF IInv, OperationInv, AppliesWhatItSaw, Deciding, Journalled, Steady, Union
      <3>2. ActivatesOverCommitted' /\ ActIsMuxvias' /\ BeforeIsOperators'
        BY <1>1, <2>1
        DEF IInv, OperationInv, ActivatesOverCommitted, ActIsMuxvias, BeforeIsOperators,
            ActivationSteps, Steady
      <3>. QED BY <3>1, <3>2 DEF OperationInv
    <2>8. ServerInv'
      BY <1>1, <1>3, <2>1
      DEF IInv, ServerInv, ServerIsCommitted, TakeoverIsServed, Up, LeavesTakeover, Steady
    <2>9. JournalInv'
      <3>1. SUFFICES ASSUME counts.unsettled = 0 PROVE JournalInv'
        BY <1>1 DEF JournalInv
      <3>2. Pending = {} /\ act.state # "pending"
        BY <1>1, <3>1
        DEF IInv, JournalInv, OnePending, Journalled, OperationInv, ActIsMuxvias,
            ActivationSteps
      <3>3. Pending' = {n} BY <2>3, <2>4, <3>2
      <3>4. OnePending'
        <4>1. ~route.required
          BY <1>1 DEF IInv, OperationInv, AppliesWhatItSaw, Deciding
        <4>. QED
            BY <1>1, <2>1, <2>2, <3>2, <3>3, <4>1 DEF OnePending, Journalled, Steady
      <3>5. ASSUME ~route.required PROVE BeforesAreKnown' /\ FileIsKnown' /\ Verified'
        <4>1. Known(op.before.owned) /\ Known(file.owned)
          BY <1>1, <3>1, <3>2, <3>5 DEF IInv, JournalInv, BeforesAreKnown, FileIsKnown
        <4>2. op.desired \in {op.before.owned, route.desired, route.before.owned}
          BY <1>1
             DEF IInv, Shape, Operations, Strategies, OperationInv, AppliesWhatItSaw,
                 Deciding
        <4>. QED BY <1>1, <2>1, <2>3, <2>4, <3>2, <3>3, <4>1, <4>2
             DEF BeforesAreKnown, FileIsKnown, Verified, Known, Steady
      <3>. QED BY <1>1, <3>4, <3>5 DEF JournalInv
    <2>. QED BY <2>5, <2>6, <2>7, <2>8, <2>9 DEF IInv
  <1>. QED BY <1>2, <1>3 DEF InsertIntent

LEMMA WriteKeeps == ASSUME IInv, Write PROVE IInv'
  <1>1. op.pc = "write" /\ UNCHANGED <<store, previews, server, counts>>
    BY DEF Write
  <1>2. PICK step \in {"commit", "rollback"} :
          /\ Steady(step)
          /\ \/ file' = file /\ step = "rollback"
             \/ file = op.before /\ file' = [file EXCEPT !.owned = op.desired]
    <2>1. {"commit", "rollback"} \subseteq Steps BY DEF Steps, ApplySteps
    <2>. QED BY <2>1, GotoDoes DEF Write, IInv
  <1>3. file' \in Files /\ file'.owned \in {file.owned, op.desired}
        /\ (step = "commit" => file'.owned = op.desired)
    <2>1. PICK o \in Owned : o = op.desired BY DEF IInv, Shape, Operations
    <2>2. /\ [file EXCEPT !.owned = o] \in Files /\ [file EXCEPT !.owned = o].owned = o
      BY FileFields DEF IInv, Shape
    <2>. QED BY <1>2, <2>1, <2>2 DEF IInv, Shape
  <1>4. Shape' BY <1>1, <1>2, <1>3 DEF IInv, Shape, store, previews, server, Steady
  <1>5. TokensInv' BY <1>1, <1>2, TokensKept DEF Steady, Applied, ApplySteps, LockSteps
  <1>6. OperationInv'
    BY <1>1, <1>2
    DEF IInv, OperationInv, AppliesWhatItSaw, ActivatesOverCommitted, ActIsMuxvias,
        BeforeIsOperators, Deciding, Journalled, ActivationSteps, Union, store, Steady
  <1>7. ServerInv'
    BY <1>1, <1>2
    DEF IInv, ServerInv, ServerIsCommitted, TakeoverIsServed, Up, LeavesTakeover, store,
        server, Steady
  <1>8. JournalInv'
    <2>1. SUFFICES ASSUME counts.unsettled = 0 PROVE JournalInv'
      BY <1>1 DEF JournalInv
    <2>2. OnePending'
      BY <1>1, <1>2, <2>1
         DEF IInv, JournalInv, OnePending, Journalled, Pending, store, Steady
    <2>3. ASSUME ~route.required PROVE BeforesAreKnown' /\ FileIsKnown' /\ Verified'
      <3>1. op.rec.id \in Pending /\ intents[op.rec.id].desired = op.desired
        BY <1>1
        DEF IInv, Shape, OperationInv, AppliesWhatItSaw, Journalled, Pending, TokensInv,
            AppliedIsOwn, ApplySteps
      <3>2. Known(file.owned) /\ act.state # "pending"
        BY <1>1, <2>1, <2>3, <3>1 DEF IInv, JournalInv, OnePending, FileIsKnown
      <3>3. BeforesAreKnown'
        BY <1>1, <1>2, <2>1, <2>3
           DEF IInv, JournalInv, BeforesAreKnown, Known, Pending, store, Steady
      <3>4. FileIsKnown' /\ Verified'
        BY <1>1, <1>2, <1>3, <3>1, <3>2
           DEF FileIsKnown, Verified, Known, Pending, store, Steady
      <3>. QED BY <3>3, <3>4
    <2>. QED BY <1>1, <2>2, <2>3 DEF JournalInv, store
  <1>. QED BY <1>4, <1>5, <1>6, <1>7, <1>8 DEF IInv

LEMMA CommitKeeps == ASSUME IInv, Commit PROVE IInv'
  <1>1. op.pc = "commit" /\ UNCHANGED <<file, act, clients, server, counts>>
    BY DEF Commit
  <1>2. CASE Goto("rollback") /\ UNCHANGED <<route, intents, tokens, shown>>
    <2>1. Steady("rollback") BY <1>2, GotoDoes DEF IInv, Steps, ApplySteps
    <2>2. Shape' BY <1>1, <1>2, <2>1 DEF IInv, Shape, server, Steady
    <2>3. TokensInv'
      BY <1>1, <1>2, <2>1, TokensKept
         DEF Steady, Applied, ApplySteps, LockSteps, previews
    <2>4. OperationInv'
      BY <1>1, <1>2, <2>1
      DEF IInv, OperationInv, AppliesWhatItSaw, ActivatesOverCommitted, ActIsMuxvias,
          BeforeIsOperators, Deciding, Journalled, ActivationSteps, Union, Steady
    <2>5. ServerInv'
      BY <1>1, <1>2, <2>1
      DEF IInv, ServerInv, ServerIsCommitted, TakeoverIsServed, Up, LeavesTakeover, server,
          Steady
    <2>6. JournalInv'
      BY <1>1, <1>2, <2>1
      DEF IInv, JournalInv, OnePending, BeforesAreKnown, FileIsKnown, Verified, Known, Pending,
          Journalled, Steady
    <2>. QED BY <2>2, <2>3, <2>4, <2>5, <2>6 DEF IInv
  <1>3. CASE /\ route' = CASE op.strategy = "adopt" -> Adopted
                           [] op.strategy = "reapply" -> Reapplied
                           [] op.strategy = "restore" -> Restored
             /\ intents' = [intents EXCEPT ![op.rec.id] = Settled("committed")]
             /\ IF op.drains THEN ConsumeToken /\ Goto("complete")
                             ELSE Goto("stop") /\ UNCHANGED <<tokens, shown>>
    <2>1. /\ Steady(IF op.drains THEN "complete" ELSE "stop")
          /\ op.drains => ConsumeToken
          /\ ~op.drains => UNCHANGED <<tokens, shown>>
      <3>1. {"complete", "stop"} \subseteq Steps BY DEF Steps, ApplySteps
      <3>. QED BY <1>3, <3>1, GotoDoes DEF IInv
    <2>2. PICK n \in Clients : n = op.rec.id
      BY <1>1 DEF IInv, TokensInv, AppliedIsOwn, ApplySteps
    <2>3. /\ intents' \in [Clients -> Rows] /\ intents'[n].state = "committed"
          /\ \A m : m \in Pending' <=> m \in Pending /\ m # n
      <3>1. PICK row \in Rows : row = Settled("committed") /\ row.state = "committed"
        BY Constants
      <3>2. intents' = [intents EXCEPT ![n] = row] BY <1>3, <2>2, <3>1
      <3>. QED BY <3>1, <3>2, RowFields DEF IInv, Pending
    <2>4. /\ route' \in Routes /\ route'.desired = op.desired /\ route'.required = route.required
          /\ route'.target = route.target /\ route'.before.owned = route.before.owned
          /\ op.strategy = "adopt" => route'.managed = route.managed /\ ~route'.takeover
          /\ op.strategy = "reapply" =>
               route'.managed = route.managed /\ route'.takeover = route.takeover
          /\ op.strategy = "restore" => ~route'.managed /\ ~route'.takeover
      <3>1. Refreshed \in Files /\ Refreshed.owned = route.before.owned
        BY DEF IInv, Shape, Routes, Operations, Files, Refreshed
      <3>2. Advanced \in Routes /\ Advanced.desired = op.desired
            /\ Advanced.target = route.target /\ Advanced.managed = route.managed
            /\ Advanced.before = route.before /\ Advanced.takeover = route.takeover
            /\ Advanced.required = route.required
        <4>1. PICK o \in Owned : o = op.desired BY DEF IInv, Shape, Operations
        <4>2. Advanced = [route EXCEPT !.desired = o, !.drift = FALSE,
                                       !.revision = route.revision + 1]
          BY <4>1 DEF Advanced
        <4>3. route \in Routes /\ route.revision + 1 \in Nat BY DEF IInv, Shape, Routes
        <4>4. Advanced \in Routes BY <4>2, <4>3 DEF Routes
        <4>. QED BY <4>1, <4>2, <4>3, <4>4 DEF Routes
      <3>3. PICK r \in Routes, f \in Files : r = Advanced /\ f = Refreshed BY <3>1, <3>2
      <3>4. CASE op.strategy = "adopt"
        <4>1. route' = [r EXCEPT !.before = f, !.takeover = FALSE]
            BY <1>3, <3>3, <3>4 DEF Adopted
        <4>. QED BY <3>1, <3>2, <3>3, <3>4, <4>1 DEF Routes
      <3>5. CASE op.strategy = "reapply"
        <4>1. route' = [r EXCEPT !.before = f] BY <1>3, <3>3, <3>5 DEF Reapplied
        <4>. QED BY <3>1, <3>2, <3>3, <3>5, <4>1 DEF Routes
      <3>6. CASE op.strategy = "restore"
        <4>1. route' = [r EXCEPT !.managed = FALSE, !.takeover = FALSE]
          BY <1>3, <3>3, <3>6 DEF Restored
        <4>. QED BY <3>2, <3>3, <3>6, <4>1 DEF Routes
      <3>. QED BY <3>4, <3>5, <3>6 DEF IInv, Shape, Operations, Strategies
    <2>5. /\ tokens' \in [Strategies -> Observed] /\ shown' \in [Strategies -> 0 .. MaxPreviews]
          /\ TokensInv'
      <3>1. CASE op.drains
        BY <1>1, <2>1, <3>1, TokensConsumed DEF LockSteps, ApplySteps
      <3>2. CASE ~op.drains
        <4>1. UNCHANGED previews BY <1>1, <2>1, <3>2 DEF previews
        <4>2. TokensInv'
          BY <1>1, <2>1, <3>2, <4>1, TokensKept
             DEF Steady, Applied, ApplySteps, LockSteps
        <4>. QED BY <2>1, <3>2, <4>2 DEF IInv, Shape
      <3>. QED BY <3>1, <3>2
    <2>6. Shape' BY <1>1, <2>1, <2>3, <2>4, <2>5 DEF IInv, Shape, server, Steady
    <2>7. OperationInv'
      BY <1>1, <2>1, <2>4
      DEF IInv, OperationInv, AppliesWhatItSaw, ActivatesOverCommitted, ActIsMuxvias,
          BeforeIsOperators, Deciding, Journalled, ActivationSteps, Steady
    <2>8. ServerInv'
      BY <1>1, <2>1, <2>4
      DEF IInv, Shape, Operations, Strategies, TokensInv, AppliedIsOwn, OperationInv,
          AppliesWhatItSaw, Deciding, ServerInv, ServerIsCommitted, TakeoverIsServed, Up,
          LeavesTakeover, server, Steady
    <2>9. JournalInv'
      <3>1. SUFFICES ASSUME counts.unsettled = 0 PROVE JournalInv'
        BY <1>1 DEF JournalInv
      <3>2. n \in Pending
        BY <1>1, <2>2
           DEF IInv, Shape, OperationInv, AppliesWhatItSaw, Journalled, Pending
      <3>3. Pending' = {} /\ act.state # "pending"
        BY <1>1, <2>2, <2>3, <3>1, <3>2 DEF IInv, JournalInv, OnePending
      <3>4. route.required \/ file.owned \in Edited \cup {op.desired}
        BY <1>1, <3>1 DEF IInv, JournalInv, Verified
      <3>. QED BY <1>1, <2>1, <2>4, <3>3, <3>4
           DEF JournalInv, OnePending, BeforesAreKnown, FileIsKnown, Verified, Known, Steady
    <2>. QED BY <2>5, <2>6, <2>7, <2>8, <2>9 DEF IInv
  <1>. QED BY <1>2, <1>3 DEF Commit

LEMMA StopKeeps == ASSUME IInv, Stop PROVE IInv'
  <1>1. /\ op.pc = "stop" /\ UNCHANGED <<file, store, clients, active, skipped, counts>>
        /\ model' = IF model = "reserved" THEN "none" ELSE model
    BY DEF Stop
  <1>2. \/ Ends /\ ConsumeToken
        \/ model = "reserved" /\ Steady("markStop") /\ UNCHANGED <<tokens, shown>>
    <2>1. "markStop" \in Steps BY DEF Steps, ApplySteps
    <2>. QED BY <2>1, GotoDoes, EndDoes DEF Stop, IInv
  <1>3. /\ tokens' \in [Strategies -> Observed] /\ shown' \in [Strategies -> 0 .. MaxPreviews]
        /\ TokensInv'
    <2>1. CASE Ends /\ ConsumeToken
      BY <1>1, <2>1, TokensConsumed DEF LockSteps, ApplySteps
    <2>2. CASE Steady("markStop") /\ UNCHANGED <<tokens, shown>>
      <3>1. UNCHANGED previews BY <1>1, <2>2 DEF previews
      <3>2. TokensInv'
        BY <1>1, <2>2, <3>1, TokensKept DEF Steady, Applied, ApplySteps, LockSteps
      <3>. QED BY <2>2, <3>2 DEF IInv, Shape
    <2>. QED BY <1>2, <2>1, <2>2
  <1>4. Shape' BY <1>1, <1>2, <1>3 DEF IInv, Shape, store, Ends, Steady
  <1>5. OperationInv'
    BY <1>1, <1>2
    DEF IInv, OperationInv, AppliesWhatItSaw, ActivatesOverCommitted, ActIsMuxvias,
        BeforeIsOperators, Deciding, Journalled, ActivationSteps, store, Ends, Steady
  <1>6. ServerInv'
    BY <1>1, <1>2
    DEF IInv, Shape, ServerInv, ServerIsCommitted, TakeoverIsServed, Up, store, Ends, Steady
  <1>7. JournalInv'
    BY <1>1, <1>2
    DEF IInv, JournalInv, OnePending, BeforesAreKnown, FileIsKnown, Verified, Known, Pending,
        Journalled, store, Ends, Steady
  <1>. QED BY <1>3, <1>4, <1>5, <1>6, <1>7 DEF IInv

LEMMA CompleteKeeps == ASSUME IInv, Complete PROVE IInv'
  <1>1. /\ op.pc = "complete" /\ UNCHANGED <<file, store, previews, active, skipped, counts>>
        /\ model' = "none" /\ (model = "draining" => active = 0)
    BY DEF Complete
  <1>2. Ends \/ Steady("markComplete")
    <2>1. "markComplete" \in Steps BY DEF Steps
    <2>. QED BY <2>1, GotoDoes, EndDoes DEF Complete, IInv
  <1>3. Shape' BY <1>1, <1>2 DEF IInv, Shape, store, previews, Ends, Steady
  <1>4. TokensInv'
    BY <1>1, <1>2, TokensKept DEF Ends, Steady, Applied, ApplySteps, LockSteps
  <1>5. OperationInv'
    BY <1>1, <1>2
    DEF IInv, OperationInv, AppliesWhatItSaw, ActivatesOverCommitted, ActIsMuxvias,
        BeforeIsOperators, Deciding, Journalled, ActivationSteps, store, Ends, Steady
  <1>6. ServerInv'
    BY <1>1, <1>2
    DEF IInv, Shape, ServerInv, ServerIsCommitted, TakeoverIsServed, Up, store, Ends, Steady
  <1>7. JournalInv'
    BY <1>1, <1>2
    DEF IInv, JournalInv, OnePending, BeforesAreKnown, FileIsKnown, Verified, Known, Pending,
        Journalled, store, Ends, Steady
  <1>. QED BY <1>3, <1>4, <1>5, <1>6, <1>7 DEF IInv

(* A store that fails leaves the rows, and no intent unsettled by itself.   *)
LEMMA StoreFailsDoes ==
  ASSUME Shape, StoreFails
  PROVE  counts' \in Bounded /\ counts'.unsettled = counts.unsettled /\ UNCHANGED store
  BY CountDoes DEF StoreFails

LEMMA MarkCommittedKeeps == ASSUME IInv, MarkCommitted PROVE IInv'
  <1>1. /\ op.pc \in {"markStop", "markComplete"} /\ Ends
        /\ UNCHANGED <<file, clients, server>>
    BY EndDoes DEF MarkCommitted
  <1>2. CASE StoreFails /\ UNCHANGED <<tokens, shown>>
    <2>1. counts' \in Bounded /\ counts'.unsettled = counts.unsettled /\ UNCHANGED store
      BY <1>2, StoreFailsDoes DEF IInv
    <2>2. UNCHANGED previews BY <1>1, <1>2 DEF previews
    <2>3. Shape' BY <1>1, <2>1, <2>2 DEF IInv, Shape, store, previews, server, Ends
    <2>4. TokensInv' BY <1>1, <2>2, TokensKept DEF Ends, Applied, ApplySteps, LockSteps
    <2>5. OperationInv'
      BY <1>1, <2>1
      DEF IInv, OperationInv, AppliesWhatItSaw, ActivatesOverCommitted, ActIsMuxvias,
          BeforeIsOperators, Deciding, Journalled, ActivationSteps, store, Ends
    <2>6. ServerInv'
      BY <1>1, <2>1
      DEF IInv, Shape, ServerInv, ServerIsCommitted, TakeoverIsServed, Up, store, server, Ends
    <2>7. JournalInv'
      BY <1>1, <2>1
      DEF IInv, JournalInv, OnePending, BeforesAreKnown, FileIsKnown, Verified, Known, Pending,
          Journalled, store, Ends
    <2>. QED BY <2>3, <2>4, <2>5, <2>6, <2>7 DEF IInv
  <1>3. CASE /\ intents' = [intents EXCEPT ![op.rec.id] = Settled("required")]
             /\ route' = [route EXCEPT !.required = TRUE]
             /\ IF op.pc = "markStop" THEN ConsumeToken ELSE UNCHANGED <<tokens, shown>>
             /\ UNCHANGED <<act, counts>>
    <2>1. PICK n \in Clients : n = op.rec.id
      BY <1>1 DEF IInv, TokensInv, AppliedIsOwn, ApplySteps
    <2>2. /\ intents' \in [Clients -> Rows]
          /\ \A m : m \in Pending' <=> m \in Pending /\ m # n
      <3>1. PICK row \in Rows : row = Settled("required") /\ row.state = "required"
        BY Constants
      <3>2. intents' = [intents EXCEPT ![n] = row] BY <1>3, <2>1, <3>1
      <3>. QED BY <3>1, <3>2, RowFields DEF IInv, Pending
    <2>3. /\ route' \in Routes /\ route'.required /\ route'.managed = route.managed
          /\ route'.takeover = route.takeover /\ route'.target = route.target
          /\ route'.before = route.before
      BY <1>3 DEF IInv, Shape, Routes
    <2>4. /\ tokens' \in [Strategies -> Observed] /\ shown' \in [Strategies -> 0 .. MaxPreviews]
          /\ TokensInv'
      <3>1. CASE op.pc = "markStop"
        BY <1>1, <1>3, <3>1, TokensConsumed DEF LockSteps, ApplySteps
      <3>2. CASE op.pc = "markComplete"
        <4>1. UNCHANGED previews BY <1>1, <1>3, <3>2 DEF previews
        <4>2. TokensInv'
          BY <1>1, <4>1, TokensKept DEF Ends, Applied, ApplySteps, LockSteps
        <4>. QED BY <1>3, <3>2, <4>2 DEF IInv, Shape
      <3>. QED BY <1>1, <3>1, <3>2
    <2>5. Shape' BY <1>1, <1>3, <2>2, <2>3, <2>4 DEF IInv, Shape, server, Ends
    <2>6. OperationInv'
      BY <1>1, <1>3, <2>3
      DEF IInv, OperationInv, AppliesWhatItSaw, ActivatesOverCommitted, ActIsMuxvias,
          BeforeIsOperators, Deciding, Journalled, ActivationSteps, Ends
    <2>7. ServerInv'
      BY <1>1, <2>3
      DEF IInv, Shape, ServerInv, ServerIsCommitted, TakeoverIsServed, Up, server, Ends
    <2>8. JournalInv'
      <3>1. OnePending' \/ counts.unsettled # 0
        BY <1>1, <1>3, <2>2 DEF IInv, JournalInv, OnePending, Journalled
      <3>. QED BY <1>3, <2>3, <3>1 DEF JournalInv
    <2>. QED BY <2>4, <2>5, <2>6, <2>7, <2>8 DEF IInv
  <1>. QED BY <1>2, <1>3 DEF MarkCommitted

LEMMA RollbackKeeps == ASSUME IInv, Rollback PROVE IInv'
  <1>1. op.pc = "rollback" /\ UNCHANGED <<store, previews, server, counts>>
    BY DEF Rollback
  <1>2. PICK row \in Rows :
          /\ row = intents[op.rec.id] /\ op.rec.id \in Pending
          /\ row.before = op.before /\ row.desired = op.desired
    BY <1>1
    DEF IInv, Shape, OperationInv, AppliesWhatItSaw, Journalled, Pending, TokensInv,
        AppliedIsOwn,
        ApplySteps
  <1>3. PICK step \in {"settle", "mark"} :
          /\ Steady(step) /\ file' \in Files /\ file'.owned \in {file.owned, op.before.owned}
          /\ step = "settle" => file'.owned = op.before.owned
    <2>1. {"settle", "mark"} \subseteq Steps BY DEF Steps, ApplySteps
    <2>2. PutBack(row, Goto("settle"), Goto("mark")) BY <1>2 DEF Rollback
    <2>3. PICK o \in Owned : o = row.before.owned BY DEF Rows, Files
    <2>4. /\ [file EXCEPT !.owned = o] \in Files /\ [file EXCEPT !.owned = o].owned = o
      BY FileFields DEF IInv, Shape
    <2>5. \/ file' = file /\ Goto("settle") /\ file = row.before
          \/ file' = [file EXCEPT !.owned = o] /\ (Goto("settle") \/ Goto("mark"))
          \/ file' = file /\ Goto("mark")
      BY <2>2, <2>3 DEF PutBack
    <2>. QED BY <1>2, <2>1, <2>3, <2>4, <2>5, GotoDoes DEF IInv, Shape
  <1>4. Shape' BY <1>1, <1>3 DEF IInv, Shape, store, previews, server, Steady
  <1>5. TokensInv' BY <1>1, <1>3, TokensKept DEF Steady, Applied, ApplySteps, LockSteps
  <1>6. OperationInv'
    BY <1>1, <1>3
    DEF IInv, OperationInv, AppliesWhatItSaw, ActivatesOverCommitted, ActIsMuxvias,
        BeforeIsOperators, Deciding, Journalled, ActivationSteps, Union, store, Steady
  <1>7. ServerInv'
    BY <1>1, <1>3
    DEF IInv, ServerInv, ServerIsCommitted, TakeoverIsServed, Up, LeavesTakeover, store,
        server, Steady
  <1>8. JournalInv'
    <2>1. SUFFICES ASSUME counts.unsettled = 0 PROVE JournalInv'
      BY <1>1 DEF JournalInv
    <2>2. OnePending'
      BY <1>1, <1>3, <2>1
         DEF IInv, JournalInv, OnePending, Journalled, Pending, store, Steady
    <2>3. ASSUME ~route.required PROVE BeforesAreKnown' /\ FileIsKnown' /\ Verified'
      <3>1. Known(op.before.owned) /\ act.state # "pending"
        BY <1>2, <2>1, <2>3 DEF IInv, JournalInv, OnePending, BeforesAreKnown
      <3>2. BeforesAreKnown'
        BY <1>1, <1>3, <2>1, <2>3
           DEF IInv, JournalInv, BeforesAreKnown, Known, Pending, store, Steady
      <3>3. Known(file.owned) \/ \E n \in Pending : file.owned = intents[n].desired
        BY <1>1, <2>1, <2>3, <3>1 DEF IInv, JournalInv, FileIsKnown
      <3>4. FileIsKnown' /\ Verified'
        BY <1>1, <1>3, <3>1, <3>3
           DEF FileIsKnown, Verified, Known, Pending, store, Steady
      <3>. QED BY <3>2, <3>4
    <2>. QED BY <1>1, <2>2, <2>3 DEF JournalInv, store
  <1>. QED BY <1>4, <1>5, <1>6, <1>7, <1>8 DEF IInv

LEMMA SettleKeeps == ASSUME IInv, Settle PROVE IInv'
  <1>1. op.pc = "settle" /\ UNCHANGED <<file, previews, active, skipped>>
    BY DEF Settle
  <1>2. CASE StoreFails /\ Goto("mark") /\ UNCHANGED model
    <2>1. /\ counts' \in Bounded /\ counts'.unsettled = counts.unsettled /\ UNCHANGED store
          /\ Steady("mark")
      BY <1>2, StoreFailsDoes, GotoDoes DEF IInv, Steps, ApplySteps
    <2>2. Shape' BY <1>1, <1>2, <2>1 DEF IInv, Shape, store, previews, Steady
    <2>3. TokensInv'
        BY <1>1, <2>1, TokensKept DEF Steady, Applied, ApplySteps, LockSteps
    <2>4. OperationInv'
      BY <1>1, <2>1
      DEF IInv, OperationInv, AppliesWhatItSaw, ActivatesOverCommitted, ActIsMuxvias,
          BeforeIsOperators, Deciding, Journalled, ActivationSteps, Union, store, Steady
    <2>5. ServerInv'
      BY <1>1, <1>2, <2>1
      DEF IInv, Shape, ServerInv, ServerIsCommitted, TakeoverIsServed, Up, LeavesTakeover,
          store, Steady
    <2>6. JournalInv'
      BY <1>1, <2>1
      DEF IInv, JournalInv, OnePending, BeforesAreKnown, FileIsKnown, Verified, Known, Pending,
          Journalled, store, Steady
    <2>. QED BY <2>2, <2>3, <2>4, <2>5, <2>6 DEF IInv
  <1>3. CASE /\ intents' = [intents EXCEPT ![op.rec.id] = Settled("rolledBack")]
             /\ End /\ GiveBack /\ UNCHANGED <<route, act, counts>>
    <2>1. Ends /\ model' = IF model \in {"reserved", "draining"} THEN "serving" ELSE model
      BY <1>3, EndDoes, GiveBackDoes
    <2>2. PICK n \in Clients : n = op.rec.id
      BY <1>1 DEF IInv, TokensInv, AppliedIsOwn, ApplySteps
    <2>3. /\ intents' \in [Clients -> Rows]
          /\ \A m : m \in Pending' <=> m \in Pending /\ m # n
      <3>1. PICK row \in Rows : row = Settled("rolledBack") /\ row.state = "rolledBack"
        BY Constants
      <3>2. intents' = [intents EXCEPT ![n] = row] BY <1>3, <2>2, <3>1
      <3>. QED BY <3>1, <3>2, RowFields DEF IInv, Pending
    <2>4. Shape' BY <1>1, <1>3, <2>1, <2>3 DEF IInv, Shape, previews, Ends
    <2>5. TokensInv' BY <1>1, <2>1, TokensKept DEF Ends, Applied, ApplySteps, LockSteps
    <2>6. OperationInv'
      BY <1>1, <1>3, <2>1
      DEF IInv, OperationInv, AppliesWhatItSaw, ActivatesOverCommitted, ActIsMuxvias,
          BeforeIsOperators, Deciding, Journalled, ActivationSteps, Ends
    <2>7. ServerInv'
      BY <1>1, <1>3, <2>1
      DEF IInv, Shape, ServerInv, ServerIsCommitted, TakeoverIsServed, Up, Ends
    <2>8. JournalInv'
      <3>1. SUFFICES ASSUME counts.unsettled = 0 PROVE JournalInv'
        BY <1>3 DEF JournalInv
      <3>2. n \in Pending
        BY <1>1, <2>2
           DEF IInv, Shape, OperationInv, AppliesWhatItSaw, Journalled, Pending
      <3>3. Pending' = {} /\ act.state # "pending"
        BY <2>3, <3>1, <3>2 DEF IInv, JournalInv, OnePending
      <3>4. route.required \/ Known(file.owned)
        BY <1>1, <3>1, <3>3 DEF IInv, JournalInv, FileIsKnown
      <3>. QED BY <1>1, <1>3, <2>1, <3>3, <3>4
           DEF JournalInv, OnePending, BeforesAreKnown, FileIsKnown, Verified, Known, Ends
    <2>. QED BY <2>4, <2>5, <2>6, <2>7, <2>8 DEF IInv
  <1>. QED BY <1>2, <1>3 DEF Settle

LEMMA MarkKeeps == ASSUME IInv, Mark PROVE IInv'
  <1>1. /\ op.pc = "mark" /\ Ends /\ UNCHANGED <<file, clients, active, skipped>>
        /\ model' = IF model \in {"reserved", "draining"} THEN "serving" ELSE model
    BY EndDoes, GiveBackDoes DEF Mark
  <1>2. CASE /\ counts' = [counts EXCEPT !.faults = @ + 1, !.unsettled = @ + 1]
             /\ UNCHANGED <<store, tokens, shown>>
    <2>1. counts' \in Bounded /\ counts'.unsettled # 0
      <3>1. PICK m \in Nat, k \in Nat \ {0} : m = counts.faults + 1 /\ k = counts.unsettled + 1
        BY DEF IInv, Shape, Bounded
      <3>2. counts' = [counts EXCEPT !.faults = m, !.unsettled = k] BY <1>2, <3>1
      <3>. QED BY <3>1, <3>2 DEF IInv, Shape, Bounded
    <2>2. UNCHANGED previews BY <1>1, <1>2 DEF previews
    <2>3. Shape' BY <1>1, <1>2, <2>1, <2>2 DEF IInv, Shape, store, previews, Ends
    <2>4. TokensInv' BY <1>1, <2>2, TokensKept DEF Ends, Applied, ApplySteps, LockSteps
    <2>5. OperationInv'
      BY <1>1, <1>2
      DEF IInv, OperationInv, AppliesWhatItSaw, ActivatesOverCommitted, ActIsMuxvias,
          BeforeIsOperators, Deciding, Journalled, ActivationSteps, store, Ends
    <2>6. ServerInv'
      BY <1>1, <1>2
      DEF IInv, Shape, ServerInv, ServerIsCommitted, TakeoverIsServed, Up, store, Ends
    <2>7. JournalInv' BY <2>1 DEF JournalInv
    <2>. QED BY <2>3, <2>4, <2>5, <2>6, <2>7 DEF IInv
  <1>3. CASE /\ intents' = [intents EXCEPT ![op.rec.id] = Settled("required")]
             /\ route' = [route EXCEPT !.required = TRUE]
             /\ ConsumeToken /\ UNCHANGED <<act, counts>>
    <2>1. PICK n \in Clients : n = op.rec.id
      BY <1>1 DEF IInv, TokensInv, AppliedIsOwn, ApplySteps
    <2>2. /\ intents' \in [Clients -> Rows]
          /\ \A m : m \in Pending' <=> m \in Pending /\ m # n
      <3>1. PICK row \in Rows : row = Settled("required") /\ row.state = "required"
        BY Constants
      <3>2. intents' = [intents EXCEPT ![n] = row] BY <1>3, <2>1, <3>1
      <3>. QED BY <3>1, <3>2, RowFields DEF IInv, Pending
    <2>3. /\ route' \in Routes /\ route'.required /\ route'.managed = route.managed
          /\ route'.takeover = route.takeover /\ route'.target = route.target
          /\ route'.before = route.before
      BY <1>3 DEF IInv, Shape, Routes
    <2>4. /\ tokens' \in [Strategies -> Observed] /\ shown' \in [Strategies -> 0 .. MaxPreviews]
          /\ TokensInv'
      BY <1>1, <1>3, TokensConsumed DEF LockSteps, ApplySteps
    <2>5. Shape' BY <1>1, <1>3, <2>2, <2>3, <2>4 DEF IInv, Shape, Ends
    <2>6. OperationInv'
      BY <1>1, <1>3, <2>3
      DEF IInv, OperationInv, AppliesWhatItSaw, ActivatesOverCommitted, ActIsMuxvias,
          BeforeIsOperators, Deciding, Journalled, ActivationSteps, Ends
    <2>7. ServerInv'
      BY <1>1, <2>3
      DEF IInv, Shape, ServerInv, ServerIsCommitted, TakeoverIsServed, Up, Ends
    <2>8. JournalInv'
      <3>1. OnePending' \/ counts.unsettled # 0
        BY <1>1, <1>3, <2>1, <2>2 DEF IInv, JournalInv, OnePending, Journalled
      <3>. QED BY <1>3, <2>3, <3>1 DEF JournalInv
    <2>. QED BY <2>4, <2>5, <2>6, <2>7, <2>8 DEF IInv
  <1>. QED BY <1>2, <1>3 DEF Mark

-----------------------------------------------------------------------------
(* Activating.                                                              *)
LEMMA ActivateKeeps == ASSUME IInv, Activate PROVE IInv'
  <1>1. /\ op.pc = "idle" /\ counts.writes < MaxWrites /\ ~route.required
        /\ ~route.managed /\ route.target = "codex" => file.owned < Muxvia(0)
        /\ UNCHANGED <<file, tokens, clients, intents, server, shown>>
        /\ counts' \in Bounded /\ counts'.unsettled = counts.unsettled
    BY CountDoes DEF Activate, IInv
  <1>2. CASE route' = [route EXCEPT !.drift = TRUE] /\ UNCHANGED <<act, op>>
    <2>1. /\ route' \in Routes /\ route'.required = route.required
          /\ route'.managed = route.managed /\ route'.desired = route.desired
          /\ route'.takeover = route.takeover /\ route'.target = route.target
          /\ route'.before = route.before
      BY <1>2 DEF IInv, Shape, Routes
    <2>2. Shape' BY <1>1, <1>2, <2>1 DEF IInv, Shape, server
    <2>3. TokensInv'
      BY <1>1, <1>2, TokensKept
         DEF previews, IInv, Shape, Applied, ApplySteps, LockSteps
    <2>4. OperationInv'
      BY <1>1, <1>2, <2>1
      DEF IInv, OperationInv, AppliesWhatItSaw, ActivatesOverCommitted, ActIsMuxvias,
          BeforeIsOperators, Deciding, Journalled, ActivationSteps
    <2>5. ServerInv'
      BY <1>1, <1>2, <2>1
      DEF IInv, Shape, ServerInv, ServerIsCommitted, TakeoverIsServed, Up, server
    <2>6. JournalInv'
      BY <1>1, <1>2, <2>1
      DEF IInv, JournalInv, OnePending, BeforesAreKnown, FileIsKnown, Verified, Known, Pending,
          Journalled
    <2>. QED BY <2>2, <2>3, <2>4, <2>5, <2>6 DEF IInv
  <1>3. CASE /\ ~(route.managed /\ file.owned # route.desired)
             /\ op' = [Idle EXCEPT !.pc = "actWrite", !.before = file,
                                   !.desired = Muxvia(counts.writes + 1)]
             /\ act' = [state |-> "pending", before |-> file, desired |-> op'.desired,
                        union |-> FALSE]
             /\ UNCHANGED route
    <2>1. PICK o \in Owned : o = Muxvia(counts.writes + 1) /\ o \notin Edited
      <3>1. counts.writes + 1 \in 0 .. MaxWrites
          BY <1>1, Bounds DEF IInv, Shape, Bounded
      <3>. QED BY <3>1, Bounds
    <2>2. /\ op' \in Operations /\ op'.pc = "actWrite" /\ ~op'.drains
          /\ op'.before = file /\ op'.desired = o
      BY <1>3, <2>1, Constants DEF IInv, Shape, Idle, Operations, Steps, ActivationSteps
    <2>3. /\ act' \in Rows
          /\ act' = [state |-> "pending", before |-> file, desired |-> o, union |-> FALSE]
      BY <1>3, <2>1, <2>2 DEF IInv, Shape, Rows
    <2>4. Shape' BY <1>1, <1>3, <2>2, <2>3 DEF IInv, Shape, server
    <2>5. TokensInv'
      BY <1>1, <2>2, TokensKept DEF previews, Applied, ApplySteps, LockSteps
    <2>6. OperationInv'
      BY <1>1, <1>3, <2>1, <2>2, <2>3
      DEF IInv, OperationInv, AppliesWhatItSaw, ActivatesOverCommitted, ActIsMuxvias,
          BeforeIsOperators, Deciding, Journalled, ActivationSteps
    <2>7. ServerInv'
      BY <1>1, <1>3, <2>2
      DEF IInv, Shape, ServerInv, ServerIsCommitted, TakeoverIsServed, Up, server
    <2>8. JournalInv'
      <3>1. SUFFICES ASSUME counts.unsettled = 0 PROVE JournalInv'
        BY <1>1 DEF JournalInv
      <3>2. Pending = {} /\ Known(file.owned)
        BY <1>1, <3>1
        DEF IInv, JournalInv, OnePending, FileIsKnown, Journalled, OperationInv, ActIsMuxvias,
            ActivationSteps
      <3>3. Pending' = {} BY <1>1, <3>2 DEF Pending
      <3>. QED BY <1>1, <1>3, <2>2, <2>3, <3>2, <3>3
           DEF JournalInv, OnePending, BeforesAreKnown, FileIsKnown, Verified, Known
    <2>. QED BY <2>4, <2>5, <2>6, <2>7, <2>8 DEF IInv
  <1>. QED BY <1>2, <1>3 DEF Activate

LEMMA ActWriteKeeps == ASSUME IInv, ActWrite PROVE IInv'
  <1>1. op.pc = "actWrite" /\ UNCHANGED <<store, previews, server, counts>>
    BY DEF ActWrite
  <1>2. PICK step \in {"actCommit", "actUndo"} :
          /\ Steady(step)
          /\ \/ file' = file /\ step = "actUndo"
             \/ file = op.before /\ file' = [file EXCEPT !.owned = op.desired]
    <2>1. {"actCommit", "actUndo"} \subseteq Steps BY DEF Steps, ActivationSteps
    <2>. QED BY <2>1, GotoDoes DEF ActWrite, IInv
  <1>3. file' \in Files /\ file'.owned \in {file.owned, op.desired}
        /\ (step = "actCommit" => file'.owned = op.desired)
    <2>1. PICK o \in Owned : o = op.desired BY DEF IInv, Shape, Operations
    <2>2. /\ [file EXCEPT !.owned = o] \in Files /\ [file EXCEPT !.owned = o].owned = o
      BY FileFields DEF IInv, Shape
    <2>. QED BY <1>2, <2>1, <2>2 DEF IInv, Shape
  <1>4. Shape' BY <1>1, <1>2, <1>3 DEF IInv, Shape, store, previews, server, Steady
  <1>5. TokensInv'
    BY <1>1, <1>2, TokensKept DEF Steady, Applied, ApplySteps, LockSteps
  <1>6. OperationInv'
    BY <1>1, <1>2
    DEF IInv, OperationInv, AppliesWhatItSaw, ActivatesOverCommitted, ActIsMuxvias,
        BeforeIsOperators, Deciding, Journalled, ActivationSteps, store, Steady
  <1>7. ServerInv'
    BY <1>1, <1>2
    DEF IInv, ServerInv, ServerIsCommitted, TakeoverIsServed, Up, store, server, Steady
  <1>8. JournalInv'
    <2>1. SUFFICES ASSUME counts.unsettled = 0 PROVE JournalInv'
      BY <1>1 DEF JournalInv
    <2>2. act.state = "pending" /\ act.desired = op.desired
      BY <1>1 DEF IInv, OperationInv, ActivatesOverCommitted, ActivationSteps
    <2>3. Pending = {} BY <2>1, <2>2 DEF IInv, JournalInv, OnePending
    <2>4. Pending' = {} BY <1>1, <2>3 DEF Pending, store
    <2>5. ASSUME ~route.required PROVE BeforesAreKnown' /\ FileIsKnown' /\ Verified'
      <3>1. Known(file.owned)
        BY <1>1, <2>1, <2>5 DEF IInv, JournalInv, FileIsKnown
      <3>2. BeforesAreKnown'
        BY <1>1, <1>2, <2>1, <2>5, <2>4
           DEF IInv, JournalInv, BeforesAreKnown, Known, store, Steady
      <3>. QED BY <1>1, <1>2, <1>3, <2>2, <3>1, <3>2
           DEF FileIsKnown, Verified, Known, store, Steady
    <2>. QED BY <1>1, <2>4, <2>5 DEF JournalInv, OnePending, store
  <1>. QED BY <1>4, <1>5, <1>6, <1>7, <1>8 DEF IInv

LEMMA ActCommitKeeps == ASSUME IInv, ActCommit PROVE IInv'
  <1>1. op.pc = "actCommit" /\ UNCHANGED <<file, intents, previews, active, counts>>
    BY DEF ActCommit
  <1>2. /\ act.state = "pending" /\ op.pc \in ActivationSteps
        /\ ~route.required /\ op.before \in Files /\ op.desired \in Owned
        /\ ~route.managed /\ route.target = "codex" => op.before.owned < Muxvia(0)
    BY <1>1
    DEF IInv, Shape, Operations, OperationInv, ActivatesOverCommitted, ActivationSteps
  <1>3. CASE Goto("actUndo") /\ UNCHANGED <<route, act, model, skipped>>
    <2>1. Steady("actUndo")
      BY <1>3, GotoDoes DEF IInv, Steps, ActivationSteps
    <2>2. Shape' BY <1>1, <1>3, <2>1 DEF IInv, Shape, previews, Steady
    <2>3. TokensInv'
        BY <1>1, <2>1, TokensKept DEF Steady, Applied, ApplySteps, LockSteps
    <2>4. OperationInv'
      BY <1>1, <1>3, <2>1
      DEF IInv, OperationInv, AppliesWhatItSaw, ActivatesOverCommitted, ActIsMuxvias,
          BeforeIsOperators, Deciding, Journalled, ActivationSteps, Steady
    <2>5. ServerInv'
      BY <1>1, <1>3, <2>1
      DEF IInv, ServerInv, ServerIsCommitted, TakeoverIsServed, Up, Steady
    <2>6. JournalInv'
      BY <1>1, <1>3, <2>1
      DEF IInv, JournalInv, OnePending, BeforesAreKnown, FileIsKnown, Verified, Known, Pending,
          Journalled, Steady
    <2>. QED BY <2>2, <2>3, <2>4, <2>5, <2>6 DEF IInv
  <1>4. ASSUME NEW takeover \in {TRUE, route.takeover},
               route' = [route EXCEPT !.managed = TRUE, !.desired = op.desired,
                           !.takeover = takeover, !.revision = @ + 1,
                           !.before = IF route.managed /\ route.target = "codex" THEN @
                                      ELSE op.before],
               act' = NoIntent, End,
               model' = IF takeover THEN "serving" ELSE model,
               skipped' = FALSE
        PROVE  IInv'
    <2>1. Ends BY <1>4, EndDoes
    <2>2. PICK before \in Files, t \in BOOLEAN :
            /\ t = takeover /\ (route.takeover => t)
            /\ before = IF route.managed /\ route.target = "codex" THEN route.before ELSE op.before
      BY <1>2, <1>4 DEF IInv, Shape, Routes
    <2>3. /\ route' \in Routes /\ route'.managed /\ route'.desired = op.desired
          /\ route'.takeover = t /\ route'.before = before /\ route'.target = route.target
          /\ ~route'.required
      <3>1. PICK d \in Owned, r \in Nat : d = op.desired /\ r = route.revision + 1
        BY <1>2 DEF IInv, Shape, Routes
      <3>2. route' = [route EXCEPT !.managed = TRUE, !.desired = d, !.takeover = t,
                        !.revision = r, !.before = before]
        BY <1>4, <2>2, <3>1
      <3>. QED BY <1>2, <3>1, <3>2 DEF IInv, Shape, Routes
    <2>4. act' \in Rows /\ act'.state = "none" BY <1>4, Constants
    <2>5. Shape' BY <1>1, <1>4, <2>1, <2>3, <2>4 DEF IInv, Shape, previews, Ends
    <2>6. TokensInv' BY <1>1, <2>1, TokensKept DEF Ends, Applied, ApplySteps, LockSteps
    <2>7. OperationInv'
      BY <1>1, <1>2, <2>1, <2>2, <2>3, <2>4
      DEF IInv, OperationInv, AppliesWhatItSaw, ActivatesOverCommitted, ActIsMuxvias,
          BeforeIsOperators, Deciding, Journalled, ActivationSteps, Ends
    <2>8. ServerInv'
      <3>1. model' = IF t THEN "serving" ELSE model BY <1>4, <2>2
      <3>. QED BY <1>1, <2>1, <2>2, <2>3, <3>1
           DEF IInv, Shape, ServerInv, ServerIsCommitted, TakeoverIsServed, Up, Ends
    <2>9. JournalInv'
      <3>1. SUFFICES ASSUME counts.unsettled = 0 PROVE JournalInv'
        BY <1>1 DEF JournalInv
      <3>2. Pending = {} /\ file.owned \in Edited \cup {op.desired}
        BY <1>1, <1>2, <3>1 DEF IInv, JournalInv, OnePending, Verified
      <3>3. Pending' = {} BY <1>1, <3>2 DEF Pending
      <3>. QED BY <1>1, <2>1, <2>3, <2>4, <3>2, <3>3
           DEF JournalInv, OnePending, BeforesAreKnown, FileIsKnown, Verified, Known, Ends
    <2>. QED BY <2>5, <2>6, <2>7, <2>8, <2>9 DEF IInv
  <1>. QED BY <1>1, <1>3, <1>4 DEF ActCommit

LEMMA ActUndoKeeps == ASSUME IInv, ActUndo PROVE IInv'
  <1>1. op.pc = "actUndo" /\ UNCHANGED <<route, intents, previews, server, counts>>
    BY DEF ActUndo
  <1>2. /\ act.state = "pending" /\ ~route.required
        /\ route.managed => act.before.owned = route.desired
    BY <1>1 DEF IInv, OperationInv, ActivatesOverCommitted, ActivationSteps
  <1>3. /\ file' \in Files
        /\ \/ act' = NoIntent /\ Ends /\ file'.owned = act.before.owned
           \/ act' = act /\ Steady("actMark") /\ file'.owned \in {file.owned, act.before.owned}
    <2>1. PutBack(act, act' = NoIntent /\ End, Goto("actMark") /\ UNCHANGED act)
        BY DEF ActUndo
    <2>2. PICK o \in Owned : o = act.before.owned BY DEF IInv, Shape, Rows, Files
    <2>3. /\ [file EXCEPT !.owned = o] \in Files /\ [file EXCEPT !.owned = o].owned = o
      BY FileFields DEF IInv, Shape
    <2>4. \/ file' = file /\ file = act.before /\ act' = NoIntent /\ End
          \/ file' = [file EXCEPT !.owned = o] /\ act' = NoIntent /\ End
          \/ file' = [file EXCEPT !.owned = o] /\ act' = act /\ Goto("actMark")
          \/ file' = file /\ act' = act /\ Goto("actMark")
      BY <2>1, <2>2 DEF PutBack
    <2>5. "actMark" \in Steps BY DEF Steps, ActivationSteps
    <2>. QED BY <2>2, <2>5, <2>3, <2>4, GotoDoes, EndDoes DEF IInv, Shape
  <1>4. Shape' BY <1>1, <1>3, Constants DEF IInv, Shape, previews, server, Ends, Steady
  <1>5. TokensInv'
    BY <1>1, <1>3, TokensKept DEF Ends, Steady, Applied, ApplySteps, LockSteps
  <1>6. OperationInv'
    BY <1>1, <1>3, Constants
    DEF IInv, OperationInv, AppliesWhatItSaw, ActivatesOverCommitted, ActIsMuxvias,
        BeforeIsOperators, Deciding, Journalled, ActivationSteps, Ends, Steady
  <1>7. ServerInv'
    BY <1>1, <1>3
    DEF IInv, ServerInv, ServerIsCommitted, TakeoverIsServed, Up, server, Ends, Steady
  <1>8. JournalInv'
    <2>1. SUFFICES ASSUME counts.unsettled = 0 PROVE JournalInv'
      BY <1>1 DEF JournalInv
    <2>2. Pending = {} BY <1>2, <2>1 DEF IInv, JournalInv, OnePending
    <2>3. Pending' = {} BY <1>1, <2>2 DEF Pending
    <2>4. /\ Known(act.before.owned)
          /\ Known(file.owned) \/ file.owned = act.desired
      BY <1>2, <2>1, <2>2 DEF IInv, JournalInv, BeforesAreKnown, FileIsKnown
    <2>. QED BY <1>1, <1>2, <1>3, <2>3, <2>4, Constants
         DEF JournalInv, OnePending, BeforesAreKnown, FileIsKnown, Verified, Known, Ends, Steady
  <1>. QED BY <1>4, <1>5, <1>6, <1>7, <1>8 DEF IInv

LEMMA ActMarkKeeps == ASSUME IInv, ActMark PROVE IInv'
  <1>1. /\ op.pc = "actMark" /\ Ends /\ act' = NoIntent /\ model' = "none" /\ active' = 0
        /\ UNCHANGED <<file, intents, previews, skipped, counts>>
    BY EndDoes DEF ActMark
  <1>2. /\ route' \in Routes /\ route'.required /\ route'.managed = route.managed
        /\ route'.takeover = route.takeover /\ route'.target = route.target
        /\ route'.before = route.before
    BY DEF ActMark, IInv, Shape, Routes
  <1>3. Shape'
    BY <1>1, <1>2, Constants, Bounds DEF IInv, Shape, previews, Ends
  <1>4. TokensInv' BY <1>1, TokensKept DEF Ends, Applied, ApplySteps, LockSteps
  <1>5. OperationInv'
    BY <1>1, <1>2, Constants
    DEF IInv, OperationInv, AppliesWhatItSaw, ActivatesOverCommitted, ActIsMuxvias,
        BeforeIsOperators, Deciding, Journalled, ActivationSteps, Ends
  <1>6. ServerInv'
    BY <1>1, <1>2 DEF IInv, ServerInv, ServerIsCommitted, TakeoverIsServed, Up, Ends
  <1>7. JournalInv'
    <2>1. counts.unsettled = 0 => Pending = {}
      BY <1>1
      DEF IInv, JournalInv, OnePending, OperationInv, ActivatesOverCommitted, ActivationSteps
    <2>2. Pending' = Pending BY <1>1 DEF Pending
    <2>. QED BY <1>1, <1>2, <2>1, <2>2 DEF JournalInv, OnePending
  <1>. QED BY <1>3, <1>4, <1>5, <1>6, <1>7 DEF IInv

-----------------------------------------------------------------------------
(* Starting.                                                                *)
LEMMA StartKeeps == ASSUME IInv, Start PROVE IInv'
  <1>1. /\ op.pc = "down" /\ Steady("recover")
        /\ UNCHANGED <<file, store, previews, server, counts>>
    BY GotoDoes DEF Start, IInv, Steps
  <1>2. Shape' BY <1>1 DEF IInv, Shape, store, previews, server, Steady
  <1>3. TokensInv' BY <1>1, TokensKept DEF Steady, Applied, ApplySteps, LockSteps
  <1>4. OperationInv'
    BY <1>1
    DEF IInv, OperationInv, AppliesWhatItSaw, ActivatesOverCommitted, ActIsMuxvias,
        BeforeIsOperators, Deciding, Journalled, ActivationSteps, store, Steady
  <1>5. ServerInv'
    BY <1>1
    DEF IInv, ServerInv, ServerIsCommitted, TakeoverIsServed, Up, store, server, Steady
  <1>6. JournalInv'
    BY <1>1
    DEF IInv, JournalInv, OnePending, BeforesAreKnown, FileIsKnown, Verified, Known, Pending,
        Journalled, store, Steady
  <1>. QED BY <1>2, <1>3, <1>4, <1>5, <1>6 DEF IInv

LEMMA RecoverKeeps == ASSUME IInv, Recover PROVE IInv'
  <1>1. op.pc = "recover" /\ UNCHANGED <<act, previews, server, counts>>
    BY DEF Recover
  <1>2. CASE Pending = {} /\ Goto("actRecover") /\ UNCHANGED <<file, route, intents>>
    <2>1. Steady("actRecover") BY <1>2, GotoDoes DEF IInv, Steps
    <2>2. Shape' BY <1>1, <1>2, <2>1 DEF IInv, Shape, previews, server, Steady
    <2>3. TokensInv'
        BY <1>1, <2>1, TokensKept DEF Steady, Applied, ApplySteps, LockSteps
    <2>4. OperationInv'
      BY <1>1, <1>2, <2>1
      DEF IInv, OperationInv, AppliesWhatItSaw, ActivatesOverCommitted, ActIsMuxvias,
          BeforeIsOperators, Deciding, Journalled, ActivationSteps, Steady
    <2>5. ServerInv'
      BY <1>1, <1>2, <2>1
      DEF IInv, ServerInv, ServerIsCommitted, TakeoverIsServed, Up, server, Steady
    <2>6. Pending' = {} BY <1>2 DEF Pending
    <2>7. JournalInv'
      BY <1>1, <1>2, <2>1, <2>6
      DEF IInv, JournalInv, OnePending, BeforesAreKnown, FileIsKnown, Verified, Known,
          Journalled, Steady
    <2>. QED BY <2>2, <2>3, <2>4, <2>5, <2>7 DEF IInv
  <1>3. ASSUME NEW n \in Pending, UNCHANGED op,
               PutBack(intents[n],
                       intents' = [intents EXCEPT ![n] = Settled("rolledBack")] /\ UNCHANGED route,
                       /\ intents' = [intents EXCEPT ![n] = Settled("required")]
                       /\ route' = [route EXCEPT !.required = TRUE])
        PROVE  IInv'
    <2>1. PICK row \in Rows : row = intents[n] /\ n \in Clients
      BY DEF IInv, Shape, Pending
    <2>2. PICK back \in Rows, left \in Rows :
            /\ back = Settled("rolledBack") /\ back.state = "rolledBack"
            /\ left = Settled("required") /\ left.state = "required"
      BY Constants
    <2>3. PICK o \in Owned : o = row.before.owned BY DEF Rows, Files
    <2>4. /\ [file EXCEPT !.owned = o] \in Files /\ [file EXCEPT !.owned = o].owned = o
      BY FileFields DEF IInv, Shape
    <2>5. PICK s \in Rows :
            /\ s.state # "pending" /\ intents' = [intents EXCEPT ![n] = s] /\ file' \in Files
            /\ \/ route' = route /\ file'.owned = o
               \/ route' = [route EXCEPT !.required = TRUE]
      BY <1>3, <2>1, <2>2, <2>3, <2>4 DEF PutBack, IInv, Shape
    <2>6. /\ intents' \in [Clients -> Rows] /\ file' \in Files
          /\ \A m : m \in Pending' <=> m \in Pending /\ m # n
      <3>1. PICK k \in Clients : k = n BY <2>1
      <3>. QED BY <2>5, <3>1, RowFields DEF IInv, Pending
    <2>7. /\ route' \in Routes /\ route'.managed = route.managed
          /\ route'.takeover = route.takeover /\ route'.target = route.target
          /\ route'.before = route.before /\ route'.desired = route.desired
          /\ (route' = route /\ file'.owned = row.before.owned) \/ route'.required
      BY <2>3, <2>5 DEF IInv, Shape, Routes
    <2>8. Shape' BY <1>1, <1>3, <2>6, <2>7 DEF IInv, Shape, previews, server
    <2>9. TokensInv'
      BY <1>1, <1>3, TokensKept DEF IInv, Shape, Applied, ApplySteps, LockSteps
    <2>10. OperationInv'
      BY <1>1, <1>3, <2>7
      DEF IInv, OperationInv, AppliesWhatItSaw, ActivatesOverCommitted, ActIsMuxvias,
          BeforeIsOperators, Deciding, Journalled, ActivationSteps
    <2>11. ServerInv'
      BY <1>1, <1>3, <2>7
         DEF IInv, ServerInv, ServerIsCommitted, TakeoverIsServed, Up, server
    <2>12. JournalInv'
      <3>1. SUFFICES ASSUME counts.unsettled = 0 PROVE JournalInv'
        BY <1>1 DEF JournalInv
      <3>2. /\ Pending' = {} /\ act.state # "pending" /\ ~route.required
            /\ Known(row.before.owned)
        BY <2>1, <2>6, <3>1 DEF IInv, JournalInv, OnePending, BeforesAreKnown
      <3>. QED BY <1>1, <1>3, <2>7, <3>2
           DEF JournalInv, OnePending, BeforesAreKnown, FileIsKnown, Verified, Known
    <2>. QED BY <2>8, <2>9, <2>10, <2>11, <2>12 DEF IInv
  <1>. QED BY <1>2, <1>3 DEF Recover

LEMMA ActRecoverKeeps == ASSUME IInv, ActRecover PROVE IInv'
  <1>1. op.pc = "actRecover" /\ UNCHANGED <<intents, previews, server, counts>>
    BY DEF ActRecover
  <1>2. counts.unsettled = 0 => Pending = {} /\ Pending' = {}
    BY <1>1 DEF IInv, JournalInv, OnePending, Journalled, Pending
  <1>3. CASE act.state = "none" /\ Goto("bootstrap") /\ UNCHANGED <<file, route, act>>
    <2>1. Steady("bootstrap") BY <1>3, GotoDoes DEF IInv, Steps
    <2>2. Shape' BY <1>1, <1>3, <2>1 DEF IInv, Shape, previews, server, Steady
    <2>3. TokensInv'
        BY <1>1, <2>1, TokensKept DEF Steady, Applied, ApplySteps, LockSteps
    <2>4. OperationInv'
      BY <1>1, <1>3, <2>1
      DEF IInv, OperationInv, AppliesWhatItSaw, ActivatesOverCommitted, ActIsMuxvias,
          BeforeIsOperators, Deciding, Journalled, ActivationSteps, Steady
    <2>5. ServerInv'
      BY <1>1, <1>3, <2>1
      DEF IInv, ServerInv, ServerIsCommitted, TakeoverIsServed, Up, server, Steady
    <2>6. JournalInv'
      BY <1>1, <1>2, <1>3, <2>1
      DEF IInv, JournalInv, OnePending, BeforesAreKnown, FileIsKnown, Verified, Known, Steady
    <2>. QED BY <2>2, <2>3, <2>4, <2>5, <2>6 DEF IInv
  <1>4. CASE /\ act.state = "pending" /\ act' = NoIntent /\ UNCHANGED op
             /\ PutBack(act, UNCHANGED route, route' = [route EXCEPT !.required = TRUE])
    <2>1. PICK o \in Owned : o = act.before.owned BY DEF IInv, Shape, Rows, Files
    <2>2. /\ [file EXCEPT !.owned = o] \in Files /\ [file EXCEPT !.owned = o].owned = o
      BY FileFields DEF IInv, Shape
    <2>3. /\ file' \in Files
          /\ \/ route' = route /\ file'.owned = o
             \/ route' = [route EXCEPT !.required = TRUE]
      BY <1>4, <2>1, <2>2 DEF PutBack, IInv, Shape
    <2>4. /\ route' \in Routes /\ route'.managed = route.managed
          /\ route'.takeover = route.takeover /\ route'.target = route.target
          /\ route'.before = route.before
          /\ (route' = route /\ file'.owned = act.before.owned) \/ route'.required
      BY <2>1, <2>3 DEF IInv, Shape, Routes
    <2>5. act' \in Rows /\ act'.state = "none" BY <1>4, Constants
    <2>6. Shape' BY <1>1, <1>4, <2>3, <2>4, <2>5 DEF IInv, Shape, previews, server
    <2>7. TokensInv'
      BY <1>1, <1>4, TokensKept DEF IInv, Shape, Applied, ApplySteps, LockSteps
    <2>8. OperationInv'
      BY <1>1, <1>4, <2>4, <2>5
      DEF IInv, OperationInv, AppliesWhatItSaw, ActivatesOverCommitted, ActIsMuxvias,
          BeforeIsOperators, Deciding, Journalled, ActivationSteps
    <2>9. ServerInv'
      BY <1>1, <1>4, <2>4
         DEF IInv, ServerInv, ServerIsCommitted, TakeoverIsServed, Up, server
    <2>10. JournalInv'
      <3>1. SUFFICES ASSUME counts.unsettled = 0 PROVE JournalInv'
        BY <1>1 DEF JournalInv
      <3>2. ~route.required => Known(act.before.owned)
        BY <1>4, <3>1 DEF IInv, JournalInv, BeforesAreKnown
      <3>. QED BY <1>1, <1>2, <1>4, <2>4, <2>5, <3>1, <3>2
           DEF JournalInv, OnePending, BeforesAreKnown, FileIsKnown, Verified, Known
    <2>. QED BY <2>6, <2>7, <2>8, <2>9, <2>10 DEF IInv
  <1>. QED BY <1>3, <1>4 DEF ActRecover

LEMMA BootstrapKeeps == ASSUME IInv, Bootstrap PROVE IInv'
  <1>1. /\ op.pc = "bootstrap" /\ Ends
        /\ UNCHANGED <<file, intents, act, previews, active, counts>>
    BY EndDoes DEF Bootstrap
  <1>2. /\ route' \in Routes /\ route'.managed = route.managed
        /\ route'.takeover = route.takeover /\ route'.target = route.target
        /\ route'.before = route.before /\ route'.desired = route.desired
        /\ route'.required = route.required \/ route'.required
    BY DEF Bootstrap, IInv, Shape, Routes
  <1>3. \/ route.managed /\ route.takeover /\ model' = "serving" /\ skipped' = FALSE
        \/ skipped' = (route.managed /\ route.takeover) /\ model' = model
    BY DEF Bootstrap
  <1>4. Shape'
    <2>1. skipped' \in BOOLEAN BY <1>3
    <2>. QED BY <1>1, <1>2, <1>3, <2>1 DEF IInv, Shape, previews, Ends
  <1>5. TokensInv' BY <1>1, TokensKept DEF Ends, Applied, ApplySteps, LockSteps
  <1>6. OperationInv'
    BY <1>1, <1>2
    DEF IInv, OperationInv, AppliesWhatItSaw, ActivatesOverCommitted, ActIsMuxvias,
        BeforeIsOperators, Deciding, Journalled, ActivationSteps, Ends
  <1>7. ServerInv'
    BY <1>1, <1>2, <1>3
       DEF IInv, Shape, ServerInv, ServerIsCommitted, TakeoverIsServed, Up, Ends
  <1>8. JournalInv'
    <2>1. counts.unsettled = 0 => Pending = {} /\ Pending' = {}
      BY <1>1 DEF IInv, JournalInv, OnePending, Journalled, Pending
    <2>2. act.state # "pending"
      BY <1>1 DEF IInv, OperationInv, ActIsMuxvias, ActivationSteps
    <2>. QED BY <1>1, <1>2, <2>1, <2>2
         DEF IInv, JournalInv, OnePending, BeforesAreKnown, FileIsKnown, Verified, Known, Ends
  <1>. QED BY <1>4, <1>5, <1>6, <1>7, <1>8 DEF IInv

LEMMA CrashKeeps == ASSUME IInv, Crash PROVE IInv'
  <1>1. /\ Up /\ UNCHANGED <<file, store, skipped>> /\ model' = "none" /\ active' = 0
        /\ tokens' = [s \in Strategies |-> NoToken]
        /\ clients' = [c \in Clients |-> IF clients[c].pc = "idle" THEN NoClient ELSE Over]
        /\ shown' = [s \in Strategies |-> 0]
        /\ op' = [Idle EXCEPT !.pc = "down"]
    BY DEF Crash
  <1>2. /\ counts' \in Bounded /\ counts'.unsettled = counts.unsettled
        /\ op' \in Operations /\ op'.pc = "down" /\ ~op'.drains
    <2>1. Count("crashes") BY DEF Crash
    <2>2. counts' \in Bounded /\ counts'.unsettled = counts.unsettled
      BY <2>1, CountDoes DEF IInv
    <2>. QED BY <1>1, <2>2, Constants DEF Operations, Steps
  <1>3. /\ tokens' \in [Strategies -> Observed] /\ shown' \in [Strategies -> 0 .. MaxPreviews]
        /\ clients' \in [Clients -> Sessions]
        /\ \A s \in Strategies : tokens'[s].id = 0 /\ shown'[s] = 0
        /\ \A c \in Clients : clients'[c].pc \in {"idle", "over"}
    <2>1. 0 \in 0 .. MaxPreviews BY Bounds
    <2>. QED BY <1>1, <2>1, Constants
  <1>4. Shape' BY <1>1, <1>2, <1>3, Bounds DEF IInv, Shape, store
  <1>5. TokensInv'
    <2>1. \A c \in Clients, s \in Strategies : ~Registered(c, s)' BY <1>3 DEF Registered
    <2>2. \A c \in Clients, s \in Strategies : ~UsedFor(c, s)'
      BY <1>3, <2>1 DEF UsedFor, Clients
    <2>. QED BY <1>2, <1>3, <2>1, <2>2
         DEF TokensInv, OneHoldsTheLock, TokensAreShown, PreviewsAreTokens, TokensAreOwn,
             AppliedIsOwn, LockSteps, ApplySteps
  <1>6. OperationInv'
    BY <1>1, <1>2
    DEF IInv, OperationInv, AppliesWhatItSaw, ActivatesOverCommitted, ActIsMuxvias,
        BeforeIsOperators, Deciding, Journalled, ActivationSteps, store
  <1>7. ServerInv'
    BY <1>1, <1>2 DEF IInv, ServerInv, ServerIsCommitted, TakeoverIsServed, Up, store
  <1>8. JournalInv'
    BY <1>1, <1>2
    DEF IInv, JournalInv, OnePending, BeforesAreKnown, FileIsKnown, Verified, Known, Pending,
        Journalled, store
  <1>. QED BY <1>4, <1>5, <1>6, <1>7, <1>8 DEF IInv

-----------------------------------------------------------------------------
(* Requests, and the operator.                                              *)
LEMMA RequestKeeps == ASSUME IInv, BeginRequest \/ EndRequest PROVE IInv'
  <1>1. /\ UNCHANGED <<file, store, previews, model, skipped, op, counts>>
        /\ active' \in 0 .. MaxRequests /\ (model = "serving" \/ active # 0)
        /\ model = "none" \/ model = "reserved" => active' = active
    BY Bounds DEF IInv, Shape, ServerInv, ServerIsCommitted, BeginRequest, EndRequest
  <1>2. model \notin {"none", "reserved"}
    BY <1>1 DEF IInv, Shape, ServerInv, ServerIsCommitted, BeginRequest, EndRequest
  <1>3. Shape' BY <1>1 DEF IInv, Shape, store, previews
  <1>4. TokensInv'
    BY <1>1, TokensKept DEF IInv, Shape, Applied, ApplySteps, LockSteps
  <1>5. OperationInv' /\ JournalInv'
    BY <1>1
    DEF IInv, OperationInv, AppliesWhatItSaw, ActivatesOverCommitted, ActIsMuxvias,
        BeforeIsOperators, Union, JournalInv, OnePending, BeforesAreKnown, FileIsKnown,
        Verified,
        Known, Pending, store
  <1>6. ServerInv'
    BY <1>1, <1>2
    DEF IInv, ServerInv, ServerIsCommitted, TakeoverIsServed, Up, LeavesTakeover, store
  <1>. QED BY <1>3, <1>4, <1>5, <1>6 DEF IInv

LEMMA OperatorKeeps == ASSUME IInv, Operator PROVE IInv'
  <1>1. /\ UNCHANGED <<store, previews, server, op>>
        /\ counts' \in Bounded /\ counts'.unsettled = counts.unsettled
    <2>1. Count("edits") /\ counts.edits < MaxEdits
      BY DEF Operator, EditOwned, EditUnrelated
    <2>2. counts' \in Bounded /\ counts'.unsettled = counts.unsettled
      BY <2>1, CountDoes DEF IInv
    <2>. QED BY <2>2 DEF Operator, EditOwned, EditUnrelated
  <1>2. file' \in Files /\ (file'.owned = file.owned \/ file'.owned \in Edited)
    <2>1. PICK n \in Edited : n = counts.edits + 1 /\ n \in Owned /\ n \in 0 .. MaxEdits
      BY Bounds
         DEF Operator, EditOwned, EditUnrelated, IInv, Shape, Bounded, Edited, Owned
    <2>. QED BY <2>1 DEF Operator, EditOwned, EditUnrelated, IInv, Shape, Files
  <1>3. Shape' BY <1>1, <1>2 DEF IInv, Shape, store, previews, server
  <1>4. TokensInv'
    BY <1>1, TokensKept DEF IInv, Shape, Applied, ApplySteps, LockSteps
  <1>5. OperationInv'
    BY <1>1
    DEF IInv, OperationInv, AppliesWhatItSaw, ActivatesOverCommitted, ActIsMuxvias,
        BeforeIsOperators, Union, store
  <1>6. ServerInv'
    BY <1>1
    DEF IInv, ServerInv, ServerIsCommitted, TakeoverIsServed, Up, LeavesTakeover, store, server
  <1>7. JournalInv'
    BY <1>1, <1>2
    DEF IInv, JournalInv, OnePending, BeforesAreKnown, FileIsKnown, Verified, Known, Pending,
        store
  <1>. QED BY <1>3, <1>4, <1>5, <1>6, <1>7 DEF IInv

LEMMA NextHolds == IInv /\ [Next]_vars => IInv'
  <1> SUFFICES ASSUME IInv, [Next]_vars PROVE IInv'
    OBVIOUS
  <1>1. CASE UNCHANGED vars
    <2>1. UNCHANGED <<file, store, previews, server, op, counts>>
      BY <1>1 DEF vars, store, previews, server
    <2>2. Shape' BY <2>1 DEF IInv, Shape, store, previews, server
    <2>3. TokensInv'
      BY <2>1, TokensKept DEF IInv, Shape, Applied, ApplySteps, LockSteps
    <2>. QED BY <2>1, <2>2, <2>3, GateKept DEF IInv
  <1>2. ASSUME NEW c \in Clients, Session(c) PROVE IInv'
    BY <1>2, PreviewKeeps, DisableKeeps, DeliverKeeps, RollbackPreviewKeeps, ApplyKeeps
    DEF Session
  <1>3. CASE Applying
    BY <1>3, LockKeeps, ValidateKeeps, ReserveKeeps, InsertIntentKeeps, WriteKeeps, CommitKeeps,
       StopKeeps, CompleteKeeps, MarkCommittedKeeps, RollbackKeeps, SettleKeeps, MarkKeeps
    DEF Applying
  <1>4. CASE Activate \/ Activating
    BY <1>4, ActivateKeeps, ActWriteKeeps, ActCommitKeeps, ActUndoKeeps, ActMarkKeeps
    DEF Activating
  <1>5. CASE Starting \/ Crash
    BY <1>5, StartKeeps, RecoverKeeps, ActRecoverKeeps, BootstrapKeeps, CrashKeeps
       DEF Starting
  <1>6. CASE BeginRequest \/ EndRequest \/ Operator BY <1>6, RequestKeeps, OperatorKeeps
  <1>. QED BY <1>1, <1>2, <1>3, <1>4, <1>5, <1>6 DEF Next

(* With nobody at the gate, a managed file holds the committed fields or    *)
(* what the operator wrote, the model server is that of the committed       *)
(* takeover, no request outlives it, and what a Codex route would restore   *)
(* is not Muxvia's own (RestIsCommitted, of the applying under the gate).   *)
THEOREM RestStaysCommitted == Spec => []RestIsCommitted
  <1>1. ASSUME IInv PROVE RestIsCommitted
    <2>1. TypeOK
      <3>1. /\ file \in Files /\ route \in Routes /\ clients \in [Clients -> Sessions]
            /\ intents \in [Clients -> Rows] /\ op \in Operations /\ act \in Rows
            /\ tokens \in [Strategies -> Observed] /\ active \in 0 .. MaxRequests
            /\ model \in {"none", "serving", "reserved", "draining"}
        BY <1>1 DEF IInv, Shape
      <3>2. \A c \in Clients :
              /\ clients[c].pc \in {"idle", "registered", "shown", "over"}
              /\ {clients[c].rec, clients[c].previous} \subseteq Observed
        BY <3>1 DEF Sessions
      <3>3. \A n \in DOMAIN intents :
              intents[n].state \in {"none", "pending", "committed", "rolledBack", "required"}
        BY <3>1 DEF Rows
      <3>4. act.state \in {"none", "pending"}
        BY <1>1 DEF IInv, OperationInv, ActIsMuxvias
      <3>. QED BY <3>1, <3>2, <3>3, <3>4 DEF TypeOK, Routes, Operations
    <2>2. ASSUME counts.unsettled = 0, op.pc = "idle"
          PROVE  /\ file.owned \notin Edited /\ ~route.required => file.owned = route.desired
                 /\ model = "serving" => route.managed /\ route.takeover
                 /\ route.managed /\ route.takeover /\ ~route.required =>
                      model = "serving" \/ skipped
                 /\ model = "none" => active = 0
                 /\ route.managed /\ route.target = "codex" => route.before.owned < Muxvia(0)
      <3>1. Pending = {} /\ act.state # "pending"
        BY <1>1, <2>2
        DEF IInv, JournalInv, OnePending, Journalled, OperationInv, ActIsMuxvias,
            ActivationSteps
      <3>2. ~route.required => Known(file.owned)
        BY <1>1, <2>2, <3>1 DEF IInv, JournalInv, FileIsKnown
      <3>3. model \in {"none", "serving"}
        BY <1>1, <2>2 DEF IInv, Shape, ServerInv, ServerIsCommitted
      <3>. QED BY <1>1, <2>2, <3>2, <3>3
           DEF IInv, ServerInv, ServerIsCommitted, TakeoverIsServed, Up, OperationInv,
               BeforeIsOperators, Known
    <2>. QED BY <2>1, <2>2 DEF RestIsCommitted
  <1>. QED BY <1>1, InitHolds, NextHolds, PTL DEF Spec

(* A step other than the operator's that changes the owned fields puts      *)
(* something back, activates over what is committed, or is the write.       *)
LEMMA EditsAreReplaced ==
  ASSUME IInv, Next, Overwritten
  PROVE  op.pc = "write" /\ file = op.rec.seen
  <1>1. /\ counts.unsettled = 0 /\ file'.owned # file.owned /\ file.owned \in Edited
        /\ file.owned # route.desired /\ file.owned # route.before.owned /\ route.managed
        /\ ~EditOwned
    BY DEF Overwritten
  <1>2. Shape BY DEF IInv
  <1>3. ASSUME NEW row \in Rows, NEW o \in Owned, o = row.before.owned,
               \/ file' = file
               \/ file.owned = row.desired /\ file' = [file EXCEPT !.owned = o]
        PROVE  file.owned = row.desired /\ row.before.owned # row.desired
    <2>1. [file EXCEPT !.owned = o].owned = o BY <1>2, FileFields DEF Shape
    <2>. QED BY <1>1, <1>3, <2>1
  <1>4. \A row \in Rows : row.before.owned \in Owned BY DEF Rows, Files
  <1>5. CASE Write
    BY <1>1, <1>5 DEF Write, IInv, OperationInv, AppliesWhatItSaw, Deciding
  <1>6. CASE Rollback
    <2>1. op.pc = "rollback" BY <1>6 DEF Rollback
    <2>2. PICK row \in Rows :
            row = intents[op.rec.id] /\ row.before = op.before /\ row.desired = op.desired
      BY <1>2, <2>1
      DEF IInv, Shape, OperationInv, AppliesWhatItSaw, Journalled, TokensInv, AppliedIsOwn,
          ApplySteps
    <2>3. file.owned = row.desired /\ row.before.owned # row.desired
      BY <1>3, <1>4, <1>6, <2>2 DEF Rollback, PutBack
    <2>4. op.desired \in {op.before.owned, route.desired, route.before.owned}
      BY <1>2, <2>1
      DEF IInv, Shape, Operations, Strategies, OperationInv, AppliesWhatItSaw, Deciding
    <2>. QED BY <1>1, <2>2, <2>3, <2>4
  <1>7. CASE ActWrite
    <2>1. op.pc = "actWrite" /\ file = op.before BY <1>1, <1>7 DEF ActWrite
    <2>. QED
        BY <1>1, <2>1 DEF IInv, OperationInv, ActivatesOverCommitted, ActivationSteps
  <1>8. CASE ActUndo \/ ActRecover
    <2>1. file.owned = act.desired
      BY <1>1, <1>2, <1>3, <1>4, <1>8 DEF Shape, ActUndo, ActRecover, PutBack
    <2>2. act.state = "pending"
      BY <1>1, <1>8
      DEF IInv, OperationInv, ActivatesOverCommitted, ActivationSteps, ActUndo, ActRecover
    <2>. QED BY <1>1, <2>1, <2>2 DEF IInv, OperationInv, ActIsMuxvias
  <1>9. CASE Recover
    <2>1. PICK n \in Pending : file' = file
             \/ (file.owned = intents[n].desired
                   /\ file' = [file EXCEPT !.owned = intents[n].before.owned])
      BY <1>1, <1>9 DEF Recover, PutBack
    <2>2. PICK row \in Rows : row = intents[n] BY <1>2 DEF Shape, Pending
    <2>3. file.owned = row.desired /\ row.before.owned # row.desired
      BY <1>3, <1>4, <2>1, <2>2
    <2>4. row.desired \in {row.before.owned, route.desired, route.before.owned}
      BY <1>1, <2>2 DEF IInv, JournalInv, OnePending, BeforesAreKnown
    <2>. QED BY <1>1, <2>3, <2>4
  <1>10. CASE EditUnrelated
    BY <1>1, <1>2, <1>10 DEF EditUnrelated, Shape, Files
  <1>11. CASE file' = file
    BY <1>1, <1>11
  <1>. QED
    <2>1. ASSUME NEW c \in Clients, Session(c) PROVE file' = file
      BY <2>1 DEF Session, Preview, Disable, Deliver, RollbackPreview, Apply
    <2>2. CASE Applying
      BY <1>5, <1>6, <1>11, <2>2
      DEF Applying, Lock, Validate, Reserve, InsertIntent, Commit, Stop, Complete,
          MarkCommitted,
          Settle, Mark
    <2>3. CASE Activate \/ Activating
      BY <1>7, <1>8, <1>11, <2>3 DEF Activating, Activate, ActCommit, ActMark
    <2>4. CASE Starting \/ Crash
      BY <1>8, <1>9, <1>11, <2>4 DEF Starting, Start, Bootstrap, Crash
    <2>5. CASE BeginRequest \/ EndRequest \/ Operator
      BY <1>1, <1>10, <1>11, <2>5 DEF BeginRequest, EndRequest, Operator
    <2>. QED BY <1>11, <2>1, <2>2, <2>3, <2>4, <2>5 DEF Next

(* What is registered is what was last shown, and what the operator wrote   *)
(* into a managed file is written over only by applying the preview that    *)
(* showed it (ShownIsReplaced, of ReconciliationRuntime's tokens).          *)
THEOREM ShownStaysReplaced == Spec => ShownIsReplaced
  <1>1. ASSUME IInv, IInv', [Next]_vars
        PROVE  [TokenIsLatestShown' /\ (Overwritten => op.pc = "write" /\ file = op.rec.seen)]_vars
    <2>1. TokenIsLatestShown'
      BY <1>1
         DEF IInv, TokensInv, TokensAreShown, TokenIsLatestShown, Locked, Registered
    <2>2. CASE Next BY <1>1, <2>1, <2>2, EditsAreReplaced
    <2>. QED BY <1>1, <2>2
  <1>. QED BY <1>1, InitHolds, NextHolds, PTL DEF Spec, ShownIsReplaced
=============================================================================
