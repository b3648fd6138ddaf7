---------------------------- MODULE ServiceProofs ----------------------------
(***************************************************************************)
(* The Routing Service and its sessions.                                   *)
(*                                                                         *)
(* Whatever processes compete for a home and whenever one of them is       *)
(* killed, the one that serves is alone, is reached by the socket path and *)
(* serves a committed takeover or says why not, but for the two ways its   *)
(* code has; and a handover that was answered is handed over.              *)
(*                                                                         *)
(* For any connections, actions, inspections and size of the queues, what  *)
(* clients were told of their actions is true of the receipts, whoever     *)
(* sends an action again and wherever a session breaks, and a disable that *)
(* committed is wound down.                                                *)
(*                                                                         *)
(* For any Targets, session logs, days, databases and files, whatever is   *)
(* changed, requested, written and scanned between any two steps and       *)
(* whenever the service is killed: a backup is one moment of the home, the *)
(* answer of a restore is what it did, the records of requests are of what *)
(* the database declares, and no line of a log is lost or counted twice.   *)
(***************************************************************************)
EXTENDS ServiceLifecycle, ControlSessions, HomeData, FiniteSetTheorems,
        WellFoundedInduction, TLAPS

-----------------------------------------------------------------------------
(* The processes and their clients.                                         *)

(* A process has the lock from before it opens the store until it is gone.   *)
Holding == {"starting", "serving", "closing", "closed", "handing", "leaving"}
LockIsHeld == \A p \in Processes : proc[p] \in Holding <=> lock = p

(* Its sessions end before it does: the accept loop joins them.              *)
Joining == {"serving", "closing"}
SessionsAreServed ==
  \A c \in Clients :
    /\ client[c].at = "queued" => \E p \in Processes : proc[p] = "serving"
    /\ client[c].at \in {"session", "leaving"} => \E p \in Processes : proc[p] \in Joining

(* What a Control Plane may be, and an ended session is one that is over.    *)
ClientType == [at : {"away", "trying", "queued", "session", "leaving", "over"}, spawned : BOOLEAN]
Over == {c \in Clients : client[c].at = "over"}

(* What the store may say of the Target.                                     *)
StoreType == [takeover : BOOLEAN, reports : SUBSET Reports, pending : BOOLEAN]

Shape ==
  /\ proc \in [Processes -> States]
  /\ lock \in Processes \cup {Nobody} /\ path \in Processes \cup {Nobody}
  /\ outcome \in {Nobody, "handover", "stop", "idle"}
  /\ client \in [Clients -> ClientType]
  /\ server \in BOOLEAN /\ store \in StoreType
  /\ loop \in [accepted : BOOLEAN, ended : Nat]
  /\ channel \in [{"handover", "stop"} -> Clients \cup {"empty", "sent"}]

EndedAreOver == loop.ended <= Cardinality(Over)

(* No takeover is committed while a completion stops its model server.       *)
CompletionsBelong ==
  \A c \in completing : c \in Clients /\ client[c].at = "session" /\ ~store.takeover

(* A reserved channel keeps its session, which waits to write the answer.    *)
ChannelsBelong ==
  \A kind \in {"handover", "stop"} :
    channel[kind] \in Clients => client[channel[kind]].at = "leaving"

(* The idle exit is chosen when the sessions are over, so that none of them  *)
(* can ask for a handover after it.                                          *)
IdleIsLast ==
  outcome = "idle" =>
    /\ channel["handover"] # "sent"
    /\ \A p \in Processes : proc[p] \notin Joining

Reachable == \A p \in Processes : Serving(p) => path = p

LifecycleInv ==
  /\ Shape /\ EndedAreOver
  /\ LockIsHeld /\ SessionsAreServed
  /\ CompletionsBelong /\ ChannelsBelong /\ IdleIsLast
  /\ Reachable

-----------------------------------------------------------------------------
LEMMA LifecycleInitHolds == LifecycleInit => LifecycleInv
  <1> SUFFICES ASSUME LifecycleInit PROVE LifecycleInv
    OBVIOUS
  <1>1. Shape
    <2>1. store \in StoreType /\ server \in BOOLEAN
      BY DEF LifecycleInit, StoreType
    <2>2. /\ proc \in [Processes -> States] /\ client \in [Clients -> ClientType]
          /\ loop \in [accepted : BOOLEAN, ended : Nat]
          /\ channel \in [{"handover", "stop"} -> Clients \cup {"empty", "sent"}]
      BY DEF LifecycleInit, States, ClientType, FreshLoop, FreshChannel
    <2>. QED BY <2>1, <2>2 DEF LifecycleInit, Shape
  <1>2. EndedAreOver
    <2>1. Over = {} BY DEF LifecycleInit, Over
    <2>. QED BY <2>1, FS_EmptySet DEF LifecycleInit, FreshLoop, EndedAreOver
  <1>3. LockIsHeld /\ SessionsAreServed /\ Reachable
    BY NamesAssumption
       DEF LifecycleInit, LockIsHeld, Holding, SessionsAreServed, Reachable, Serving
  <1>4. CompletionsBelong /\ ChannelsBelong /\ IdleIsLast
    BY NamesAssumption
       DEF LifecycleInit, CompletionsBelong, ChannelsBelong, IdleIsLast, FreshChannel
  <1>. QED BY <1>1, <1>2, <1>3, <1>4 DEF LifecycleInv

(* Over only grows: the count of ended sessions stays below it.              *)
LEMMA OverGrows ==
  ASSUME LifecycleInv, Over \subseteq Over', loop' \in [accepted : BOOLEAN, ended : Nat],
         loop'.ended <= loop.ended
  PROVE  EndedAreOver'
  <1>1. IsFiniteSet(Over') /\ IsFiniteSet(Over)
    BY NamesAssumption, FS_Subset DEF Over
  <1>2. Cardinality(Over) <= Cardinality(Over') /\ Cardinality(Over) \in Nat /\ Cardinality(Over') \in Nat
    BY <1>1, FS_Subset, FS_CardinalityType
  <1>. QED BY <1>2 DEF LifecycleInv, EndedAreOver, Shape

(* A session that ends is one more.                                          *)
LEMMA OneMoreIsOver ==
  ASSUME LifecycleInv, NEW c \in Clients, c \notin Over, Over' = Over \cup {c},
         loop' \in [accepted : BOOLEAN, ended : Nat], loop'.ended = loop.ended + 1
  PROVE  EndedAreOver'
  <1>1. IsFiniteSet(Over)
    BY NamesAssumption, FS_Subset DEF Over
  <1>2. Cardinality(Over') = Cardinality(Over) + 1 /\ Cardinality(Over) \in Nat
    BY <1>1, FS_AddElement, FS_CardinalityType
  <1>. QED BY <1>2 DEF LifecycleInv, EndedAreOver, Shape

(* What a Control Plane's move does to its record and to the others'.        *)
LEMMA Moving ==
  ASSUME LifecycleInv, NEW c \in Clients, NEW place, ClientAt(c, place),
         place \in {"trying", "queued", "session", "leaving", "over"}
  PROVE  /\ client' \in [Clients -> ClientType]
         /\ client'[c].at = place
         /\ \A d \in Clients \ {c} : client'[d] = client[d]
         /\ client[c].at # "over" => Over \subseteq Over'
         /\ place = "over" => Over' = Over \cup {c}
  <1>1. /\ client' \in [Clients -> ClientType] /\ client'[c].at = place
        /\ \A d \in Clients \ {c} : client'[d] = client[d]
    BY DEF LifecycleInv, Shape, ClientAt, ClientType
  <1>. QED BY <1>1 DEF Over

LEMMA WaitersKeep ==
  ASSUME LifecycleInv, NEW c \in Clients, Arrive(c) \/ Connect(c) \/ GiveUpWaiting(c)
  PROVE  LifecycleInv'
  <1>1. PICK place \in {"trying", "queued", "over"} :
          /\ ClientAt(c, place)
          /\ place = "queued" => path # Nobody /\ Serving(path)
    BY DEF Arrive, Connect, GiveUpWaiting
  <1>2. client[c].at \in {"away", "trying"}
        /\ UNCHANGED <<proc, lock, path, server, store, loop, channel, outcome, completing>>
    BY DEF Arrive, Connect, GiveUpWaiting
  <1>3. /\ client' \in [Clients -> ClientType] /\ client'[c].at = place /\ Over \subseteq Over'
        /\ \A d \in Clients \ {c} : client'[d] = client[d]
    BY <1>1, <1>2, Moving
  <1>4. Shape' /\ EndedAreOver' BY <1>2, <1>3, OverGrows DEF LifecycleInv, Shape
  <1>5. LockIsHeld' /\ IdleIsLast' /\ Reachable'
      BY <1>2 DEF LifecycleInv, LockIsHeld, IdleIsLast, Reachable, Serving
  <1>6. SessionsAreServed'
      BY <1>1, <1>2, <1>3 DEF LifecycleInv, Shape, SessionsAreServed, Serving
  <1>7. CompletionsBelong' /\ ChannelsBelong'
    BY <1>2, <1>3 DEF LifecycleInv, CompletionsBelong, ChannelsBelong
  <1>. QED BY <1>4, <1>5, <1>6, <1>7 DEF LifecycleInv

LEMMA SpawnKeeps ==
  ASSUME LifecycleInv, NEW c \in Clients, NEW p \in Processes, SpawnService(c, p)
  PROVE  LifecycleInv'
  <1>1. /\ proc' = [proc EXCEPT ![p] = "acquiring"] /\ proc[p] = "unused"
        /\ client' = [client EXCEPT ![c].spawned = TRUE]
        /\ UNCHANGED <<lock, path, server, store, loop, channel, outcome, completing>>
    BY DEF SpawnService, Move
  <1>2. client' \in [Clients -> ClientType] /\ \A d \in Clients : client'[d].at = client[d].at
    BY <1>1 DEF LifecycleInv, Shape, ClientType
  <1>3. Shape' BY <1>1, <1>2 DEF LifecycleInv, Shape, States
  <1>4. EndedAreOver' BY <1>1, <1>2, OverGrows DEF LifecycleInv, Shape, Over
  <1>5. LockIsHeld' BY <1>1 DEF LifecycleInv, Shape, LockIsHeld, Holding
  <1>6. SessionsAreServed'
      BY <1>1, <1>2 DEF LifecycleInv, Shape, SessionsAreServed, Joining
  <1>7. CompletionsBelong' BY <1>1, <1>2 DEF LifecycleInv, CompletionsBelong
  <1>8. ChannelsBelong' BY <1>1, <1>2 DEF LifecycleInv, ChannelsBelong
  <1>9. IdleIsLast' /\ Reachable'
      BY <1>1 DEF LifecycleInv, Shape, IdleIsLast, Joining, Reachable, Serving
  <1>. QED BY <1>3, <1>4, <1>5, <1>6, <1>7, <1>8, <1>9 DEF LifecycleInv

(* A session has one process, which holds the lock and serves or joins it.   *)
LEMMA Served ==
  ASSUME LifecycleInv, NEW c \in Clients, client[c].at \in {"session", "leaving"}
  PROVE  outcome # "idle"
  BY DEF LifecycleInv, SessionsAreServed, IdleIsLast

(* The steps of a session that change the store or the model server.         *)
Managing(c) ==
  \/ Enable(c) \/ FailActivation(c) \/ FailHandoff(c) \/ LoseHandoff(c)
  \/ FindTrouble(c) \/ ReapplyConfiguration(c) \/ Leave(c) \/ Disable(c) \/ CompleteDisable(c)

LEMMA StoreOperators ==
  ASSUME store \in StoreType
  PROVE  /\ \A report \in Reports : Report(report) \in StoreType
         /\ {WithIntent, Enabled, Disabled} \subseteq StoreType
         /\ [Enabled EXCEPT !.reports = @ \cup {"recovery"}] \in StoreType
         /\ [Disabled EXCEPT !.reports = @ \cup {"recovery"}] \in StoreType
         /\ [store EXCEPT !.reports = @ \ {"drift"}] \in StoreType
         /\ \A report \in Reports : Report(report).takeover = store.takeover
         /\ Recovered \subseteq StoreType
         /\ ~Disabled.takeover
  BY DEF StoreType, Reports, Report, WithIntent, Enabled, Disabled, Recovered

LEMMA TakeoversKeep == ASSUME LifecycleInv, NEW c \in Clients, Managing(c) PROVE LifecycleInv'
  <1>1. UNCHANGED <<proc, lock, path, loop, channel, outcome, client>>
    BY DEF Managing, Enable, FailActivation, FailHandoff, LoseHandoff, FindTrouble,
           ReapplyConfiguration, Leave, Disable, CompleteDisable
  <1>2. store' \in StoreType /\ server' \in BOOLEAN
    <2>1. store \in StoreType /\ server \in BOOLEAN BY DEF LifecycleInv, Shape
    <2>2. CASE Enable(c) \/ FailActivation(c) \/ FailHandoff(c) \/ LoseHandoff(c)
      BY <2>1, <2>2, StoreOperators
         DEF Enable, FailActivation, FailHandoff, LoseHandoff, Reports
    <2>3. CASE FindTrouble(c) \/ ReapplyConfiguration(c) \/ Leave(c)
      BY <2>1, <2>3, StoreOperators DEF FindTrouble, ReapplyConfiguration, Leave, Reports
    <2>4. CASE Disable(c) \/ CompleteDisable(c)
      BY <2>1, <2>4, StoreOperators DEF Disable, CompleteDisable, Reports
    <2>. QED BY <2>2, <2>3, <2>4 DEF Managing
  <1>3. Shape' BY <1>1, <1>2 DEF LifecycleInv, Shape
  <1>4. EndedAreOver' BY <1>1 DEF LifecycleInv, EndedAreOver, Over
  <1>5. LockIsHeld' /\ SessionsAreServed' /\ ChannelsBelong' /\ IdleIsLast' /\ Reachable'
    BY <1>1
       DEF LifecycleInv, LockIsHeld, SessionsAreServed, ChannelsBelong, IdleIsLast, Reachable,
           Serving
  <1>6. CompletionsBelong'
    <2>1. CASE completing' = {}
      BY <2>1 DEF CompletionsBelong
    <2>2. CASE Disable(c)
      <3>1. completing' = {c} /\ client[c].at = "session" /\ store' = Disabled
        BY <2>2 DEF Disable, AtGate, InSession
      <3>2. ~store'.takeover
        BY <3>1, StoreOperators DEF LifecycleInv, Shape
      <3>. QED BY <1>1, <3>1, <3>2 DEF CompletionsBelong
    <2>3. CASE CompleteDisable(c)
      <3>1. store' \in {store, Report("recovery")} /\ completing' \subseteq completing
        BY <2>3 DEF CompleteDisable
      <3>2. store'.takeover = store.takeover
        BY <3>1, StoreOperators DEF LifecycleInv, Shape, Reports
      <3>. QED BY <1>1, <3>1, <3>2 DEF LifecycleInv, CompletionsBelong
    <2>4. CASE ~Disable(c) /\ ~CompleteDisable(c)
      <3>1. completing = {} /\ completing' = completing
        BY <2>4
           DEF Managing, Enable, FailActivation, FailHandoff, LoseHandoff, FindTrouble,
               ReapplyConfiguration, Leave, Activating, AtGate
      <3>. QED BY <2>1, <3>1
    <2>. QED BY <2>2, <2>3, <2>4
  <1>. QED BY <1>3, <1>4, <1>5, <1>6 DEF LifecycleInv

LEMMA ReserveKeeps ==
  ASSUME LifecycleInv, NEW c \in Clients, NEW kind \in {"handover", "stop"}, Reserve(c, kind)
  PROVE  LifecycleInv'
  <1>1. /\ client[c].at = "session" /\ c \notin completing
        /\ channel' = [channel EXCEPT ![kind] = c] /\ ClientAt(c, "leaving")
        /\ UNCHANGED <<proc, lock, path, server, store, loop, outcome, completing>>
    BY DEF Reserve, InSession
  <1>2. /\ client' \in [Clients -> ClientType] /\ client'[c].at = "leaving" /\ Over \subseteq Over'
        /\ \A d \in Clients \ {c} : client'[d] = client[d]
    BY <1>1, Moving
  <1>3. Shape' /\ EndedAreOver' BY <1>1, <1>2, OverGrows DEF LifecycleInv, Shape
  <1>4. LockIsHeld' /\ Reachable'
      BY <1>1 DEF LifecycleInv, LockIsHeld, Reachable, Serving
  <1>5. SessionsAreServed' BY <1>1, <1>2 DEF LifecycleInv, SessionsAreServed
  <1>6. CompletionsBelong' BY <1>1, <1>2 DEF LifecycleInv, CompletionsBelong
  <1>7. ChannelsBelong' BY <1>1, <1>2 DEF LifecycleInv, Shape, ChannelsBelong
  <1>8. IdleIsLast' BY <1>1, Served DEF LifecycleInv, IdleIsLast
  <1>. QED BY <1>3, <1>4, <1>5, <1>6, <1>7, <1>8 DEF LifecycleInv

LEMMA AnswerKeeps ==
  ASSUME LifecycleInv, NEW c \in Clients, NEW kind \in {"handover", "stop"}, AnswerReserved(c, kind)
  PROVE  LifecycleInv'
  <1>1. PICK result \in {"sent", "empty"} : channel' = [channel EXCEPT ![kind] = result]
    BY DEF AnswerReserved
  <1>2. UNCHANGED <<proc, lock, path, server, store, loop, outcome, client, completing>>
    BY DEF AnswerReserved
  <1>3. client[c].at = "leaving" BY DEF AnswerReserved, LifecycleInv, ChannelsBelong
  <1>4. Shape' BY <1>1, <1>2 DEF LifecycleInv, Shape
  <1>5. EndedAreOver' BY <1>2 DEF LifecycleInv, EndedAreOver, Over
  <1>6. LockIsHeld' /\ SessionsAreServed' /\ CompletionsBelong' /\ Reachable'
    BY <1>2
       DEF LifecycleInv, LockIsHeld, SessionsAreServed, CompletionsBelong, Reachable,
           Serving
  <1>7. ChannelsBelong'
      BY <1>1, <1>2, NamesAssumption DEF LifecycleInv, Shape, ChannelsBelong
  <1>8. IdleIsLast' BY <1>2, <1>3, Served DEF LifecycleInv, IdleIsLast
  <1>. QED BY <1>4, <1>5, <1>6, <1>7, <1>8 DEF LifecycleInv

LEMMA EndSessionKeeps ==
  ASSUME LifecycleInv, NEW c \in Clients, EndSession(c)
  PROVE  LifecycleInv'
  <1>1. /\ client[c].at \in {"session", "leaving"} /\ c \notin completing
        /\ \A kind \in {"handover", "stop"} : channel[kind] # c
        /\ ClientAt(c, "over") /\ loop' = [loop EXCEPT !.ended = @ + 1]
        /\ UNCHANGED <<proc, lock, path, server, store, channel, outcome, completing>>
    BY DEF EndSession, LifecycleInv, Shape
  <1>2. /\ client' \in [Clients -> ClientType] /\ client'[c].at = "over" /\ Over' = Over \cup {c}
        /\ \A d \in Clients \ {c} : client'[d] = client[d]
    BY <1>1, Moving
  <1>3. loop' \in [accepted : BOOLEAN, ended : Nat] /\ loop'.ended = loop.ended + 1
    BY <1>1 DEF LifecycleInv, Shape
  <1>4. Shape' BY <1>1, <1>2, <1>3 DEF LifecycleInv, Shape
  <1>5. EndedAreOver' BY <1>1, <1>2, <1>3, OneMoreIsOver DEF Over
  <1>6. LockIsHeld' /\ Reachable' /\ IdleIsLast'
    BY <1>1 DEF LifecycleInv, LockIsHeld, Reachable, Serving, IdleIsLast
  <1>7. SessionsAreServed' BY <1>1, <1>2 DEF LifecycleInv, SessionsAreServed
  <1>8. CompletionsBelong' BY <1>1, <1>2 DEF LifecycleInv, CompletionsBelong
  <1>9. ChannelsBelong' BY <1>1, <1>2 DEF LifecycleInv, ChannelsBelong
  <1>. QED BY <1>4, <1>5, <1>6, <1>7, <1>8, <1>9 DEF LifecycleInv

(* Another process does not hold the lock, and neither serves nor joins.     *)
LEMMA OnlyTheOwner ==
  ASSUME LifecycleInv, NEW p \in Processes, proc[p] \in Holding
  PROVE  lock = p /\ \A q \in Processes \ {p} : proc[q] \notin Holding
  BY NamesAssumption DEF LifecycleInv, LockIsHeld

LEMMA AcquireKeeps == ASSUME LifecycleInv, NEW p \in Processes, Acquire(p) PROVE LifecycleInv'
  <1>1. /\ proc[p] = "acquiring"
        /\ lock' = IF lock = Nobody THEN p ELSE lock
        /\ proc' = [proc EXCEPT ![p] = IF lock = Nobody THEN "starting" ELSE "gone"]
        /\ UNCHANGED <<path, server, store, loop, channel, outcome, client, completing>>
    BY DEF Acquire, Move
  <1>2. Shape' BY <1>1 DEF LifecycleInv, Shape, States
  <1>3. EndedAreOver' BY <1>1 DEF LifecycleInv, EndedAreOver, Over
  <1>4. LockIsHeld'
      BY <1>1, NamesAssumption DEF LifecycleInv, Shape, LockIsHeld, Holding
  <1>5. SessionsAreServed' BY <1>1 DEF LifecycleInv, Shape, SessionsAreServed, Joining
  <1>6. CompletionsBelong' /\ ChannelsBelong'
      BY <1>1 DEF LifecycleInv, CompletionsBelong, ChannelsBelong
  <1>7. IdleIsLast' /\ Reachable'
      BY <1>1 DEF LifecycleInv, Shape, IdleIsLast, Joining, Reachable, Serving
  <1>. QED BY <1>2, <1>3, <1>4, <1>5, <1>6, <1>7 DEF LifecycleInv

(* A process that starts has no sessions yet: those of the one before ended. *)
LEMMA ServeKeeps == ASSUME LifecycleInv, NEW p \in Processes, Serve(p) PROVE LifecycleInv'
  <1>1. /\ proc[p] = "starting" /\ proc' = [proc EXCEPT ![p] = "serving"]
        /\ store' \in Recovered /\ server' \in BOOLEAN /\ path' = p /\ loop' = FreshLoop /\ channel' = FreshChannel
        /\ outcome' = Nobody
        /\ UNCHANGED <<lock, client, completing>>
    BY DEF Serve, Move
  <1>2. lock = p /\ \A q \in Processes \ {p} : proc[q] \notin Holding
    BY <1>1, OnlyTheOwner DEF Holding
  <1>11. store' \in StoreType /\ store'.takeover = store.takeover
    BY <1>1, StoreOperators DEF LifecycleInv, Shape, Recovered
  <1>3. Shape' BY <1>1, <1>11 DEF LifecycleInv, Shape, States, FreshLoop, FreshChannel
  <1>4. EndedAreOver'
    <2>1. IsFiniteSet(Over) BY NamesAssumption, FS_Subset DEF Over
    <2>2. Cardinality(Over) \in Nat BY <2>1, FS_CardinalityType
    <2>. QED BY <1>1, <2>2 DEF EndedAreOver, FreshLoop, Over
  <1>5. LockIsHeld' BY <1>1 DEF LifecycleInv, Shape, LockIsHeld, Holding
  <1>6. SessionsAreServed' BY <1>1 DEF LifecycleInv, Shape, SessionsAreServed, Joining
  <1>7. CompletionsBelong' BY <1>1, <1>11 DEF LifecycleInv, CompletionsBelong
  <1>8. ChannelsBelong' BY <1>1, NamesAssumption DEF ChannelsBelong, FreshChannel
  <1>9. IdleIsLast' BY <1>1, NamesAssumption DEF IdleIsLast
  <1>10. Reachable' BY <1>1, <1>2 DEF LifecycleInv, Shape, Reachable, Serving, Holding
  <1>. QED BY <1>3, <1>4, <1>5, <1>6, <1>7, <1>8, <1>9, <1>10 DEF LifecycleInv

(* A process that is gone, by a failed start or by its exit, leaves nothing. *)
LEMMA LeavingKeeps ==
  ASSUME LifecycleInv, NEW p \in Processes, FailToServe(p) \/ Exit(p)
  PROVE  LifecycleInv'
  <1>1. /\ proc[p] \in {"starting", "leaving"} /\ proc' = [proc EXCEPT ![p] = "gone"]
        /\ lock' = Nobody /\ store' \in Recovered \cup {store}
        /\ UNCHANGED <<path, server, loop, channel, outcome, client, completing>>
    BY DEF FailToServe, Exit, Move
  <1>2. lock = p /\ \A q \in Processes \ {p} : proc[q] \notin Holding
    BY <1>1, OnlyTheOwner DEF Holding
  <1>9. store' \in StoreType /\ store'.takeover = store.takeover
    BY <1>1, StoreOperators DEF LifecycleInv, Shape, Recovered
  <1>3. Shape' BY <1>1, <1>9 DEF LifecycleInv, Shape, States
  <1>4. EndedAreOver' BY <1>1 DEF LifecycleInv, EndedAreOver, Over
  <1>5. LockIsHeld'
      BY <1>1, <1>2, NamesAssumption DEF LifecycleInv, Shape, LockIsHeld, Holding
  <1>6. SessionsAreServed' BY <1>1 DEF LifecycleInv, Shape, SessionsAreServed, Joining
  <1>7. CompletionsBelong' /\ ChannelsBelong'
      BY <1>1, <1>9 DEF LifecycleInv, CompletionsBelong, ChannelsBelong
  <1>8. IdleIsLast' /\ Reachable'
      BY <1>1 DEF LifecycleInv, Shape, IdleIsLast, Joining, Reachable, Serving
  <1>. QED BY <1>3, <1>4, <1>5, <1>6, <1>7, <1>8 DEF LifecycleInv

LEMMA AcceptSessionKeeps ==
  ASSUME LifecycleInv, NEW p \in Processes, NEW c \in Clients, AcceptSession(p, c)
  PROVE  LifecycleInv'
  <1>1. /\ Serving(p) /\ client[c].at = "queued" /\ ClientAt(c, "session")
        /\ loop' = [loop EXCEPT !.accepted = TRUE]
        /\ UNCHANGED <<proc, lock, path, server, store, channel, outcome, completing>>
    BY DEF AcceptSession
  <1>2. /\ client' \in [Clients -> ClientType] /\ client'[c].at = "session" /\ Over \subseteq Over'
        /\ \A d \in Clients \ {c} : client'[d] = client[d]
    BY <1>1, Moving
  <1>3. loop' \in [accepted : BOOLEAN, ended : Nat] /\ loop'.ended = loop.ended
    BY <1>1 DEF LifecycleInv, Shape
  <1>4. loop'.ended <= loop.ended BY <1>3 DEF LifecycleInv, Shape
  <1>5. Shape' /\ EndedAreOver'
      BY <1>1, <1>2, <1>3, <1>4, OverGrows DEF LifecycleInv, Shape
  <1>6. LockIsHeld' /\ Reachable' /\ IdleIsLast'
    BY <1>1 DEF LifecycleInv, LockIsHeld, Reachable, Serving, IdleIsLast
  <1>7. SessionsAreServed'
      BY <1>1, <1>2 DEF LifecycleInv, SessionsAreServed, Serving, Joining
  <1>8. CompletionsBelong' BY <1>1, <1>2 DEF LifecycleInv, CompletionsBelong
  <1>9. ChannelsBelong' BY <1>1, <1>2 DEF LifecycleInv, ChannelsBelong
  <1>. QED BY <1>5, <1>6, <1>7, <1>8, <1>9 DEF LifecycleInv

(* The end of the accept loop: the connections no one accepted are over.     *)
LEMMA ListenerDrops ==
  ASSUME LifecycleInv, NEW p \in Processes, Serving(p), DropListener(p),
         loop' \in [accepted : BOOLEAN, ended : Nat], loop'.ended <= loop.ended,
         UNCHANGED <<lock, path, server, store, channel, outcome, completing>>
  PROVE  LifecycleInv'
  <1>1. proc' = [proc EXCEPT ![p] = "closing"] /\ proc[p] = "serving"
    BY DEF DropListener, Move, Serving
  <1>2. \A c \in Clients :
          client'[c] = IF client[c].at = "queued" THEN [client[c] EXCEPT !.at = "over"] ELSE client[c]
    BY DEF DropListener
  <1>3. client' \in [Clients -> ClientType]
    BY DEF DropListener, LifecycleInv, Shape, ClientType
  <1>4. \A c \in Clients : client'[c].at = IF client[c].at = "queued" THEN "over" ELSE client[c].at
    BY <1>2 DEF LifecycleInv, Shape, ClientType
  <1>5. Shape' BY <1>1, <1>3 DEF LifecycleInv, Shape, States
  <1>6. EndedAreOver' BY <1>4, OverGrows DEF Over
  <1>7. LockIsHeld' BY <1>1 DEF LifecycleInv, Shape, LockIsHeld, Holding
  <1>8. SessionsAreServed'
      BY <1>1, <1>4 DEF LifecycleInv, Shape, SessionsAreServed, Joining
  <1>9. CompletionsBelong' BY <1>4 DEF LifecycleInv, CompletionsBelong
  <1>10. ChannelsBelong' BY <1>4 DEF LifecycleInv, ChannelsBelong
  <1>11. IdleIsLast' /\ Reachable'
    BY <1>1 DEF LifecycleInv, Shape, IdleIsLast, Joining, Reachable, Serving
  <1>. QED BY <1>5, <1>6, <1>7, <1>8, <1>9, <1>10, <1>11 DEF LifecycleInv

LEMMA ReapSessionsKeeps == ASSUME LifecycleInv, NEW p \in Processes, ReapSessions(p) PROVE LifecycleInv'
  <1>1. /\ Serving(p) /\ loop.ended > 0 /\ loop' = [loop EXCEPT !.ended = @ - 1]
        /\ UNCHANGED <<lock, path, server, store, channel, outcome, completing>>
    BY DEF ReapSessions
  <1>2. loop' \in [accepted : BOOLEAN, ended : Nat] /\ loop'.ended <= loop.ended
    <2>1. loop.ended \in Nat /\ loop.accepted \in BOOLEAN BY DEF LifecycleInv, Shape
    <2>2. loop'.ended = loop.ended - 1 /\ loop'.accepted = loop.accepted
      BY <1>1 DEF LifecycleInv, Shape
    <2>3. loop' \in [accepted : BOOLEAN, ended : Nat]
      BY <1>1, <2>1, loop.ended - 1 \in Nat DEF LifecycleInv, Shape
    <2>. QED BY <2>1, <2>2, <2>3
  <1>3. CASE DropListener(p) BY <1>1, <1>2, <1>3, ListenerDrops
  <1>4. CASE UNCHANGED <<proc, client>>
    <2>1. Shape' BY <1>1, <1>2, <1>4 DEF LifecycleInv, Shape
    <2>2. EndedAreOver' BY <1>2, <1>4, OverGrows DEF Over
    <2>3. LockIsHeld' /\ SessionsAreServed' /\ CompletionsBelong' /\ ChannelsBelong' /\ IdleIsLast' /\ Reachable'
      BY <1>1, <1>4 DEF LifecycleInv, LockIsHeld, SessionsAreServed, CompletionsBelong, ChannelsBelong,
                        IdleIsLast, Reachable, Serving
    <2>. QED BY <2>1, <2>2, <2>3 DEF LifecycleInv
  <1>. QED BY <1>3, <1>4 DEF ReapSessions

LEMMA ShutdownKeeps == ASSUME LifecycleInv, NEW p \in Processes, Shutdown(p) PROVE LifecycleInv'
  <1>1. loop.ended \in Nat BY DEF LifecycleInv, Shape
  <1>. QED BY <1>1, ListenerDrops DEF Shutdown, LifecycleInv, Shape

(* A handover is seen before the idle exit, which is seen when all sessions  *)
(* are over.                                                                 *)
LEMMA ChooseOutcomeKeeps == ASSUME LifecycleInv, NEW p \in Processes, ChooseOutcome(p) PROVE LifecycleInv'
  <1>1. /\ Biased(p)
        /\ UNCHANGED <<proc, lock, path, server, store, loop, channel, client, completing>>
    BY DEF ChooseOutcome
  <1>2. outcome' \in {"handover", "stop", "idle"}
        /\ (outcome' = "idle" => channel["handover"] # "sent" /\ proc[p] = "closed")
    BY <1>1 DEF Biased
  <1>3. Shape' BY <1>1, <1>2 DEF LifecycleInv, Shape
  <1>4. EndedAreOver' BY <1>1 DEF LifecycleInv, EndedAreOver, Over
  <1>5. LockIsHeld' /\ SessionsAreServed' /\ CompletionsBelong' /\ ChannelsBelong' /\ Reachable'
    BY <1>1
       DEF LifecycleInv, LockIsHeld, SessionsAreServed, CompletionsBelong,
           ChannelsBelong, Reachable, Serving
  <1>6. IdleIsLast'
    BY <1>1, <1>2, OnlyTheOwner DEF IdleIsLast, Holding, Joining
  <1>. QED BY <1>3, <1>4, <1>5, <1>6 DEF LifecycleInv

(* The steps from the end of the accept loop to the exec or the exit.        *)
LEMMA EndingKeeps ==
  ASSUME LifecycleInv, NEW p \in Processes, Close(p) \/ StopModels(p) \/ Exec(p)
  PROVE  LifecycleInv'
  <1>1. PICK place \in {"closed", "handing", "leaving", "starting"} : proc' = [proc EXCEPT ![p] = place]
    BY DEF Close, StopModels, Exec, Move
  <1>2. /\ proc[p] \in {"closing", "closed", "handing"} /\ (proc[p] = "closing" => SessionClients = {})
        /\ path' \in {path, Nobody}
        /\ server' \in {server, FALSE}
        /\ UNCHANGED <<lock, store, loop, channel, outcome, client, completing>>
    BY DEF Close, StopModels, Exec
  <1>3. lock = p /\ \A q \in Processes \ {p} : proc[q] \notin Holding
    BY <1>2, OnlyTheOwner DEF Holding
  <1>4. Shape' BY <1>1, <1>2 DEF LifecycleInv, Shape, States
  <1>5. EndedAreOver' BY <1>2 DEF LifecycleInv, EndedAreOver, Over
  <1>6. LockIsHeld' BY <1>1, <1>2 DEF LifecycleInv, Shape, LockIsHeld, Holding
  <1>7. SessionsAreServed' 
    BY <1>1, <1>2, <1>3
       DEF LifecycleInv, Shape, SessionsAreServed, SessionClients, Joining, Holding
  <1>8. CompletionsBelong' /\ ChannelsBelong'
      BY <1>2 DEF LifecycleInv, CompletionsBelong, ChannelsBelong
  <1>9. IdleIsLast' BY <1>1, <1>2 DEF LifecycleInv, Shape, IdleIsLast, Joining
  <1>10. Reachable'
      BY <1>1, <1>2, <1>3 DEF LifecycleInv, Shape, Reachable, Serving, Holding
  <1>. QED BY <1>4, <1>5, <1>6, <1>7, <1>8, <1>9, <1>10 DEF LifecycleInv

LEMMA CrashKeeps == ASSUME LifecycleInv, NEW p \in Processes, Crash(p) PROVE LifecycleInv'
  <1>1. /\ proc[p] \notin {"unused", "gone"} /\ proc' = [proc EXCEPT ![p] = "gone"]
        /\ lock' = IF lock = p THEN Nobody ELSE lock
        /\ path' = path
    BY DEF Crash, Move
  <1>5. store' \in StoreType /\ (lock # p => store' = store)
    <2>1. store' \in {store, WithIntent} /\ (lock # p => store' = store)
      BY DEF Crash
    <2>. QED BY <2>1, StoreOperators DEF LifecycleInv, Shape
  <1>2. LockIsHeld'
      BY <1>1, NamesAssumption DEF LifecycleInv, Shape, LockIsHeld, Holding
  <1>3. CASE lock = p
    <2>1. /\ server' = FALSE /\ completing' = {} /\ channel' = FreshChannel /\ outcome' = Nobody
          /\ loop' = FreshLoop
          /\ client' = [c \in Clients |->
               IF client[c].at \in {"queued", "session", "leaving"}
                 THEN [client[c] EXCEPT !.at = "over"] ELSE client[c]]
      BY <1>3 DEF Crash
    <2>2. client' \in [Clients -> ClientType]
        BY <2>1 DEF LifecycleInv, Shape, ClientType
    <2>3. \A c \in Clients : client'[c].at \notin {"queued", "session", "leaving"}
      BY <2>1 DEF LifecycleInv, Shape, ClientType
    <2>4. Shape'
      <3>1. /\ proc' \in [Processes -> States] /\ lock' \in Processes \cup {Nobody}
            /\ path' \in Processes \cup {Nobody}
        BY <1>1 DEF LifecycleInv, Shape, States
      <3>2. /\ loop' \in [accepted : BOOLEAN, ended : Nat]
            /\ channel' \in [{"handover", "stop"} -> Clients \cup {"empty", "sent"}]
        BY <2>1 DEF FreshLoop, FreshChannel
      <3>. QED BY <1>5, <2>1, <2>2, <3>1, <3>2 DEF Shape
    <2>5. EndedAreOver'
      <3>1. IsFiniteSet(Over') BY NamesAssumption, FS_Subset DEF Over
      <3>2. Cardinality(Over') \in Nat BY <3>1, FS_CardinalityType
      <3>. QED BY <2>1, <3>2 DEF EndedAreOver, FreshLoop
    <2>6. SessionsAreServed' BY <2>3 DEF SessionsAreServed
    <2>7. CompletionsBelong' BY <2>1 DEF CompletionsBelong
    <2>8. ChannelsBelong' BY <2>1, NamesAssumption DEF ChannelsBelong, FreshChannel
    <2>9. IdleIsLast' BY <2>1, NamesAssumption DEF IdleIsLast
    <2>10. \A q \in Processes : proc'[q] # "serving"
      BY <1>1, <1>2, <1>3, NamesAssumption DEF LockIsHeld, Holding
    <2>11. Reachable' BY <2>10 DEF Reachable, Serving
    <2>. QED BY <1>2, <2>4, <2>5, <2>6, <2>7, <2>8, <2>9, <2>11 DEF LifecycleInv
  <1>4. CASE lock # p
    <2>1. UNCHANGED <<server, completing, channel, outcome, loop, client>>
        BY <1>4 DEF Crash
    <2>2. proc[p] \notin Holding BY <1>4 DEF LifecycleInv, LockIsHeld
    <2>3. Shape' BY <1>1, <1>5, <2>1 DEF LifecycleInv, Shape, States
    <2>4. EndedAreOver' BY <2>1 DEF LifecycleInv, EndedAreOver, Over
    <2>5. SessionsAreServed'
        BY <1>1, <2>1, <2>2 DEF LifecycleInv, Shape, SessionsAreServed, Joining, Holding
    <2>6. CompletionsBelong' /\ ChannelsBelong'
      BY <1>1, <1>4, <1>5, <2>1 DEF LifecycleInv, CompletionsBelong, ChannelsBelong
    <2>7. IdleIsLast' BY <1>1, <2>1 DEF LifecycleInv, Shape, IdleIsLast, Joining
    <2>8. Reachable' BY <1>1, <2>1 DEF LifecycleInv, Shape, Reachable, Serving
    <2>. QED BY <1>2, <2>3, <2>4, <2>5, <2>6, <2>7, <2>8 DEF LifecycleInv
  <1>. QED BY <1>3, <1>4

-----------------------------------------------------------------------------
LEMMA LifecycleNextHolds == LifecycleInv /\ [LifecycleNext]_lifecycleVars => LifecycleInv'
  <1> SUFFICES ASSUME LifecycleInv, [LifecycleNext]_lifecycleVars PROVE LifecycleInv'
    OBVIOUS
  <1>1. ASSUME NEW c \in Clients, Arrive(c) \/ Connect(c) \/ GiveUpWaiting(c) PROVE LifecycleInv'
    BY <1>1, WaitersKeep
  <1>2. ASSUME NEW c \in Clients, NEW p \in Processes, SpawnService(c, p) PROVE LifecycleInv'
    BY <1>2, SpawnKeeps
  <1>3. ASSUME NEW c \in Clients, Managing(c) PROVE LifecycleInv'
    BY <1>3, TakeoversKeep
  <1>4. ASSUME NEW c \in Clients, EndSession(c) PROVE LifecycleInv'
    BY <1>4, EndSessionKeeps
  <1>5. ASSUME NEW c \in Clients, NEW kind \in {"handover", "stop"}, Reserve(c, kind) \/ AnswerReserved(c, kind)
        PROVE  LifecycleInv'
    BY <1>5, ReserveKeeps, AnswerKeeps
  <1>6. ASSUME NEW p \in Processes, Run(p) PROVE LifecycleInv'
    BY <1>6, AcquireKeeps, ServeKeeps, ReapSessionsKeeps, ChooseOutcomeKeeps, ShutdownKeeps, EndingKeeps, LeavingKeeps,
       AcceptSessionKeeps DEF Run
  <1>7. ASSUME NEW p \in Processes, FailToServe(p) \/ Crash(p) PROVE LifecycleInv'
    BY <1>7, LeavingKeeps, CrashKeeps
  <1>8. CASE UNCHANGED lifecycleVars
    <2>1. UNCHANGED <<proc, lock, path, server, store, loop, channel, outcome, client, completing>>
      BY <1>8 DEF lifecycleVars
    <2>. QED BY <2>1 DEF LifecycleInv, Shape, EndedAreOver, Over, LockIsHeld, SessionsAreServed,
                CompletionsBelong, ChannelsBelong, IdleIsLast, Reachable, Serving
  <1>. QED BY <1>1, <1>2, <1>3, <1>4, <1>5, <1>6, <1>7, <1>8 DEF LifecycleNext, Managing

LEMMA LifecycleInvariant == LifecycleSpec => []LifecycleInv
  BY LifecycleInitHolds, LifecycleNextHolds, PTL DEF LifecycleSpec

(* The invariant of the run: at most one process serves a home, the socket   *)
(* path names it and it holds the lock, whatever is killed and however often *)
(* the service is handed over.                                               *)
THEOREM ServerStaysReachable == LifecycleSpec => []ServerIsReachable
  <1>1. LifecycleInv => ServerIsReachable
    <2> SUFFICES ASSUME LifecycleInv PROVE ServerIsReachable
      OBVIOUS
    <2>1. loop.ended \in 0 .. Cardinality(Clients)
      <3>1. IsFiniteSet(Over) /\ Cardinality(Over) <= Cardinality(Clients)
        BY NamesAssumption, FS_Subset DEF Over
      <3>2. Cardinality(Over) \in Nat /\ Cardinality(Clients) \in Nat
        BY <3>1, NamesAssumption, FS_CardinalityType
      <3>. QED BY <3>1, <3>2 DEF LifecycleInv, Shape, EndedAreOver
    <2>2. completing \subseteq Clients BY DEF LifecycleInv, CompletionsBelong
    <2>3. TypeOK BY <2>1, <2>2 DEF LifecycleInv, Shape, TypeOK, ClientType, StoreType
    <2>. QED
        BY <2>3
           DEF ServerIsReachable, LifecycleInv, Reachable, LockIsHeld, Serving, Holding
  <1>. QED BY <1>1, LifecycleInvariant, PTL

(* What makes a takeover one that nobody serves and nothing tells of.        *)
LEMMA UnservedByKnownSteps ==
  ASSUME LifecycleInv, [LifecycleNext]_lifecycleVars, SilentlyUnserved', ~SilentlyUnserved
  PROVE  \E c \in Clients : ReapplyConfiguration(c) \/ LoseHandoff(c)
  <1>1. PICK q \in Processes : proc'[q] = "serving"
    BY DEF SilentlyUnserved, Serving
  <1>2. store'.takeover /\ ~server' /\ store'.reports = {} /\ ~store'.pending
    BY DEF SilentlyUnserved
  <1>3. ASSUME proc[q] = "serving", UNCHANGED <<server, store>> PROVE FALSE
    BY <1>2, <1>3 DEF SilentlyUnserved, Serving
  <1>4. ASSUME NEW c \in Clients,
               Arrive(c) \/ Connect(c) \/ GiveUpWaiting(c) \/ EndSession(c)
                 \/ \E kind \in {"handover", "stop"} : Reserve(c, kind) \/ AnswerReserved(c, kind)
        PROVE  FALSE
    BY <1>1, <1>3, <1>4 DEF Arrive, Connect, GiveUpWaiting, EndSession, Reserve, AnswerReserved
  <1>5. ASSUME NEW c \in Clients, NEW p \in Processes, SpawnService(c, p) PROVE FALSE
    BY <1>1, <1>3, <1>5 DEF SpawnService, Move, LifecycleInv, Shape
  <1>6. ASSUME NEW c \in Clients, Managing(c), ~ReapplyConfiguration(c), ~LoseHandoff(c) PROVE FALSE
    <2>1. store \in StoreType /\ proc[q] = "serving"
      BY <1>1, <1>6
         DEF LifecycleInv, Shape, Managing, Enable, FailActivation, FailHandoff, FindTrouble, Leave,
             Disable, CompleteDisable
    <2>2. CASE Enable(c)
      BY <1>2, <2>2 DEF Enable
    <2>3. CASE FailActivation(c) \/ FailHandoff(c) \/ FindTrouble(c)
      <3>1. store' \in {Report("drift"), Report("recovery"), WithIntent,
                       [Enabled EXCEPT !.reports = @ \cup {"recovery"}]}
        BY <2>3 DEF FailActivation, FailHandoff, FindTrouble
      <3>2. CASE store' \in {Report("drift"), Report("recovery")}
        BY <1>2, <2>1, <3>2 DEF StoreType, Report
      <3>3. CASE store' = WithIntent
        BY <1>2, <2>1, <3>3 DEF StoreType, WithIntent
      <3>4. CASE store' = [Enabled EXCEPT !.reports = @ \cup {"recovery"}]
        BY <1>2, <2>1, <3>4 DEF StoreType, Enabled
      <3>. QED BY <3>1, <3>2, <3>3, <3>4
    <2>4. CASE Leave(c) \/ Disable(c)
      <3>1. store' \in {Disabled, [Disabled EXCEPT !.reports = @ \cup {"recovery"}]}
        BY <2>4 DEF Leave, Disable
      <3>2. ~store'.takeover
        BY <2>1, <3>1 DEF StoreType, Disabled
      <3>. QED BY <1>2, <3>2
    <2>5. CASE CompleteDisable(c)
      <3>1. ~store.takeover /\ store' \in {store, Report("recovery")}
        BY <2>5 DEF CompleteDisable, LifecycleInv, CompletionsBelong
      <3>2. ~store'.takeover
        BY <2>1, <3>1, StoreOperators DEF Reports
      <3>. QED BY <1>2, <3>2
    <2>. QED BY <1>6, <2>2, <2>3, <2>4, <2>5 DEF Managing
  <1>7. ASSUME NEW p \in Processes, Run(p) PROVE FALSE
    <2>1. CASE Serve(p)
      BY <1>2, <2>1 DEF Serve
    <2>2. CASE StopModels(p)
      <3>1. proc' = [proc EXCEPT ![p] = IF outcome = "handover" THEN "handing" ELSE "leaving"]
            /\ proc[p] = "closed"
        BY <2>2 DEF StopModels, Move
      <3>2. \A r \in Processes \ {p} : proc[r] \notin Holding
        BY <3>1, OnlyTheOwner DEF Holding
      <3>. QED BY <1>1, <3>1, <3>2 DEF LifecycleInv, Shape, Holding
    <2>3. CASE ~Serve(p) /\ ~StopModels(p)
      <3>1. UNCHANGED <<server, store>>
        BY <1>7, <2>3
           DEF Run, Acquire, ReapSessions, ChooseOutcome, Shutdown, Close, Exec, Exit, AcceptSession
      <3>2. proc' = proc \/ \E place \in States \ {"serving"} : proc' = [proc EXCEPT ![p] = place]
        BY <1>7, <2>3
           DEF Run, Acquire, ReapSessions, ChooseOutcome, Shutdown, Close, Exec, Exit, AcceptSession,
               DropListener, Move, States
      <3>3. proc[q] = "serving"
        BY <1>1, <3>2 DEF LifecycleInv, Shape
      <3>. QED BY <1>3, <3>1, <3>3
    <2>. QED BY <2>1, <2>2, <2>3
  <1>8. ASSUME NEW p \in Processes, FailToServe(p) \/ Crash(p) PROVE FALSE
    <2>1. proc' = [proc EXCEPT ![p] = "gone"] /\ proc[p] \notin {"unused", "gone"}
      BY <1>8 DEF FailToServe, Crash, Move
    <2>2. proc[q] = "serving" /\ q # p
      BY <1>1, <2>1 DEF LifecycleInv, Shape
    <2>3. lock = q
      BY <2>2, OnlyTheOwner DEF Holding
    <2>4. ~FailToServe(p)
      BY <2>2, <2>3, OnlyTheOwner DEF FailToServe, Holding
    <2>5. UNCHANGED <<server, store>>
      BY <1>8, <2>2, <2>3, <2>4 DEF Crash
    <2>. QED BY <1>3, <2>2, <2>5
  <1>9. ASSUME UNCHANGED lifecycleVars PROVE FALSE
    BY <1>1, <1>3, <1>9 DEF lifecycleVars
  <1>. QED BY <1>4, <1>5, <1>6, <1>7, <1>8, <1>9 DEF LifecycleNext, Managing

(* A committed takeover that has no model server is reported, or has an      *)
(* intent the next start settles, unless a Reapply cleared the report or the *)
(* store failed to record a handoff that failed, on any home with any number *)
(* of processes, kills and handovers.                                        *)
THEOREM TakeoversStayServed == LifecycleSpec => TakeoversAreServed
  <1>1. LifecycleInv /\ [LifecycleNext]_lifecycleVars =>
          (SilentlyUnserved' => SilentlyUnserved \/ \E c \in Clients : ReapplyConfiguration(c) \/ LoseHandoff(c))
    BY UnservedByKnownSteps
  <1>. QED BY <1>1, LifecycleInvariant, PTL DEF LifecycleSpec, TakeoversAreServed

(* No two processes serve at once, and none serves while another one joins   *)
(* its sessions, drains or hands over.                                       *)
THEOREM OneServer ==
  LifecycleSpec => [](\A p, q \in Processes : Serving(p) /\ proc[q] \in Holding => p = q)
  <1>1. LifecycleInv => \A p, q \in Processes : Serving(p) /\ proc[q] \in Holding => p = q
    BY OnlyTheOwner DEF Serving, Holding
  <1>. QED BY <1>1, LifecycleInvariant, PTL

(* An accepted handover does not end as an idle exit, on any home.           *)
THEOREM HandoversAreKept == LifecycleSpec => HandoverIsKept
  <1>1. LifecycleInv /\ [LifecycleNext]_lifecycleVars =>
          \A p \in Processes : proc[p] = "leaving" /\ proc'[p] = "gone" /\ outcome = "idle"
            => channel.handover # "sent"
    BY DEF LifecycleInv, IdleIsLast
  <1>. QED BY <1>1, LifecycleInvariant, PTL DEF LifecycleSpec, HandoverIsKept

-----------------------------------------------------------------------------
(* The sessions of one service.                                             *)

Whos == Actions \union Inspections \union {None, Stop}
Whats == {"reply", "inspected", "done", "stale", "refused", "accepted"}

(* Where a session's task is, and whose frame it is busy with.              *)
Quiet  == {"none", "greeting", "reading", "closing"}
Busy   == {"locking", "deciding"}
Asking == {"awaiting", "written", "lost"}

SessionStates ==
  [at : Quiet \union Busy \union Asking, opened : SUBSET Kinds,
   job : Actions \union {None, Stop}, owed : BOOLEAN]

Placed(q) ==
  /\ q.at \in Quiet => q.job = None
  /\ q.at \in Busy => q.job \in Actions
  /\ q.at \in Asking => q.job \in Actions \union {Stop}
  /\ q.owed => q.at \in Asking /\ q.job \in Disabling

Typed ==
  /\ session \in [Sessions -> SessionStates]
  /\ outbox \in [Sessions -> Seq(Whos \X Whats)]
  /\ writer \in [Sessions -> BOOLEAN]
  /\ inspection \in [Inspections ->
       {"none", "running", "cancelled", "queued", "failed", "over"}]
  /\ completion \in [Disabling ->
       [by : Sessions \union {None}, at : {"idle", "running", "done"}]]
  /\ gate \in Sessions \union {None}
  /\ stopping \in {None, Stop, "idle"}
  /\ revision \in [Kinds -> Nat]
  /\ receipts \in [Actions -> Nat \union {None}]
  /\ expected \in [Actions -> Nat \union {None}]
  /\ sends \in Nat /\ services \in Nat \ {0}

AllPlaced == \A s \in Sessions : Placed(session[s])

(* A revision that went by does not come back: the action that expected it  *)
(* is not going to be applied.                                              *)
WentBy(id) == receipts[id] = None /\ expected[id] # None /\ expected[id] < revision[Kind[id]]

(* What an answer claims of the receipts.                                   *)
Claims(who, what) ==
  /\ what = "done" => who \in Actions /\ receipts[who] # None
  /\ what = "stale" => who \in Actions /\ WentBy(who)
  /\ who = Stop => what = "accepted"

QueuedIsTrue ==
  \A s \in Sessions : \A n \in DOMAIN outbox[s] : Claims(outbox[s][n][1], outbox[s][n][2])

ToldIsTrue ==
  \A id \in Actions :
    /\ <<id, "done">> \in told => receipts[id] # None
    /\ <<id, "stale">> \in told => WentBy(id)

(* An action is decided about with the revision its client expects, which   *)
(* is none that is still to come.                                           *)
ExpectedIsKnown ==
  /\ \A id \in Actions : expected[id] # None => expected[id] <= revision[Kind[id]]
  /\ \A s \in Sessions : session[s].at \in Busy => expected[session[s].job] # None

StopIsAnswered ==
  /\ stopping = Stop => <<Stop, "accepted">> \in told
  /\ \A s \in Sessions :
       (session[s].job = Stop /\ session[s].at = "written") => <<Stop, "accepted">> \in told

PermitIsHeld ==
  reserved # None => reserved \in Sessions /\ session[reserved].job = Stop

Committed(k) == {id \in Actions : Kind[id] = k /\ receipts[id] # None}

CommitsOnce == \A k \in Kinds : revision[k] = Cardinality(Committed(k))

(* A completion runs in a session that greeted, and a committed disable has *)
(* one or is owed it.                                                       *)
DisablesRun ==
  \A id \in Disabling :
    /\ completion[id].at = "running" =>
         /\ completion[id].by \in Sessions
         /\ session[completion[id].by].at \notin {"none", "greeting"}
    /\ (services = 1 /\ receipts[id] # None) =>
         \/ completion[id].at \in {"running", "done"}
         \/ \E s \in Sessions : session[s].owed /\ session[s].job = id

IInv ==
  /\ Typed /\ AllPlaced /\ QueuedIsTrue /\ ToldIsTrue /\ ExpectedIsKnown
  /\ StopIsAnswered /\ PermitIsHeld /\ CommitsOnce /\ DisablesRun

-----------------------------------------------------------------------------
(* No two of the marks are the same.                                        *)
LEMMA Distinct ==
  /\ None # Stop /\ None # "idle" /\ Stop # "idle"
  /\ None \notin Nat /\ None \notin Sessions /\ None \notin Actions /\ None \notin Disabling
  /\ Stop \notin Actions /\ Stop \notin Disabling /\ Stop \notin Inspections
  /\ None \notin Inspections /\ Disabling \subseteq Actions
  /\ \A i \in Inspections : i \notin Actions
  /\ \A n \in Nat : n # None
  /\ \A id \in Actions : Kind[id] \in Kinds
  /\ IsFiniteSet(Actions)
  BY SessionsAssumption

(* Queues: what is appended, what is left when the first frame was taken.   *)
LEMMA AppendedFrames ==
  ASSUME Typed, NEW s \in Sessions, NEW who \in Whos, NEW what \in Whats,
         outbox' = Queued(s, who, what)
  PROVE  /\ outbox' \in [Sessions -> Seq(Whos \X Whats)]
         /\ \A t \in Sessions : \A n \in DOMAIN outbox'[t] :
              \/ n \in DOMAIN outbox[t] /\ outbox'[t][n] = outbox[t][n]
              \/ outbox'[t][n] = <<who, what>>
  <1>1. <<who, what>> \in Whos \X Whats OBVIOUS
  <1>2. outbox[s] \in Seq(Whos \X Whats) BY DEF Typed
  <1>3. Append(outbox[s], <<who, what>>) \in Seq(Whos \X Whats) BY <1>1, <1>2
  <1>4. \A n \in DOMAIN Append(outbox[s], <<who, what>>) :
          \/ n \in DOMAIN outbox[s] /\ Append(outbox[s], <<who, what>>)[n] = outbox[s][n]
          \/ Append(outbox[s], <<who, what>>)[n] = <<who, what>>
    BY <1>1, <1>2
  <1>. QED BY <1>3, <1>4 DEF Queued, Typed

(* The frame that is written is the first one.                              *)
LEMMA TakenFrames ==
  ASSUME Typed, NEW s \in Sessions, outbox[s] # <<>>,
         outbox' = [outbox EXCEPT ![s] = Tail(@)]
  PROVE  /\ outbox' \in [Sessions -> Seq(Whos \X Whats)]
         /\ \A t \in Sessions : \A n \in DOMAIN outbox'[t] :
              \E m \in DOMAIN outbox[t] : outbox'[t][n] = outbox[t][m]
         /\ 1 \in DOMAIN outbox[s] /\ Head(outbox[s]) = outbox[s][1]
         /\ outbox[s][1] \in Whos \X Whats
  <1>1. outbox[s] \in Seq(Whos \X Whats) BY DEF Typed
  <1>2. /\ Tail(outbox[s]) \in Seq(Whos \X Whats)
        /\ \A n \in DOMAIN Tail(outbox[s]) :
             n + 1 \in DOMAIN outbox[s] /\ Tail(outbox[s])[n] = outbox[s][n + 1]
        /\ 1 \in DOMAIN outbox[s] /\ Head(outbox[s]) = outbox[s][1]
        /\ outbox[s][1] \in Whos \X Whats
    BY <1>1
  <1>. QED BY <1>2 DEF Typed

(* A queue that is dropped leaves the others.                               *)
LEMMA DroppedFrames ==
  ASSUME Typed, NEW s \in Sessions, outbox' = [outbox EXCEPT ![s] = <<>>]
  PROVE  /\ outbox' \in [Sessions -> Seq(Whos \X Whats)]
         /\ \A t \in Sessions : \A n \in DOMAIN outbox'[t] :
              n \in DOMAIN outbox[t] /\ outbox'[t][n] = outbox[t][n]
  BY DEF Typed

(* What a step puts into queues is true, and nothing stops being true.      *)
LEMMA QueuesStayTrue ==
  ASSUME IInv,
         \A who \in Whos, what \in Whats : Claims(who, what) => Claims(who, what)',
         outbox' \in [Sessions -> Seq(Whos \X Whats)],
         \A t \in Sessions : \A n \in DOMAIN outbox'[t] :
           \/ \E m \in DOMAIN outbox[t] : outbox'[t][n] = outbox[t][m]
           \/ \E who, what : outbox'[t][n] = <<who, what>> /\ Claims(who, what)'
  PROVE  QueuedIsTrue'
  <1>1. SUFFICES ASSUME NEW t \in Sessions, NEW n \in DOMAIN outbox'[t]
                 PROVE  Claims(outbox[t][n][1], outbox[t][n][2])'
    BY DEF QueuedIsTrue
  <1>2. \E who, what : outbox'[t][n] = <<who, what>> /\ Claims(who, what)'
    <2>1. SUFFICES ASSUME NEW m \in DOMAIN outbox[t], outbox'[t][n] = outbox[t][m]
                   PROVE  \E who, what : outbox'[t][n] = <<who, what>> /\ Claims(who, what)'
      OBVIOUS
    <2>2. outbox[t][m] \in Whos \X Whats BY DEF IInv, Typed
    <2>3. PICK who \in Whos, what \in Whats : outbox[t][m] = <<who, what>> BY <2>2
    <2>4. Claims(who, what) BY <2>3 DEF IInv, QueuedIsTrue
    <2>. QED BY <2>1, <2>3, <2>4
  <1>. QED BY <1>2 DEF Claims, WentBy

(* What was claimed stays so while no receipt changes.                      *)
LEMMA ClaimsLast ==
  ASSUME UNCHANGED <<durable, expected>>
  PROVE  \A who, what : Claims(who, what) <=> Claims(who, what)'
  BY DEF Claims, WentBy, durable

-----------------------------------------------------------------------------
(* Steps that decide nothing: a session moves between frames, or its        *)
(* inspections, completions and frames do.                                  *)
CalmSession(s) ==
  /\ session' \in [Sessions -> SessionStates]
  /\ \A t \in Sessions \ {s} : session'[t] = session[t]
  /\ \/ session'[s] = session[s]
     \/ /\ session[s].at \in Quiet /\ session'[s].at \in Quiet
        /\ session'[s].job = None /\ session'[s].owed = FALSE
        /\ session'[s].at \in {"none", "greeting"} =>
             Completing(s) = {} \/ session[s].at \in {"none", "greeting"}

CalmQueues ==
  /\ outbox' \in [Sessions -> Seq(Whos \X Whats)]
  /\ \A t \in Sessions : \A n \in DOMAIN outbox'[t] :
       \/ n \in DOMAIN outbox[t] /\ outbox'[t][n] = outbox[t][n]
       \/ outbox'[t][n][1] # Stop /\ outbox'[t][n][2] \in {"reply", "inspected"}

CalmInspections ==
  inspection' \in [Inspections ->
    {"none", "running", "cancelled", "queued", "failed", "over"}]

CalmCompletions ==
  /\ completion' \in [Disabling ->
       [by : Sessions \union {None}, at : {"idle", "running", "done"}]]
  /\ \A id \in Disabling :
       completion'[id] = completion[id] \/ completion'[id].at = "done"

Calm(s) ==
  /\ CalmSession(s) /\ CalmQueues /\ CalmInspections /\ CalmCompletions
  /\ writer' \in [Sessions -> BOOLEAN]
  /\ stopping' \in {stopping, None, "idle"}
  /\ UNCHANGED <<gate, reserved, durable, expected, told, bounds>>

(* Such a step preserves the invariant, wherever the session was.           *)
LEMMA CalmKeeps == ASSUME IInv, NEW s \in Sessions, Calm(s) PROVE IInv'
  <1>0. UNCHANGED <<revision, receipts, expected, told, reserved, services, sends, gate>>
    BY DEF Calm, durable, bounds
  <1>1. Typed' BY <1>0, SessionsAssumption DEF IInv, Typed, Calm, CalmSession, CalmQueues,
                                     CalmInspections, CalmCompletions
  <1>2. AllPlaced'
      BY DEF IInv, AllPlaced, Placed, Calm, CalmSession, Quiet, Busy, Asking
  <1>3. QueuedIsTrue'
    <2>1. ASSUME NEW t \in Sessions, NEW n \in DOMAIN outbox'[t]
          PROVE  \/ \E m \in DOMAIN outbox[t] : outbox'[t][n] = outbox[t][m]
                 \/ \E who, what : outbox'[t][n] = <<who, what>> /\ Claims(who, what)'
      <3>1. outbox'[t][n] \in Whos \X Whats BY DEF Calm, CalmQueues
      <3>2. PICK who \in Whos, what \in Whats : outbox'[t][n] = <<who, what>> BY <3>1
      <3>3. \/ n \in DOMAIN outbox[t] /\ outbox'[t][n] = outbox[t][n]
            \/ who # Stop /\ what \in {"reply", "inspected"}
        BY <3>2 DEF Calm, CalmQueues
      <3>4. who # Stop /\ what \in {"reply", "inspected"} => Claims(who, what)'
        BY DEF Claims
      <3>. QED BY <3>2, <3>3, <3>4
    <2>. QED BY <1>0, <2>1, QueuesStayTrue, ClaimsLast DEF Calm, CalmQueues
  <1>4. ToldIsTrue' BY <1>0 DEF IInv, ToldIsTrue, WentBy
  <1>5. ExpectedIsKnown'
      BY <1>0 DEF IInv, ExpectedIsKnown, Calm, CalmSession, Quiet, Busy
  <1>6. StopIsAnswered'
    BY <1>0, Distinct DEF IInv, StopIsAnswered, Calm, CalmSession
  <1>7. PermitIsHeld'
    BY <1>0, Distinct DEF IInv, PermitIsHeld, Calm, CalmSession, AllPlaced, Placed
  <1>8. CommitsOnce' BY <1>0 DEF IInv, CommitsOnce, Committed
  <1>9. DisablesRun'
    <2>1. SUFFICES ASSUME NEW id \in Disabling
          PROVE /\ completion'[id].at = "running" =>
                     /\ completion'[id].by \in Sessions
                     /\ session'[completion'[id].by].at \notin {"none", "greeting"}
                /\ (services = 1 /\ receipts[id] # None) =>
                     \/ completion'[id].at \in {"running", "done"}
                     \/ \E t \in Sessions : session'[t].owed /\ session'[t].job = id
      BY <1>0 DEF DisablesRun
    <2>2. ASSUME completion'[id].at = "running"
          PROVE  /\ completion'[id].by \in Sessions
                 /\ session'[completion'[id].by].at \notin {"none", "greeting"}
      <3>1. completion'[id] = completion[id] BY <2>2 DEF Calm, CalmCompletions
      <3>2. /\ completion[id].by \in Sessions
            /\ session[completion[id].by].at \notin {"none", "greeting"}
        BY <2>2, <3>1 DEF IInv, DisablesRun
      <3>3. CASE completion[id].by = s
        <4>1. completion[id] = [by |-> s, at |-> "running"]
          BY <2>2, <3>1, <3>3 DEF IInv, Typed
        <4>2. id \in Completing(s) BY <4>1 DEF Completing
        <4>. QED BY <3>1, <3>2, <3>3, <4>2 DEF Calm, CalmSession
      <3>4. CASE completion[id].by # s BY <3>1, <3>2, <3>4 DEF Calm, CalmSession
      <3>. QED BY <3>3, <3>4
    <2>3. ASSUME services = 1, receipts[id] # None
          PROVE  \/ completion'[id].at \in {"running", "done"}
                 \/ \E t \in Sessions : session'[t].owed /\ session'[t].job = id
      <3>1. \/ completion[id].at \in {"running", "done"}
            \/ \E t \in Sessions : session[t].owed /\ session[t].job = id
        BY <2>3 DEF IInv, DisablesRun
      <3>2. ASSUME NEW t \in Sessions, session[t].owed, session[t].job = id
            PROVE  session'[t] = session[t]
        BY <3>2, Distinct DEF Calm, CalmSession, IInv, AllPlaced, Placed, Quiet, Asking
      <3>. QED BY <3>1, <3>2 DEF Calm, CalmCompletions
    <2>. QED BY <2>2, <2>3
  <1>. QED BY <1>1, <1>2, <1>3, <1>4, <1>5, <1>6, <1>7, <1>8, <1>9 DEF IInv

(* A session that closes, or queues a frame nobody waits for, is calm.      *)
LEMMA BreakIsCalm ==
  ASSUME IInv, NEW s \in Sessions, session[s].at \in Quiet, Break(s)
  PROVE  CalmSession(s) /\ CalmInspections
  <1> DEFINE q == [NoSession EXCEPT !.at = "closing"]
  <1>1. /\ q \in SessionStates /\ q.at = "closing" /\ q.job = None /\ q.owed = FALSE
    BY DEF SessionStates, NoSession, Quiet
  <1>2. session' = [session EXCEPT ![s] = q] BY DEF Break
  <1> HIDE DEF q
  <1>3. session' \in [Sessions -> SessionStates] /\ session'[s] = q
        /\ \A t \in Sessions \ {s} : session'[t] = session[t]
    BY <1>1, <1>2 DEF IInv, Typed
  <1>4. CalmSession(s) BY <1>1, <1>3 DEF CalmSession, Quiet
  <1>5. CalmInspections BY DEF Break, Cancelled, CalmInspections, IInv, Typed
  <1>. QED BY <1>4, <1>5

(* A frame that answers no action.                                          *)
LEMMA QueuedIsCalm ==
  ASSUME IInv, NEW s \in Sessions, NEW who \in Inspections \union {None},
         NEW what \in {"reply", "inspected"}, outbox' = Queued(s, who, what)
  PROVE  CalmQueues
  <1>1. who \in Whos /\ what \in Whats /\ who # Stop BY Distinct DEF Whos, Whats
  <1>. QED BY <1>1, AppendedFrames DEF CalmQueues, IInv

(* What a step leaves alone.                                                *)
LEMMA UnchangedIsCalm ==
  ASSUME IInv
  PROVE  /\ \A s \in Sessions : UNCHANGED session => CalmSession(s)
         /\ UNCHANGED outbox => CalmQueues
         /\ UNCHANGED inspection => CalmInspections
         /\ UNCHANGED completion => CalmCompletions
         /\ UNCHANGED writer => writer' \in [Sessions -> BOOLEAN]
  BY DEF IInv, Typed, CalmSession, CalmQueues, CalmInspections, CalmCompletions

(* A session moves without an answer to await.                              *)
LEMMA MoveIsCalm ==
  ASSUME IInv, NEW s \in Sessions, session[s].at \in Quiet, NEW q \in SessionStates,
         q.at \in Quiet, q.job = None, q.owed = FALSE,
         q.at \in {"none", "greeting"} =>
           Completing(s) = {} \/ session[s].at \in {"none", "greeting"},
         session' = [session EXCEPT ![s] = q]
  PROVE  CalmSession(s)
  <1>1. session' \in [Sessions -> SessionStates] /\ session'[s] = q
        /\ \A t \in Sessions \ {s} : session'[t] = session[t]
    BY DEF IInv, Typed
  <1>. QED BY <1>1 DEF CalmSession

(* Between frames a session has no job and owes nothing.                    *)
LEMMA QuietSession ==
  ASSUME IInv, NEW s \in Sessions, session[s].at \in Quiet
  PROVE  session[s] \in SessionStates /\ session[s].job = None /\ session[s].owed = FALSE
  BY DEF IInv, Typed, AllPlaced, Placed, Quiet, Busy, Asking, SessionStates

(* A reply is queued, or the session closes.                                *)
LEMMA ReplyIsCalm ==
  ASSUME IInv, NEW s \in Sessions, session[s].at = "reading",
         NEW opened \in SUBSET Kinds, Reply(s, opened)
  PROVE  CalmSession(s) /\ CalmQueues /\ CalmInspections
  <1>1. session[s].at \in Quiet BY DEF Quiet
  <1>2. CASE Room(s)
    <2> DEFINE q == [session[s] EXCEPT !.opened = opened]
    <2>1. q \in SessionStates /\ q.at = "reading" /\ q.job = None /\ q.owed = FALSE
      BY <1>1, QuietSession DEF SessionStates
    <2>2. session' = [session EXCEPT ![s] = q] BY <1>2 DEF Reply
    <2> HIDE DEF q
    <2>3. CalmSession(s) BY <1>1, <2>1, <2>2, MoveIsCalm DEF Quiet
    <2>4. CalmQueues BY <1>2, QueuedIsCalm DEF Reply
    <2>. QED BY <1>2, <2>3, <2>4, UnchangedIsCalm DEF Reply
  <1>3. CASE ~Room(s) BY <1>1, <1>3, BreakIsCalm, UnchangedIsCalm DEF Reply
  <1>. QED BY <1>2, <1>3

(* Frames that are answered at once, and the ends of a session.             *)
(* One lemma per action from here on.                                       *)
LEMMA AcceptKeeps == ASSUME IInv, NEW s \in Sessions, Accept(s) PROVE IInv'
  <1> DEFINE q == [session[s] EXCEPT !.at = "greeting"]
  <1>1. session[s].at = "none" /\ session[s].at \in Quiet BY DEF Accept, At, Quiet
  <1>2. q \in SessionStates /\ q.at = "greeting" /\ q.job = None /\ q.owed = FALSE
    BY <1>1, QuietSession DEF SessionStates, Quiet
  <1>3. session' = [session EXCEPT ![s] = q] BY DEF Accept
  <1> HIDE DEF q
  <1>4. CalmSession(s) BY <1>1, <1>2, <1>3, MoveIsCalm DEF Quiet
  <1>5. Calm(s) BY <1>4, UnchangedIsCalm DEF Accept, Calm
  <1>. QED BY <1>5, CalmKeeps

LEMMA GreetKeeps == ASSUME IInv, NEW s \in Sessions, Greet(s) PROVE IInv'
  <1> DEFINE q == [session[s] EXCEPT !.at = "reading"]
  <1>1. session[s].at = "greeting" /\ session[s].at \in Quiet BY DEF Greet, At, Quiet
  <1>2. q \in SessionStates /\ q.at = "reading" /\ q.job = None /\ q.owed = FALSE
    BY <1>1, QuietSession DEF SessionStates, Quiet
  <1>3. session' = [session EXCEPT ![s] = q] BY DEF Greet
  <1> HIDE DEF q
  <1>4. CalmSession(s) BY <1>1, <1>2, <1>3, MoveIsCalm DEF Quiet
  <1>5. writer' \in [Sessions -> BOOLEAN] BY DEF Greet, IInv, Typed
  <1>6. Calm(s) BY <1>4, <1>5, UnchangedIsCalm DEF Greet, Calm
  <1>. QED BY <1>6, CalmKeeps

LEMMA DismissKeeps == ASSUME IInv, NEW s \in Sessions, Dismiss(s) PROVE IInv'
  <1>1. session[s].at = "greeting" /\ session[s].at \in Quiet BY DEF Dismiss, At, Quiet
  <1>2. /\ NoSession \in SessionStates /\ NoSession.at = "none"
        /\ NoSession.job = None /\ NoSession.owed = FALSE
    BY DEF SessionStates, Quiet, NoSession
  <1>3. session' = [session EXCEPT ![s] = NoSession] BY DEF Dismiss
  <1>4. CalmSession(s) BY <1>1, <1>2, <1>3, MoveIsCalm DEF Quiet
  <1>5. stopping' \in {stopping, None, "idle"} BY DEF Dismiss, MayExitIdle
  <1>6. Calm(s) BY <1>4, <1>5, UnchangedIsCalm DEF Dismiss, Calm
  <1>. QED BY <1>6, CalmKeeps

LEMMA UnreadableKeeps == ASSUME IInv, NEW s \in Sessions, Unreadable(s) PROVE IInv'
  <1>1. session[s].at \in Quiet BY DEF Unreadable, At, Quiet
  <1>2. CalmSession(s) /\ CalmInspections BY <1>1, BreakIsCalm DEF Unreadable
  <1>3. CalmQueues BY UnchangedIsCalm, QueuedIsCalm DEF Unreadable
  <1>4. Calm(s) BY <1>2, <1>3, UnchangedIsCalm DEF Unreadable, Calm
  <1>. QED BY <1>4, CalmKeeps

LEMMA InterruptedKeeps == ASSUME IInv, NEW s \in Sessions, Interrupted(s) PROVE IInv'
  <1>1. session[s].at \in Quiet BY DEF Interrupted, At, Quiet
  <1>2. CalmSession(s) /\ CalmInspections BY <1>1, BreakIsCalm DEF Interrupted
  <1>3. Calm(s) BY <1>2, UnchangedIsCalm DEF Interrupted, Calm
  <1>. QED BY <1>3, CalmKeeps

LEMMA OpenKeeps ==
  ASSUME IInv, NEW s \in Sessions, NEW kind \in Kinds, Open(s, kind) PROVE IInv'
  <1>1. session[s].at = "reading" /\ session[s].at \in Quiet BY DEF Open, At, Quiet
  <1>2. session[s].opened \in SUBSET Kinds BY <1>1, QuietSession DEF SessionStates
  <1> DEFINE opened == IF Refuses(session[s].opened, kind) THEN session[s].opened
                       ELSE session[s].opened \union {kind}
  <1>3. opened \in SUBSET Kinds BY <1>2
  <1>4. Reply(s, opened) BY DEF Open
  <1> HIDE DEF opened
  <1>5. CalmSession(s) /\ CalmQueues /\ CalmInspections BY <1>1, <1>3, <1>4, ReplyIsCalm
  <1>6. Calm(s) BY <1>5, UnchangedIsCalm DEF Open, Calm
  <1>. QED BY <1>6, CalmKeeps

LEMMA SaidKeeps == ASSUME IInv, NEW s \in Sessions, Said(s) PROVE IInv'
  <1>1. session[s].at = "reading" /\ session[s].at \in Quiet BY DEF Said, At, Quiet
  <1>2. session[s].opened \in SUBSET Kinds BY <1>1, QuietSession DEF SessionStates
  <1>3. CalmSession(s) /\ CalmQueues /\ CalmInspections
    BY <1>1, <1>2, ReplyIsCalm DEF Said
  <1>4. Calm(s) BY <1>3, UnchangedIsCalm DEF Said, Calm
  <1>. QED BY <1>4, CalmKeeps

LEMMA InspectKeeps ==
  ASSUME IInv, NEW s \in Sessions, NEW i \in Inspections, Inspect(s, i) PROVE IInv'
  <1>1. session[s].at = "reading" /\ session[s].at \in Quiet BY DEF Inspect, At, Quiet
  <1>2. session[s].opened \in SUBSET Kinds BY <1>1, QuietSession DEF SessionStates
  <1>3. CASE Reply(s, session[s].opened)
    <2>1. CalmSession(s) /\ CalmQueues /\ CalmInspections
        BY <1>1, <1>2, <1>3, ReplyIsCalm
    <2>2. Calm(s) BY <2>1, UnchangedIsCalm DEF Inspect, Calm
    <2>. QED BY <2>2, CalmKeeps
  <1>4. CASE inspection' = [inspection EXCEPT ![i] = "running"] /\ UNCHANGED <<session, outbox>>
    <2>1. CalmInspections BY <1>4 DEF CalmInspections, IInv, Typed
    <2>2. Calm(s) BY <1>4, <2>1, UnchangedIsCalm DEF Inspect, Calm
    <2>. QED BY <2>2, CalmKeeps
  <1>. QED BY <1>3, <1>4 DEF Inspect

LEMMA InspectAgainKeeps ==
  ASSUME IInv, NEW s \in Sessions, NEW i \in Inspections, InspectAgain(s, i) PROVE IInv'
  <1>1. session[s].at \in Quiet BY DEF InspectAgain, At, Quiet
  <1>2. CalmSession(s) /\ CalmInspections BY <1>1, BreakIsCalm DEF InspectAgain
  <1>3. CalmQueues BY UnchangedIsCalm, QueuedIsCalm DEF InspectAgain
  <1>4. Calm(s) BY <1>2, <1>3, UnchangedIsCalm DEF InspectAgain, Calm
  <1>. QED BY <1>4, CalmKeeps

LEMMA CancelKeeps ==
  ASSUME IInv, NEW s \in Sessions, NEW i \in Inspections, Cancel(s, i) PROVE IInv'
  <1>1. CalmInspections BY DEF Cancel, CalmInspections, IInv, Typed
  <1>2. Calm(s) BY <1>1, UnchangedIsCalm DEF Cancel, Calm
  <1>. QED BY <1>2, CalmKeeps

LEMMA FinishKeeps == ASSUME IInv, NEW i \in Inspections, Finish(i) PROVE IInv'
  <1>1. Client[i] \in Sessions BY SessionsAssumption
  <1>2. CalmInspections BY DEF Finish, Answer, Silence, CalmInspections, IInv, Typed
  <1>3. CalmQueues
    BY <1>1, QueuedIsCalm, UnchangedIsCalm DEF Finish, Answer, Silence
  <1>4. Calm(Client[i]) BY <1>1, <1>2, <1>3, UnchangedIsCalm DEF Finish, Calm
  <1>. QED BY <1>1, <1>4, CalmKeeps

LEMMA ReapKeeps ==
  ASSUME IInv, NEW s \in Sessions, NEW i \in Inspections, Reap(s, i) PROVE IInv'
  <1>1. session[s].at \in Quiet BY DEF Reap, At, Quiet
  <1>2. CalmSession(s) /\ CalmInspections
    <2>1. CASE Break(s) BY <1>1, <2>1, BreakIsCalm
    <2>2. CASE inspection' = [inspection EXCEPT ![i] = "none"] /\ UNCHANGED session
      BY <2>2, UnchangedIsCalm DEF CalmInspections, IInv, Typed
    <2>. QED BY <2>1, <2>2 DEF Reap
  <1>3. Calm(s) BY <1>2, UnchangedIsCalm DEF Reap, Calm
  <1>. QED BY <1>3, CalmKeeps

LEMMA CompleteKeeps == ASSUME IInv, NEW id \in Disabling, Complete(id) PROVE IInv'
  <1>1. completion[id].by \in Sessions BY DEF IInv, DisablesRun, Complete
  <1>2. CalmCompletions BY DEF CalmCompletions, Complete, IInv, Typed
  <1>3. Calm(completion[id].by) BY <1>1, <1>2, UnchangedIsCalm DEF Complete, Calm
  <1>. QED BY <1>1, <1>3, CalmKeeps

LEMMA ReapedKeeps ==
  ASSUME IInv, NEW s \in Sessions, NEW id \in Disabling, Reaped(s, id) PROVE IInv'
  <1>1. session[s].at \in Quiet BY DEF Reaped, At, Quiet
  <1>2. CalmSession(s) /\ CalmInspections
    BY <1>1, BreakIsCalm, UnchangedIsCalm DEF Reaped
  <1>3. CalmCompletions BY DEF CalmCompletions, Reaped, IInv, Typed
  <1>4. Calm(s) BY <1>2, <1>3, UnchangedIsCalm DEF Reaped, Calm
  <1>. QED BY <1>4, CalmKeeps

(* The writer gives its queue up.                                           *)
LEMMA DroppedIsCalm ==
  ASSUME IInv, NEW s \in Sessions, Dropped(s)
  PROVE  CalmQueues /\ CalmInspections /\ writer' \in [Sessions -> BOOLEAN]
  <1>1. CalmQueues BY DroppedFrames DEF Dropped, CalmQueues, IInv
  <1>2. CalmInspections /\ writer' \in [Sessions -> BOOLEAN]
    BY DEF Dropped, CalmInspections, IInv, Typed
  <1>. QED BY <1>1, <1>2

LEMMA OverdueKeeps == ASSUME IInv, NEW s \in Sessions, Overdue(s) PROVE IInv'
  <1>1. CalmQueues /\ CalmInspections /\ writer' \in [Sessions -> BOOLEAN]
    BY DroppedIsCalm DEF Overdue
  <1>2. Calm(s) BY <1>1, UnchangedIsCalm DEF Overdue, Calm
  <1>. QED BY <1>2, CalmKeeps

LEMMA EndKeeps == ASSUME IInv, NEW s \in Sessions, End(s) PROVE IInv'
  <1>1. session[s].at \in Quiet /\ Completing(s) = {} BY DEF End, At, Quiet
  <1>2. /\ NoSession \in SessionStates /\ NoSession.at = "none"
        /\ NoSession.job = None /\ NoSession.owed = FALSE
    BY DEF SessionStates, Quiet, NoSession
  <1>3. session' = [session EXCEPT ![s] = NoSession] BY DEF End, Gone
  <1>4. CalmSession(s) BY <1>1, <1>2, <1>3, MoveIsCalm DEF Quiet
  <1>5. CalmQueues BY DroppedFrames DEF End, Gone, CalmQueues, IInv
  <1>6. CalmInspections /\ writer' \in [Sessions -> BOOLEAN]
    BY DEF End, Gone, CalmInspections, IInv, Typed
  <1>7. stopping' \in {stopping, None, "idle"} BY DEF End, MayExitIdle
  <1>8. Calm(s) BY <1>4, <1>5, <1>6, <1>7, UnchangedIsCalm DEF End, Calm
  <1>. QED BY <1>8, CalmKeeps

-----------------------------------------------------------------------------
(* Steps of an action or a stop: the session of s goes to q.                *)
Moved(s, q) ==
  /\ q \in SessionStates /\ Placed(q)
  /\ session' \in [Sessions -> SessionStates]
  /\ session'[s] = q
  /\ \A t \in Sessions \ {s} : session'[t] = session[t]

(* Jobs stay where they may be.                                             *)
LEMMA MovedKeepsPlaced ==
  ASSUME IInv, NEW s \in Sessions, NEW q, Moved(s, q) PROVE AllPlaced'
  BY DEF IInv, AllPlaced, Moved

(* An update of the session's record moves it.                              *)
LEMMA MovesTo ==
  ASSUME IInv, NEW s \in Sessions, NEW q \in SessionStates, Placed(q),
         session' = [session EXCEPT ![s] = q]
  PROVE  Moved(s, q)
  BY DEF IInv, Typed, Moved

(* A session that was busy goes on being there for its completions.         *)
LEMMA MovedKeepsDisables ==
  ASSUME IInv, NEW s \in Sessions, NEW q, Moved(s, q),
         q.at \notin {"none", "greeting"},
         session[s].owed => q.owed /\ q.job = session[s].job,
         UNCHANGED <<completion, services>>,
         \A id \in Disabling :
           receipts'[id] # receipts[id] => q.owed /\ q.job = id
  PROVE  DisablesRun'
  <1>1. SUFFICES ASSUME NEW id \in Disabling
        PROVE /\ completion[id].at = "running" =>
                   /\ completion[id].by \in Sessions
                   /\ session'[completion[id].by].at \notin {"none", "greeting"}
              /\ (services = 1 /\ receipts'[id] # None) =>
                   \/ completion[id].at \in {"running", "done"}
                   \/ \E t \in Sessions : session'[t].owed /\ session'[t].job = id
    BY DEF DisablesRun
  <1>2. completion[id].at = "running" =>
          /\ completion[id].by \in Sessions
          /\ session'[completion[id].by].at \notin {"none", "greeting"}
    BY DEF IInv, DisablesRun, Moved
  <1>3. ASSUME services = 1, receipts'[id] # None
        PROVE  \/ completion[id].at \in {"running", "done"}
               \/ \E t \in Sessions : session'[t].owed /\ session'[t].job = id
    <2>1. CASE receipts'[id] # receipts[id] BY <2>1 DEF Moved
    <2>2. CASE receipts'[id] = receipts[id]
      BY <1>3, <2>2 DEF IInv, DisablesRun, Moved
    <2>. QED BY <2>1, <2>2
  <1>. QED BY <1>2, <1>3

(* What is said with an answer that is awaited.                             *)
Asked(s, job, what, owed) ==
  /\ \E q : Moved(s, q) /\ q.at \in {"awaiting", "lost"} /\ q.job = job /\ q.owed = owed
  /\ outbox' \in [Sessions -> Seq(Whos \X Whats)]
  /\ \A t \in Sessions : \A n \in DOMAIN outbox'[t] :
       \/ n \in DOMAIN outbox[t] /\ outbox'[t][n] = outbox[t][n]
       \/ outbox'[t][n] = <<job, what>>

(* Whether it could be queued or not.                                       *)
LEMMA AskDoes ==
  ASSUME IInv, NEW s \in Sessions, NEW job \in Actions \union {Stop},
         NEW what \in Whats, NEW owed \in BOOLEAN, owed => job \in Disabling,
         Ask(s, job, what, owed)
  PROVE  Asked(s, job, what, owed)
  <1>1. PICK at \in {"awaiting", "lost"} :
          session' = [session EXCEPT ![s].at = at, ![s].job = job, ![s].owed = owed]
    BY DEF Ask
  <1> DEFINE q == [session[s] EXCEPT !.at = at, !.job = job, !.owed = owed]
  <1>2. session[s] \in SessionStates BY DEF IInv, Typed
  <1>3. /\ q \in SessionStates /\ q.at = at /\ q.job = job /\ q.owed = owed
    BY <1>2 DEF SessionStates, Asking
  <1>4. session' = [session EXCEPT ![s] = q] BY <1>1 DEF IInv, Typed
  <1> HIDE DEF q
  <1>5. Placed(q) BY <1>3 DEF Placed, Quiet, Busy, Asking
  <1>6. Moved(s, q) BY <1>3, <1>4, <1>5, MovesTo
  <1>7. job \in Whos BY DEF Whos
  <1>8. CASE outbox' = Queued(s, job, what)
      BY <1>3, <1>6, <1>7, <1>8, AppendedFrames DEF IInv, Asked
  <1>9. CASE outbox' = outbox BY <1>3, <1>6, <1>9 DEF IInv, Typed, Asked
  <1>. QED BY <1>8, <1>9 DEF Ask

(* A client that sends an action expects the revision it sees.              *)
Expects ==
  /\ expected' \in [Actions -> Nat \union {None}]
  /\ \A id \in Actions :
       \/ expected'[id] = expected[id]
       \/ expected[id] = None /\ expected'[id] = revision[Kind[id]]

(* It changes no claim: what went by was expected before.                   *)
LEMMA ExpectingKeeps ==
  ASSUME IInv, Expects, UNCHANGED durable
  PROVE  /\ \A who \in Whos, what \in Whats : Claims(who, what) => Claims(who, what)'
         /\ \A id \in Actions : WentBy(id) => WentBy(id)'
         /\ \A id \in Actions : expected'[id] # None => expected'[id] <= revision[Kind[id]]
         /\ \A id \in Actions : expected[id] # None => expected'[id] # None
  <1>1. \A id \in Actions : revision[Kind[id]] \in Nat
    BY SessionsAssumption DEF IInv, Typed
  <1>2. \A id \in Actions : WentBy(id) => WentBy(id)'
    BY DEF Expects, WentBy, durable
  <1>3. \A id \in Actions : expected'[id] # None => expected'[id] <= revision[Kind[id]]
    BY <1>1 DEF Expects, IInv, ExpectedIsKnown
  <1>4. \A who \in Whos, what \in Whats : Claims(who, what) => Claims(who, what)'
    BY <1>2 DEF Claims, durable
  <1>5. \A id \in Actions : expected[id] # None => expected'[id] # None
    BY DEF Expects
  <1>. QED BY <1>2, <1>3, <1>4, <1>5

(* An answer about an action, while the receipts stay.                      *)
LEMMA AnsweredKeeps ==
  ASSUME IInv, NEW s \in Sessions, NEW id \in Actions, NEW what \in {"done", "stale", "refused"},
         ~session[s].owed, session[s].job # Stop, session[s].at \notin {"none", "greeting"},
         Claims(id, what), Ask(s, id, what, FALSE), Expects,
         UNCHANGED <<writer, inspection, completion, reserved, stopping, durable, told, services>>,
         gate' \in Sessions \union {None}, sends' \in Nat
  PROVE  IInv'
  <1>0. UNCHANGED <<revision, receipts>> BY DEF durable
  <1>1. what \in Whats /\ id \in Actions \union {Stop} /\ FALSE \in BOOLEAN /\ id \in Whos
    BY DEF Whats, Whos
  <1>2. Asked(s, id, what, FALSE) BY <1>1, AskDoes
  <1>3. PICK q : /\ Moved(s, q) /\ q.at \in {"awaiting", "lost"}
                 /\ q.job = id /\ q.owed = FALSE
    BY <1>2 DEF Asked
  <1>4. Typed' BY <1>0, <1>2, <1>3 DEF IInv, Typed, Moved, Expects, Asked
  <1>5. AllPlaced' BY <1>3, MovedKeepsPlaced
  <1>6. QueuedIsTrue'
    <2>1. Claims(id, what)' BY <1>1, ExpectingKeeps
    <2>. QED BY <1>2, <2>1, QueuesStayTrue, ExpectingKeeps DEF Asked
  <1>7. ToldIsTrue' BY <1>0, ExpectingKeeps DEF IInv, ToldIsTrue
  <1>8. ExpectedIsKnown'
    <2>1. \A t \in Sessions : session'[t].at \in Busy => expected'[session'[t].job] # None
      <3>1. \A t \in Sessions : session[t].at \in Busy => session[t].job \in Actions
        BY DEF IInv, AllPlaced, Placed
      <3>. QED BY <1>3, <3>1, ExpectingKeeps DEF IInv, ExpectedIsKnown, Moved, Busy
    <2>. QED BY <1>0, <2>1, ExpectingKeeps DEF ExpectedIsKnown
  <1>9. StopIsAnswered' BY <1>3, Distinct DEF IInv, StopIsAnswered, Moved
  <1>10. PermitIsHeld' BY <1>3 DEF IInv, PermitIsHeld, Moved
  <1>11. CommitsOnce' BY <1>0 DEF IInv, CommitsOnce, Committed
  <1>12. DisablesRun'
    <2>1. q.at \notin {"none", "greeting"} BY <1>3
    <2>. QED BY <1>0, <1>3, <2>1, MovedKeepsDisables
  <1>. QED BY <1>4, <1>5, <1>6, <1>7, <1>8, <1>9, <1>10, <1>11, <1>12 DEF IInv

(* An action is sent: answered from its receipt or taken on.                *)
LEMMA ActKeeps ==
  ASSUME IInv, NEW s \in Sessions, NEW id \in Actions, Act(s, id) PROVE IInv'
  <1>1. /\ session[s] \in SessionStates /\ session[s].at = "reading"
        /\ session[s].job = None /\ session[s].owed = FALSE
    BY QuietSession DEF Act, At, Quiet
  <1>2. Expects /\ expected'[id] # None
    <2>1. revision[Kind[id]] \in Nat /\ revision[Kind[id]] # None
      BY Distinct DEF IInv, Typed
    <2>. QED BY <2>1 DEF Act, Expects, IInv, Typed
  <1>3. sends' \in Nat BY DEF Act, IInv, Typed
  <1>4. CASE Receipted(id)
    <2>1. Claims(id, "done") BY <1>4, Distinct DEF Claims, Receipted
    <2>. QED
        BY <1>1, <1>2, <1>3, <1>4, <2>1, AnsweredKeeps, Distinct DEF Act, IInv, Typed
  <1>5. CASE ~Receipted(id)
    <2>0. UNCHANGED <<revision, receipts, services, outbox, told>>
      BY <1>5 DEF Act, durable
    <2>1. PICK at \in Busy : session' = [session EXCEPT ![s].job = id, ![s].at = at]
      BY <1>5 DEF Act, Busy
    <2> DEFINE q == [session[s] EXCEPT !.job = id, !.at = at]
    <2>2. q \in SessionStates /\ q.at = at /\ q.job = id /\ q.owed = FALSE
      BY <1>1 DEF SessionStates
    <2>3. session' = [session EXCEPT ![s] = q] BY <2>1 DEF IInv, Typed
    <2> HIDE DEF q
    <2>4. Moved(s, q)
      <3>1. Placed(q) BY <2>2 DEF Placed, Quiet, Busy, Asking
      <3>. QED BY <2>2, <2>3, <3>1, MovesTo
    <2>5. Typed' BY <1>2, <1>3, <2>0, <2>4 DEF Act, IInv, Typed, Moved, Expects
    <2>6. AllPlaced' BY <2>4, MovedKeepsPlaced
    <2>7. QueuedIsTrue'
      <3>1. outbox' \in [Sessions -> Seq(Whos \X Whats)] BY <2>0 DEF IInv, Typed
      <3>. QED BY <1>2, <2>0, <3>1, QueuesStayTrue, ExpectingKeeps DEF durable
    <2>8. ToldIsTrue'
      BY <1>2, <2>0, ExpectingKeeps DEF IInv, ToldIsTrue, durable
    <2>9. ExpectedIsKnown'
      <3>1. \A t \in Sessions : session'[t].at \in Busy => expected'[session'[t].job] # None
        <4>1. \A t \in Sessions : session[t].at \in Busy => session[t].job \in Actions
          BY DEF IInv, AllPlaced, Placed
        <4>. QED BY <1>2, <2>0, <2>2, <2>4, <4>1, ExpectingKeeps
                 DEF IInv, ExpectedIsKnown, Moved, durable
      <3>. QED BY <1>2, <2>0, <3>1, ExpectingKeeps DEF ExpectedIsKnown, durable
    <2>10. StopIsAnswered'
      BY <2>0, <2>2, <2>4, Distinct DEF Act, IInv, StopIsAnswered, Moved
    <2>11. PermitIsHeld' BY <1>1, <2>4, Distinct DEF Act, IInv, PermitIsHeld, Moved
    <2>12. CommitsOnce' BY <2>0 DEF IInv, CommitsOnce, Committed
    <2>13. DisablesRun'
      <3>1. q.at \notin {"none", "greeting"} BY <2>2 DEF Busy
      <3>. QED BY <1>1, <2>0, <2>4, <3>1, MovedKeepsDisables DEF Act
    <2>. QED BY <2>5, <2>6, <2>7, <2>8, <2>9, <2>10, <2>11, <2>12, <2>13 DEF IInv
  <1>. QED BY <1>4, <1>5

(* It has the gate.                                                         *)
LEMMA LockKeeps == ASSUME IInv, NEW s \in Sessions, Lock(s) PROVE IInv'
  <1>0. UNCHANGED <<revision, receipts, services, sends>> BY DEF Lock, durable, bounds
  <1> DEFINE q == [session[s] EXCEPT !.at = "deciding"]
  <1>1. session[s] \in SessionStates /\ session[s].at = "locking" /\ session[s].job \in Actions
        /\ session[s].owed = FALSE
    BY DEF IInv, Typed, AllPlaced, Placed, Lock, At, Busy, Asking, SessionStates
  <1>2. q \in SessionStates /\ q.at = "deciding" /\ q.job = session[s].job /\ q.owed = FALSE
    BY <1>1 DEF SessionStates, Busy
  <1>3. session' = [session EXCEPT ![s] = q] BY DEF Lock
  <1> HIDE DEF q
  <1>4. Moved(s, q)
    <2>1. Placed(q) BY <1>1, <1>2 DEF Placed, Quiet, Busy, Asking
    <2>. QED BY <1>2, <1>3, <2>1, MovesTo
  <1>5. Typed' BY <1>0, <1>4 DEF Lock, IInv, Typed, Moved
  <1>6. AllPlaced' BY <1>4, MovedKeepsPlaced
  <1>7. QueuedIsTrue' BY <1>0 DEF Lock, IInv, QueuedIsTrue, Claims, WentBy
  <1>8. ToldIsTrue' BY <1>0 DEF Lock, IInv, ToldIsTrue, WentBy
  <1>9. ExpectedIsKnown'
    BY <1>0, <1>1, <1>2, <1>4 DEF Lock, IInv, ExpectedIsKnown, Moved, Busy
  <1>10. StopIsAnswered' BY <1>1, <1>2, <1>4 DEF Lock, IInv, StopIsAnswered, Moved
  <1>11. PermitIsHeld' BY <1>1, <1>2, <1>4 DEF Lock, IInv, PermitIsHeld, Moved
  <1>12. CommitsOnce' BY <1>0 DEF IInv, CommitsOnce, Committed
  <1>13. DisablesRun' BY <1>0, <1>1, <1>2, <1>4, MovedKeepsDisables DEF Lock
  <1>. QED BY <1>5, <1>6, <1>7, <1>8, <1>9, <1>10, <1>11, <1>12, <1>13 DEF IInv

(* An applied action: its revision is the next one, once.                   *)
LEMMA CommitCounts ==
  ASSUME IInv, NEW id \in Actions, receipts[id] = None, Commit(id)
  PROVE  /\ revision' \in [Kinds -> Nat] /\ receipts' \in [Actions -> Nat \union {None}]
         /\ receipts'[id] # None /\ \A a \in Actions \ {id} : receipts'[a] = receipts[a]
         /\ \A k \in Kinds : revision[k] <= revision'[k]
         /\ CommitsOnce'
  <1> DEFINE k == Kind[id]
             n == revision[k] + 1
  <1>1. k \in Kinds /\ revision[k] \in Nat /\ n \in Nat /\ n # None
    BY Distinct DEF IInv, Typed
  <1>2. /\ revision' = [revision EXCEPT ![k] = n] /\ receipts' = [receipts EXCEPT ![id] = n]
    BY DEF Commit, IInv, Typed
  <1>3. /\ revision' \in [Kinds -> Nat] /\ receipts' \in [Actions -> Nat \union {None}]
        /\ receipts'[id] # None /\ \A a \in Actions \ {id} : receipts'[a] = receipts[a]
        /\ revision'[k] = n /\ \A x \in Kinds \ {k} : revision'[x] = revision[x]
    <2> HIDE DEF n
    <2>. QED BY <1>1, <1>2 DEF IInv, Typed
  <1>4. ASSUME NEW x \in Kinds PROVE revision[x] <= revision'[x]
    <2>1. revision[x] \in Nat BY DEF IInv, Typed
    <2>. QED BY <1>1, <1>3, <2>1
  <1>5. ASSUME NEW x \in Kinds PROVE revision'[x] = Cardinality(Committed(x)')
    <2>1. IsFiniteSet(Committed(x)) /\ revision[x] = Cardinality(Committed(x))
      BY SessionsAssumption, FS_Subset DEF Committed, IInv, CommitsOnce
    <2>2. CASE x = k
      <3>1. Committed(x)' = Committed(x) \union {id} /\ id \notin Committed(x)
        BY <1>3, <2>2 DEF Committed
      <3>2. Cardinality(Committed(x)') = Cardinality(Committed(x)) + 1
        BY <2>1, <3>1, FS_AddElement
      <3>. QED BY <1>3, <2>1, <2>2, <3>2
    <2>3. CASE x # k
      <3>1. Committed(x)' = Committed(x) BY <1>3, <2>3 DEF Committed
      <3>. QED BY <1>3, <2>1, <2>3, <3>1
    <2>. QED BY <2>2, <2>3
  <1>6. CommitsOnce' BY <1>5 DEF CommitsOnce
  <1>. QED BY <1>3, <1>4, <1>6

(* It is applied.                                                           *)
LEMMA AppliedKeeps ==
  ASSUME IInv, NEW s \in Sessions, NEW id \in Actions, session[s].at = "deciding",
         session[s].job = id, receipts[id] = None, expected[id] = revision[Kind[id]],
         Commit(id), Ask(s, id, "done", id \in Disabling),
         UNCHANGED <<writer, inspection, completion, reserved, stopping, expected, told, bounds>>,
         gate' \in Sessions \union {None}
  PROVE  IInv'
  <1>0. UNCHANGED <<sends, services>> BY DEF bounds
  <1>1. /\ "done" \in Whats /\ id \in Actions \union {Stop} /\ (id \in Disabling) \in BOOLEAN
        /\ id \in Whos
    BY DEF Whats, Whos
  <1>2. Asked(s, id, "done", id \in Disabling) BY <1>1, AskDoes
  <1>3. PICK q : /\ Moved(s, q) /\ q.at \in {"awaiting", "lost"}
                 /\ q.job = id /\ q.owed = (id \in Disabling)
    BY <1>2 DEF Asked
  <1>4. /\ revision' \in [Kinds -> Nat] /\ receipts' \in [Actions -> Nat \union {None}]
        /\ receipts'[id] # None /\ \A a \in Actions \ {id} : receipts'[a] = receipts[a]
        /\ \A k \in Kinds : revision[k] <= revision'[k]
        /\ CommitsOnce'
    BY CommitCounts
  <1>5. session[s].owed = FALSE
      BY DEF IInv, Typed, AllPlaced, Placed, Asking, SessionStates
  <1>6. \A a \in Actions : WentBy(a) => WentBy(a)'
    <2>1. \A a \in Actions : Kind[a] \in Kinds /\ revision[Kind[a]] \in Nat
                            /\ revision'[Kind[a]] \in Nat
      BY <1>4, SessionsAssumption DEF IInv, Typed
    <2>2. ~WentBy(id) BY <2>1 DEF WentBy
    <2>. QED BY <1>4, <2>1, <2>2 DEF WentBy, IInv, Typed
  <1>7. \A who \in Whos, what \in Whats : Claims(who, what) => Claims(who, what)'
    BY <1>4, <1>6 DEF Claims
  <1>8. Typed' BY <1>0, <1>2, <1>3, <1>4 DEF IInv, Typed, Moved, Asked
  <1>9. AllPlaced' BY <1>3, MovedKeepsPlaced
  <1>10. QueuedIsTrue'
    <2>1. Claims(id, "done")' BY <1>4, Distinct DEF Claims
    <2>. QED BY <1>2, <1>7, <2>1, QueuesStayTrue DEF Asked
  <1>11. ToldIsTrue' BY <1>4, <1>6 DEF IInv, ToldIsTrue
  <1>12. ExpectedIsKnown'
    <2>1. \A a \in Actions : Kind[a] \in Kinds /\ revision[Kind[a]] \in Nat
                            /\ revision'[Kind[a]] \in Nat
      BY <1>4, SessionsAssumption DEF IInv, Typed
    <2>2. \A a \in Actions : expected'[a] # None => expected'[a] <= revision'[Kind[a]]
      BY <1>4, <2>1 DEF IInv, Typed, ExpectedIsKnown
    <2>3. \A t \in Sessions : session'[t].at \in Busy => expected'[session'[t].job] # None
      BY <1>3 DEF IInv, ExpectedIsKnown, Moved, Busy
    <2>. QED BY <2>2, <2>3 DEF ExpectedIsKnown
  <1>13. StopIsAnswered' BY <1>3, Distinct DEF IInv, StopIsAnswered, Moved
  <1>14. PermitIsHeld' BY <1>3, Distinct DEF IInv, PermitIsHeld, Moved
  <1>15. DisablesRun'
    <2>1. \A d \in Disabling : receipts'[d] # receipts[d] => q.owed /\ q.job = d
      BY <1>3, <1>4, Distinct
    <2>2. q.at \notin {"none", "greeting"} BY <1>3
    <2>. QED BY <1>0, <1>3, <1>5, <2>1, <2>2, MovedKeepsDisables
  <1>. QED BY <1>4, <1>8, <1>9, <1>10, <1>11, <1>12, <1>13, <1>14, <1>15 DEF IInv

(* It is decided, by the receipt and the revision as they are now.          *)
LEMMA DecideKeeps == ASSUME IInv, NEW s \in Sessions, Decide(s) PROVE IInv'
  <1> DEFINE id == session[s].job
  <1>1. /\ session[s].at = "deciding" /\ id \in Actions /\ session[s].owed = FALSE
        /\ id # Stop /\ session[s].at \notin {"none", "greeting"}
    BY Distinct
       DEF Decide, At, IInv, Typed, AllPlaced, Placed, Busy, Asking, SessionStates
  <1>2. gate' \in Sessions \union {None} BY DEF Decide, IInv, Typed
  <1>3. UNCHANGED <<expected, bounds>> BY DEF Decide
  <1>4. Expects /\ sends' \in Nat /\ UNCHANGED services
    BY <1>3 DEF Expects, IInv, Typed, bounds
  <1>5. Kind[id] \in Kinds /\ revision[Kind[id]] \in Nat /\ expected[id] \in Nat
        /\ expected[id] <= revision[Kind[id]]
    BY <1>1, SessionsAssumption DEF IInv, Typed, ExpectedIsKnown, Busy
  <1>6. CASE Verdict(id) = "applied" /\ Commit(id) /\ Ask(s, id, "done", id \in Disabling)
    <2>1. receipts[id] = None /\ expected[id] = revision[Kind[id]]
      BY <1>6 DEF Verdict, Receipted
    <2>. QED BY <1>1, <1>2, <1>6, <2>1, AppliedKeeps DEF Decide
  <1>7. CASE Verdict(id) = "replayed" /\ Ask(s, id, "done", FALSE) /\ UNCHANGED durable
    <2>1. Claims(id, "done") BY <1>1, <1>7 DEF Verdict, Receipted, Claims
    <2>. QED BY <1>1, <1>2, <1>3, <1>4, <1>7, <2>1, AnsweredKeeps DEF Decide
  <1>8. CASE Verdict(id) = "stale" /\ Ask(s, id, "stale", FALSE) /\ UNCHANGED durable
    <2>1. WentBy(id) BY <1>5, <1>8, Distinct DEF Verdict, Receipted, WentBy
    <2>2. Claims(id, "stale") BY <1>1, <2>1 DEF Claims
    <2>. QED BY <1>1, <1>2, <1>3, <1>4, <1>8, <2>2, AnsweredKeeps DEF Decide
  <1>9. CASE Ask(s, id, "refused", FALSE) /\ UNCHANGED durable
    <2>1. Claims(id, "refused") BY <1>1 DEF Claims
    <2>. QED BY <1>1, <1>2, <1>3, <1>4, <1>9, <2>1, AnsweredKeeps DEF Decide
  <1>. QED BY <1>6, <1>7, <1>8, <1>9 DEF Decide

(* What a disable owes is started.                                          *)
LEMMA SettleKeeps == ASSUME IInv, NEW s \in Sessions, Settle(s) PROVE IInv'
  <1>0. UNCHANGED <<revision, receipts, services, sends, outbox, told, expected, stopping,
                  reserved>>
    BY DEF Settle, durable, bounds
  <1>1. /\ session[s] \in SessionStates /\ session[s].at \in {"written", "lost"}
        /\ session[s].job \in Actions
    BY DEF Settle, At, IInv, Typed
  <1>2. PICK q : /\ session' = [session EXCEPT ![s] = q] /\ q \in SessionStates
                 /\ q.at \in {"reading", "closing"} /\ q.job = None /\ q.owed = FALSE
    <2>1. [NoSession EXCEPT !.at = "closing"] \in SessionStates
          /\ [NoSession EXCEPT !.at = "closing"].at = "closing"
          /\ [NoSession EXCEPT !.at = "closing"].job = None
          /\ [NoSession EXCEPT !.at = "closing"].owed = FALSE
      BY DEF NoSession, SessionStates, Quiet
    <2> DEFINE p == [NoSession EXCEPT !.at = "reading", !.opened = session[s].opened]
    <2>2. p \in SessionStates /\ p.at = "reading" /\ p.job = None /\ p.owed = FALSE
      BY <1>1 DEF NoSession, SessionStates, Quiet
    <2>3. \/ session' = [session EXCEPT ![s] = p]
          \/ session' = [session EXCEPT ![s] = [NoSession EXCEPT !.at = "closing"]]
      BY DEF Settle, Break
    <2> HIDE DEF p
    <2>. QED BY <2>1, <2>2, <2>3
  <1>3. Moved(s, q)
    <2>1. Placed(q) BY <1>2 DEF Placed, Quiet, Busy, Asking
    <2>. QED BY <1>2, <2>1, MovesTo
  <1>4. CalmInspections BY DEF Settle, Break, Cancelled, CalmInspections, IInv, Typed
  <1>5. session[s].owed => session[s].job \in Disabling
    BY DEF IInv, AllPlaced, Placed
  <1>6. /\ completion' \in [Disabling ->
             [by : Sessions \union {None}, at : {"idle", "running", "done"}]]
        /\ \A id \in Disabling :
             \/ completion'[id] = completion[id] /\ ~(session[s].owed /\ session[s].job = id)
             \/ completion'[id] = [by |-> s, at |-> "running"]
    BY <1>5 DEF Settle, IInv, Typed
  <1>7. Typed' BY <1>0, <1>3, <1>4, <1>6 DEF Settle, IInv, Typed, Moved, CalmInspections
  <1>8. AllPlaced' BY <1>3, MovedKeepsPlaced
  <1>9. QueuedIsTrue' BY <1>0 DEF IInv, QueuedIsTrue, Claims, WentBy
  <1>10. ToldIsTrue' BY <1>0 DEF IInv, ToldIsTrue, WentBy
  <1>11. ExpectedIsKnown' BY <1>0, <1>2, <1>3 DEF IInv, ExpectedIsKnown, Moved, Busy
  <1>12. StopIsAnswered' BY <1>0, <1>2, <1>3, Distinct DEF IInv, StopIsAnswered, Moved
  <1>13. PermitIsHeld' BY <1>0, <1>1, <1>3, Distinct DEF IInv, PermitIsHeld, Moved
  <1>14. CommitsOnce' BY <1>0 DEF IInv, CommitsOnce, Committed
  <1>15. DisablesRun'
    <2>1. SUFFICES ASSUME NEW id \in Disabling
          PROVE /\ completion'[id].at = "running" =>
                     /\ completion'[id].by \in Sessions
                     /\ session'[completion'[id].by].at \notin {"none", "greeting"}
                /\ (services = 1 /\ receipts[id] # None) =>
                     \/ completion'[id].at \in {"running", "done"}
                     \/ \E t \in Sessions : session'[t].owed /\ session'[t].job = id
      BY <1>0 DEF DisablesRun
    <2>2. CASE completion'[id] = [by |-> s, at |-> "running"]
        BY <1>2, <1>3, <2>2 DEF Moved
    <2>3. CASE completion'[id] = completion[id] /\ ~(session[s].owed /\ session[s].job = id)
      BY <1>2, <1>3, <2>3 DEF IInv, DisablesRun, Moved
    <2>. QED BY <1>6, <2>2, <2>3
  <1>. QED BY <1>7, <1>8, <1>9, <1>10, <1>11, <1>12, <1>13, <1>14, <1>15 DEF IInv

(* A stop is asked for, and sent.                                           *)
LEMMA AskStopKeeps == ASSUME IInv, NEW s \in Sessions, AskStop(s) PROVE IInv'
  <1>0. UNCHANGED <<revision, receipts, services, sends, told, expected, stopping, completion>>
    BY DEF AskStop, durable, bounds
  <1>1. /\ session[s].at = "reading" /\ session[s].at \in Quiet
        /\ session[s].job = None /\ session[s].owed = FALSE
        /\ session[s].opened \in SUBSET Kinds
    BY QuietSession DEF AskStop, At, Quiet, SessionStates
  <1>2. CASE Reply(s, session[s].opened) /\ UNCHANGED reserved
    <2>1. CalmSession(s) /\ CalmQueues /\ CalmInspections BY <1>1, <1>2, ReplyIsCalm
    <2>2. Calm(s) BY <1>2, <2>1, UnchangedIsCalm DEF AskStop, Calm
    <2>. QED BY <2>2, CalmKeeps
  <1>3. CASE reserved' = s /\ Ask(s, Stop, "accepted", FALSE) /\ UNCHANGED inspection
    <2>1. "accepted" \in Whats /\ Stop \in Actions \union {Stop} /\ FALSE \in BOOLEAN
          /\ Stop \in Whos
      BY DEF Whats, Whos
    <2>2. Asked(s, Stop, "accepted", FALSE) BY <1>3, <2>1, AskDoes
    <2>3. PICK q : /\ Moved(s, q) /\ q.at \in {"awaiting", "lost"}
                   /\ q.job = Stop /\ q.owed = FALSE
      BY <2>2 DEF Asked
    <2>4. Typed' BY <1>0, <1>3, <2>2, <2>3 DEF AskStop, IInv, Typed, Moved, Asked
    <2>5. AllPlaced' BY <2>3, MovedKeepsPlaced
    <2>6. QueuedIsTrue'
      <3>1. Claims(Stop, "accepted")' BY DEF Claims
      <3>. QED BY <1>0, <2>2, <3>1, QueuesStayTrue, ClaimsLast DEF Asked, durable
    <2>7. ToldIsTrue' BY <1>0 DEF IInv, ToldIsTrue, WentBy
    <2>8. ExpectedIsKnown' BY <1>0, <2>3 DEF IInv, ExpectedIsKnown, Moved, Busy
    <2>9. StopIsAnswered' BY <1>0, <2>3 DEF IInv, StopIsAnswered, Moved
    <2>10. PermitIsHeld' BY <1>3, <2>3 DEF PermitIsHeld, Moved
    <2>11. CommitsOnce' BY <1>0 DEF IInv, CommitsOnce, Committed
    <2>12. DisablesRun'
      <3>1. q.at \notin {"none", "greeting"} BY <2>3
      <3>. QED BY <1>0, <1>1, <2>3, <3>1, MovedKeepsDisables
    <2>. QED BY <2>4, <2>5, <2>6, <2>7, <2>8, <2>9, <2>10, <2>11, <2>12 DEF IInv
  <1>. QED BY <1>2, <1>3 DEF AskStop

LEMMA SendStopKeeps == ASSUME IInv, NEW s \in Sessions, SendStop(s) PROVE IInv'
  <1>0. UNCHANGED <<revision, receipts, services, sends, outbox, told, expected, completion>>
    BY DEF SendStop, durable, bounds
  <1>1. session[s].job = Stop /\ session[s].owed = FALSE
    BY Distinct DEF SendStop, IInv, Typed, AllPlaced, Placed, SessionStates
  <1> DEFINE q == [NoSession EXCEPT !.at = "closing"]
  <1>2. q \in SessionStates /\ q.at = "closing" /\ q.job = None /\ q.owed = FALSE
    BY DEF NoSession, SessionStates, Quiet
  <1>3. session' = [session EXCEPT ![s] = q] BY DEF SendStop, Break
  <1> HIDE DEF q
  <1>4. Moved(s, q)
    <2>1. Placed(q) BY <1>2 DEF Placed, Quiet, Busy, Asking
    <2>. QED BY <1>2, <1>3, <2>1, MovesTo
  <1>5. CalmInspections BY DEF SendStop, Break, Cancelled, CalmInspections, IInv, Typed
  <1>6. Typed' BY <1>0, <1>4, <1>5 DEF SendStop, IInv, Typed, Moved, CalmInspections
  <1>7. AllPlaced' BY <1>4, MovedKeepsPlaced
  <1>8. QueuedIsTrue' BY <1>0 DEF IInv, QueuedIsTrue, Claims, WentBy
  <1>9. ToldIsTrue' BY <1>0 DEF IInv, ToldIsTrue, WentBy
  <1>10. ExpectedIsKnown' BY <1>0, <1>2, <1>4 DEF IInv, ExpectedIsKnown, Moved, Busy
  <1>11. StopIsAnswered'
    <2>1. session[s].at = "written" => <<Stop, "accepted">> \in told
      BY <1>1 DEF IInv, StopIsAnswered
    <2>2. stopping' = Stop => <<Stop, "accepted">> \in told
      BY <2>1 DEF SendStop, At, IInv, StopIsAnswered
    <2>. QED BY <1>0, <1>2, <1>4, <2>2, Distinct DEF IInv, StopIsAnswered, Moved
  <1>12. PermitIsHeld' BY DEF SendStop, PermitIsHeld
  <1>13. CommitsOnce' BY <1>0 DEF IInv, CommitsOnce, Committed
  <1>14. DisablesRun'
    <2>1. q.at \notin {"none", "greeting"} BY <1>2
    <2>. QED BY <1>0, <1>1, <1>4, <2>1, MovedKeepsDisables
  <1>. QED BY <1>6, <1>7, <1>8, <1>9, <1>10, <1>11, <1>12, <1>13, <1>14 DEF IInv

(* Whoever awaits a frame learns whether it was written.                    *)
LEMMA HearsDoes ==
  ASSUME IInv, NEW s \in Sessions, session[s].at = "awaiting", NEW at \in {"written", "lost"},
         session' = [session EXCEPT ![s].at = at]
  PROVE  \E q : /\ Moved(s, q) /\ q.at = at
                /\ q.job = session[s].job /\ q.owed = session[s].owed
  <1> DEFINE q == [session[s] EXCEPT !.at = at]
  <1>1. session[s] \in SessionStates /\ Placed(session[s]) BY DEF IInv, Typed, AllPlaced
  <1>2. /\ q \in SessionStates /\ q.at = at /\ q.job = session[s].job
        /\ q.owed = session[s].owed
    BY <1>1 DEF SessionStates, Asking
  <1>3. session' = [session EXCEPT ![s] = q] OBVIOUS
  <1> HIDE DEF q
  <1>4. Placed(q) BY <1>1, <1>2 DEF Placed, Quiet, Busy, Asking
  <1>5. Moved(s, q) BY <1>2, <1>3, <1>4, MovesTo
  <1>. QED BY <1>2, <1>5

(* The writer writes, or gives up.                                          *)
LEMMA WriteKeeps == ASSUME IInv, NEW s \in Sessions, Write(s) PROVE IInv'
  <1> DEFINE who == Head(outbox[s])[1]
             what == Head(outbox[s])[2]
  <1>0. UNCHANGED <<revision, receipts, services, sends, expected, stopping, reserved, completion>>
    BY DEF Write, durable, bounds
  <1>1. /\ outbox' \in [Sessions -> Seq(Whos \X Whats)]
        /\ \A t \in Sessions : \A n \in DOMAIN outbox'[t] :
              \E m \in DOMAIN outbox[t] : outbox'[t][n] = outbox[t][m]
        /\ 1 \in DOMAIN outbox[s] /\ Head(outbox[s]) = outbox[s][1]
        /\ outbox[s][1] \in Whos \X Whats
    BY TakenFrames DEF Write, IInv
  <1>2. Claims(who, what) BY <1>1 DEF IInv, QueuedIsTrue
  <1>3. /\ told \subseteq told' /\ told' \subseteq told \union {<<who, what>>}
        /\ what \in {"done", "stale", "accepted"} => <<who, what>> \in told'
    BY DEF Write
  <1>4. CalmInspections
    BY DEF Write, CalmInspections, IInv, Typed
  <1>5. QueuedIsTrue' BY <1>0, <1>1, QueuesStayTrue, ClaimsLast DEF durable
  <1>6. ToldIsTrue'
    <2>1. SUFFICES ASSUME NEW id \in Actions
          PROVE  /\ <<id, "done">> \in told' => receipts[id] # None
                 /\ <<id, "stale">> \in told' => WentBy(id)
      BY <1>0 DEF ToldIsTrue, WentBy
    <2>2. <<id, "done">> \in told' => receipts[id] # None
      BY <1>2, <1>3 DEF IInv, ToldIsTrue, Claims
    <2>3. <<id, "stale">> \in told' => WentBy(id)
      BY <1>2, <1>3 DEF IInv, ToldIsTrue, Claims
    <2>. QED BY <2>2, <2>3
  <1>7. CommitsOnce' BY <1>0 DEF IInv, CommitsOnce, Committed
  <1>8. CASE UNCHANGED session
    <2>1. Typed' BY <1>0, <1>1, <1>4, <1>8 DEF Write, IInv, Typed, CalmInspections
    <2>2. AllPlaced' BY <1>8 DEF IInv, AllPlaced
    <2>3. ExpectedIsKnown' BY <1>0, <1>8 DEF IInv, ExpectedIsKnown
    <2>4. StopIsAnswered' BY <1>0, <1>3, <1>8 DEF IInv, StopIsAnswered
    <2>5. PermitIsHeld' BY <1>0, <1>8 DEF IInv, PermitIsHeld
    <2>6. DisablesRun' BY <1>0, <1>8 DEF IInv, DisablesRun
    <2>. QED BY <1>5, <1>6, <1>7, <2>1, <2>2, <2>3, <2>4, <2>5, <2>6 DEF IInv
  <1>9. CASE Awaits(s, who) /\ session' = [session EXCEPT ![s].at = "written"]
    <2>1. session[s].at = "awaiting" /\ who = session[s].job BY <1>9 DEF Awaits, At
    <2>2. PICK q : /\ Moved(s, q) /\ q.at = "written"
                   /\ q.job = session[s].job /\ q.owed = session[s].owed
      BY <1>9, <2>1, HearsDoes
    <2>3. Typed'
        BY <1>0, <1>1, <1>4, <2>2 DEF Write, IInv, Typed, CalmInspections, Moved
    <2>4. AllPlaced' BY <2>2, MovedKeepsPlaced
    <2>5. ExpectedIsKnown' BY <1>0, <2>2 DEF IInv, ExpectedIsKnown, Moved, Busy
    <2>6. StopIsAnswered'
      <3>1. session[s].job = Stop => <<Stop, "accepted">> \in told'
        BY <1>2, <1>3, <2>1 DEF Claims
      <3>. QED BY <1>0, <1>3, <2>2, <3>1 DEF IInv, StopIsAnswered, Moved
    <2>7. PermitIsHeld' BY <1>0, <2>2 DEF IInv, PermitIsHeld, Moved
    <2>8. DisablesRun'
      <3>1. q.at \notin {"none", "greeting"} BY <2>2
      <3>. QED BY <1>0, <2>2, <3>1, MovedKeepsDisables
    <2>. QED BY <1>5, <1>6, <1>7, <2>3, <2>4, <2>5, <2>6, <2>7, <2>8 DEF IInv
  <1>. QED BY <1>8, <1>9 DEF Write

LEMMA GiveUpKeeps == ASSUME IInv, NEW s \in Sessions, GiveUp(s) PROVE IInv'
  <1>0. UNCHANGED <<revision, receipts, services, sends, expected, stopping, reserved, completion,
                    told>>
    BY DEF GiveUp, durable, bounds
  <1>1. CalmQueues /\ CalmInspections /\ writer' \in [Sessions -> BOOLEAN]
    BY DroppedIsCalm DEF GiveUp
  <1>2. CASE UNCHANGED session
    <2>1. Calm(s) BY <1>1, <1>2, UnchangedIsCalm DEF GiveUp, Calm
    <2>. QED BY <2>1, CalmKeeps
  <1>3. CASE session[s].at = "awaiting" /\ session' = [session EXCEPT ![s].at = "lost"]
    <2>1. PICK q : /\ Moved(s, q) /\ q.at = "lost"
                   /\ q.job = session[s].job /\ q.owed = session[s].owed
      BY <1>3, HearsDoes
    <2>2. Typed' BY <1>0, <1>1, <2>1
                 DEF GiveUp, IInv, Typed, CalmInspections, CalmQueues, Moved
    <2>3. AllPlaced' BY <2>1, MovedKeepsPlaced
    <2>4. QueuedIsTrue'
      <3>1. \A t \in Sessions : \A n \in DOMAIN outbox'[t] :
              n \in DOMAIN outbox[t] /\ outbox'[t][n] = outbox[t][n]
        BY DroppedFrames DEF GiveUp, Dropped, IInv
      <3>. QED BY <1>0, <1>1, <3>1, QueuesStayTrue, ClaimsLast DEF CalmQueues, durable
    <2>5. ToldIsTrue' BY <1>0 DEF IInv, ToldIsTrue, WentBy
    <2>6. ExpectedIsKnown' BY <1>0, <2>1 DEF IInv, ExpectedIsKnown, Moved, Busy
    <2>7. StopIsAnswered' BY <1>0, <2>1 DEF IInv, StopIsAnswered, Moved
    <2>8. PermitIsHeld' BY <1>0, <2>1 DEF IInv, PermitIsHeld, Moved
    <2>9. CommitsOnce' BY <1>0 DEF IInv, CommitsOnce, Committed
    <2>10. DisablesRun'
      <3>1. q.at \notin {"none", "greeting"} BY <2>1
      <3>. QED BY <1>0, <2>1, <3>1, MovedKeepsDisables
    <2>. QED BY <2>2, <2>3, <2>4, <2>5, <2>6, <2>7, <2>8, <2>9, <2>10 DEF IInv
  <1>. QED BY <1>2, <1>3 DEF GiveUp, At

(* A free slot, a completion that was never started.                        *)
LEMMA NoSessionIsPlaced ==
  NoSession \in SessionStates /\ Placed(NoSession) /\ NoSession.at = "none"
  /\ NoSession.job = None /\ NoSession.owed = FALSE
  BY DEF NoSession, SessionStates, Placed, Quiet, Busy, Asking

LEMMA NoTaskIsIdle ==
  NoTask \in [by : Sessions \union {None}, at : {"idle", "running", "done"}] /\ NoTask.at = "idle"
  BY DEF NoTask

(* What is on disk, and what clients were told of it, outlives the service. *)
LEMMA RestartKeeps == ASSUME IInv, Restart PROVE IInv'
  <1>0. UNCHANGED <<revision, receipts, expected, sends>> BY DEF Restart, durable
  <1>1. Typed' BY <1>0, NoSessionIsPlaced, NoTaskIsIdle DEF Restart, IInv, Typed
  <1>2. \A s \in Sessions : session'[s] = NoSession /\ outbox'[s] = <<>> BY DEF Restart
  <1>3. AllPlaced' BY <1>2, NoSessionIsPlaced DEF AllPlaced
  <1>4. QueuedIsTrue' BY <1>2 DEF QueuedIsTrue
  <1>5. ToldIsTrue' BY <1>0 DEF Restart, IInv, ToldIsTrue, WentBy
  <1>6. ExpectedIsKnown'
      BY <1>0, <1>2, NoSessionIsPlaced DEF IInv, ExpectedIsKnown, Busy
  <1>7. StopIsAnswered' BY <1>2, NoSessionIsPlaced, Distinct DEF Restart, StopIsAnswered
  <1>8. PermitIsHeld' BY DEF Restart, PermitIsHeld
  <1>9. CommitsOnce' BY <1>0 DEF IInv, CommitsOnce, Committed
  <1>10. DisablesRun'
    <2>1. services' # 1 BY DEF Restart, IInv, Typed
    <2>2. \A id \in Disabling : completion'[id] = NoTask BY DEF Restart
    <2>. QED BY <2>1, <2>2, NoTaskIsIdle DEF DisablesRun
  <1>. QED BY <1>1, <1>3, <1>4, <1>5, <1>6, <1>7, <1>8, <1>9, <1>10 DEF IInv

(* The initial state.                                                       *)
LEMMA InitHolds == Init => IInv
  <1> SUFFICES ASSUME Init PROVE IInv OBVIOUS
  <1>1. Typed BY NoSessionIsPlaced, NoTaskIsIdle DEF Init, Typed
  <1>2. AllPlaced BY NoSessionIsPlaced DEF Init, AllPlaced
  <1>3. QueuedIsTrue /\ ToldIsTrue BY DEF Init, QueuedIsTrue, ToldIsTrue
  <1>4. ExpectedIsKnown BY NoSessionIsPlaced DEF Init, ExpectedIsKnown, Busy
  <1>5. StopIsAnswered /\ PermitIsHeld
    BY NoSessionIsPlaced, Distinct DEF Init, StopIsAnswered, PermitIsHeld
  <1>6. CommitsOnce
    <2>1. \A k \in Kinds : Committed(k) = {} BY DEF Init, Committed
    <2>. QED BY <2>1, FS_EmptySet DEF Init, CommitsOnce
  <1>7. DisablesRun BY NoTaskIsIdle, Distinct DEF Init, DisablesRun
  <1>. QED BY <1>1, <1>2, <1>3, <1>4, <1>5, <1>6, <1>7 DEF IInv

(* Every step preserves the invariant.                                      *)
LEMMA NextHolds == ASSUME IInv, [Next]_vars PROVE IInv'
  <1>1. ASSUME NEW s \in Sessions, Frames(s) PROVE IInv'
    BY <1>1, AcceptKeeps, GreetKeeps, DismissKeeps, UnreadableKeeps, SaidKeeps, AskStopKeeps,
       OpenKeeps, ActKeeps, InspectKeeps, InspectAgainKeeps, CancelKeeps
       DEF Frames, Misuse, Operate, Transfer, Push
  <1>2. ASSUME NEW s \in Sessions, Step(s) PROVE IInv'
    BY <1>2, LockKeeps, DecideKeeps, SettleKeeps, SendStopKeeps, InterruptedKeeps, OverdueKeeps,
       EndKeeps
       DEF Step
  <1>3. ASSUME NEW s \in Sessions, Writing(s) \/ Hears(s) PROVE IInv'
    BY <1>3, WriteKeeps, GiveUpKeeps, ReapedKeeps, ReapKeeps DEF Writing, Hears
  <1>4. ASSUME UNCHANGED vars PROVE IInv'
    <2>1. UNCHANGED <<session, outbox, writer, inspection, completion, gate, reserved, stopping,
                      revision, receipts, expected, told, sends, services>>
      BY <1>4 DEF vars, tasks, durable, bounds
    <2>2. Typed' /\ AllPlaced' BY <2>1 DEF IInv, Typed, AllPlaced
    <2>3. QueuedIsTrue' /\ ToldIsTrue'
      BY <2>1 DEF IInv, QueuedIsTrue, Claims, ToldIsTrue, WentBy
    <2>4. ExpectedIsKnown' /\ StopIsAnswered' /\ PermitIsHeld'
      BY <2>1 DEF IInv, ExpectedIsKnown, StopIsAnswered, PermitIsHeld
    <2>5. CommitsOnce' /\ DisablesRun'
        BY <2>1 DEF IInv, CommitsOnce, Committed, DisablesRun
    <2>. QED BY <2>2, <2>3, <2>4, <2>5 DEF IInv
  <1>. QED BY <1>1, <1>2, <1>3, <1>4, FinishKeeps, CompleteKeeps, RestartKeeps DEF Next

-----------------------------------------------------------------------------
(* What clients are told of actions and stops is so, for any connections,   *)
(* actions, kinds of session, inspections and size of the queues.           *)
THEOREM AnswersStayTrue == Spec => []AnswersAreTrue
  <1>1. IInv => AnswersAreTrue
    BY DEF IInv, AnswersAreTrue, CommitsOnce, Committed, ToldIsTrue, WentBy, StopIsAnswered,
           PermitIsHeld
  <1>. QED BY <1>1, InitHolds, NextHolds, PTL DEF Spec

(* A disable that committed is wound down by the service that committed it, *)
(* whether or not its client waits, and no session ends over it.            *)
THEOREM DisablesAreCompleted == Spec => []DisablesComplete
  <1>1. IInv => DisablesComplete
    BY DEF IInv, DisablesComplete, DisablesRun, At
  <1>. QED BY <1>1, InitHolds, NextHolds, PTL DEF Spec

-----------------------------------------------------------------------------
(* The home and its backups.                                                *)

(* What the variables hold. A version in use is of work that was done.       *)
Files == [Pieces -> 0 .. work]
Ledgers ==
  [detail : SUBSET Lines, priced : SUBSET Lines, rolled : [Lines -> Nat],
   cursor : [Logs -> [Paths -> Nat]], retention : Int, catalog : BOOLEAN]
Databases ==
  [schema : Nat, rev : Files, plans : SUBSET (0 .. work), drift : SUBSET Targets,
   recovery : BOOLEAN, records : SUBSET [plan : 0 .. work, day : 0 .. MaxDay],
   ledger : Ledgers]
Artifacts == [db : Databases, file : Files, live : Files]
Copies == [db : Databases, live : Files]
Operations ==
  [stage : Stages \cup Pieces, kind : {"create", "restore"}, seen : Files \cup {<<>>},
   hurt : Nat, edited : SUBSET Targets, copy : Copies \cup {<<>>},
   wanted : Artifacts \cup {<<>>}, before : Artifacts \cup {<<>>},
   way : {"forward", "back"}]

Readable(d) == d.schema \in OldSchema .. SchemaVersion

DbType == db \in Databases /\ Readable(db)
FileType == file \in Files /\ work \in 0 .. MaxWork
SvcType == svc \in {"down", "opening", "up"} /\ running \subseteq Targets
BackupsType == backups \subseteq Artifacts
QueueType == serving \subseteq 0 .. work /\ queue \subseteq 0 .. work
DayType == today \in 0 .. MaxDay /\ faults \in 0 .. MaxFaults
LogsType ==
  /\ logs \in [Logs -> [path : Paths, days : Seq(0 .. MaxDay)]]
  /\ \A l \in Logs : Len(logs[l].days) <= MaxLines
ScanType == scan = NoScan \/ scan \in [Logs -> [path : Paths, lines : Nat]]

(* What an operation has at each of its stages: what it read and copied      *)
(* until it installs the backup, and then, of a restore, where it may go.    *)
Early == {"copy", "install"}
OpType ==
  \/ op = NoOperation
  \/ /\ op \in Operations
     /\ svc = "up"
     /\ (op.stage \in Early => op.way = "forward" /\ op.seen \in Files)
     /\ (op.stage = "install" => op.copy \in Copies /\ Readable(op.copy.db))
     /\ (op.kind = "restore" => op.wanted \in Artifacts /\ Readable(op.wanted.db))
     /\ (op.stage \notin Early =>
           op.kind = "restore" /\ op.before \in Artifacts /\ Readable(op.before.db))
     /\ (op.stage = "reserve" => op.way = "forward")

HomeTypes ==
  /\ DbType /\ FileType /\ SvcType /\ BackupsType /\ QueueType /\ DayType
  /\ LogsType /\ ScanType /\ OpType

(* Every database there is: the home's, those of its backups, and those an   *)
(* operation copied, chose or may go back to.                                *)
HeldBy(o) == {a.db : a \in {o.copy, o.wanted, o.before} \ {<<>>}}
HeldDatabases ==
  {db} \cup {a.db : a \in backups} \cup (IF op = NoOperation THEN {} ELSE HeldBy(op))

(* The plans of a database: its records and its revisions name plans it had. *)
KnowsPlans(d) ==
  /\ \A r \in d.records : r.plan \in d.plans
  /\ \A p \in Pieces : d.rev[p] # 0 => d.rev[p] \in d.plans

(* A ledger counts a line once for each path whose cursor is past it at most, *)
(* and once at least if any is.                                              *)
CountIn(ledger, line) == ledger.rolled[line] + IF line \in ledger.detail THEN 1 ELSE 0
Past(ledger, line, p) == line[2] <= ledger.cursor[line[1]][p]
Passes(ledger, line) ==
  (IF Past(ledger, line, "sessions") THEN 1 ELSE 0)
    + (IF Past(ledger, line, "archived") THEN 1 ELSE 0)
Counted(ledger) ==
  /\ ledger.priced \subseteq ledger.detail
  /\ \A line \in Lines :
       /\ CountIn(ledger, line) <= Passes(ledger, line)
       /\ (Passes(ledger, line) >= 1 => CountIn(ledger, line) >= 1)

(* No cursor is past what the scan under way read, or past the log, and none  *)
(* is in the archive before the log is.                                      *)
ReadOf(l) == IF scan = NoScan THEN Len(logs[l].days) ELSE scan[l].lines
Behind(ledger) ==
  \A l \in Logs :
    /\ \A p \in Paths : ledger.cursor[l][p] <= ReadOf(l)
    /\ (logs[l].path = "sessions" => ledger.cursor[l]["archived"] = 0)

ScanInv ==
  scan # NoScan => \A l \in Logs :
    /\ scan[l].lines <= Len(logs[l].days)
    /\ (logs[l].path = "sessions" => scan[l].path = "sessions")

PlansInv ==
  /\ \A d \in HeldDatabases : KnowsPlans(d)
  /\ serving \cup queue \subseteq db.plans
  /\ \A t \in running : db.rev[t] # 0
LedgerInv ==
  /\ \A d \in HeldDatabases : Counted(d.ledger) /\ Behind(d.ledger)
  /\ ScanInv

(* Nothing is served and nothing waits to be recorded from the end of the     *)
(* drain until the takeovers resume.                                         *)
Emptied == {"reserve", "database", "verify"} \cup Pieces
DrainInv == op.stage \in Emptied => running = {} /\ serving = {} /\ queue = {}

(* Until the backup is installed no file goes back to what it was: only edits *)
(* move files then, each to a version that is new.                           *)
NotAfter(f, g) == \A p \in Pieces : f[p] <= g[p]
MomentInv ==
  /\ \A a \in backups : a.file = a.live
  /\ (op.stage = "copy" => NotAfter(op.seen, file))
  /\ (op.stage = "install" => NotAfter(op.seen, op.copy.live) /\ NotAfter(op.copy.live, file))

(* The part of a database the gates protect.                                 *)
Gated(d) == <<d.rev, d.drift, d.recovery>>

(* The pieces that hold what they are to hold at a stage, edits excepted.     *)
AppliedAt(stage) ==
  CASE stage \in {"verify", "resume"} -> Pieces
    [] stage = Accounts -> {}
    [] stage \in Targets ->
         {Accounts} \cup {Order[j] : j \in {j \in DOMAIN Order :
            \A i \in DOMAIN Order : Order[i] = stage => j < i}}
    [] OTHER -> {}
Applied == AppliedAt(op.stage)

(* What went wrong: on the way back one thing at least, and a file that is    *)
(* not what it should be is one thing more.                                  *)
Blame == op.hurt + (IF Unservable(op.wanted) THEN 1 ELSE 0)
Excused == IF op.way = "forward" THEN op.hurt >= 1 ELSE Blame >= 2

RestoreInv ==
  /\ (op.stage = "install" => Gated(op.copy.db) = Gated(db))
  /\ (op.stage \in {"shutdown", "reserve"} /\ op.way = "forward" =>
        /\ Gated(op.before.db) = Gated(db)
        /\ \A p \in Pieces \ op.edited : file[p] = op.before.file[p]
        /\ (op.hurt >= 1 \/ file = op.before.file))
  /\ (op.stage \in Pieces \cup {"verify", "resume"} =>
        /\ Gated(Wanted.db) = Gated(db)
        /\ \A p \in Applied : Excused \/ file[p] = Wanted.file[p])
  /\ (op.stage = "resume" =>
        \A p \in Pieces \ op.edited : file[p] = Wanted.file[p])
  /\ (op.stage \notin Early \cup {"idle"} /\ op.way = "back" => Blame >= 1)

HomeInv ==
  HomeTypes /\ PlansInv /\ LedgerInv /\ DrainInv /\ MomentInv /\ RestoreInv

-----------------------------------------------------------------------------
(* Types.                                                                    *)

(* A piece is no stage.                                                      *)
LEMMA Apartness ==
  /\ Targets \subseteq Pieces /\ Accounts \in Pieces /\ Accounts \notin Targets
  /\ Pieces = Targets \cup {Accounts}
  /\ Stages \cap Pieces = {} /\ "idle" \notin Pieces
BY PiecesAssumption DEF Pieces

(* Versions in use stay in use.                                              *)
WorkGoesOn == work' \in 0 .. MaxWork /\ (work' = work \/ work' = work + 1)

LEMMA UseGrows ==
  ASSUME work \in Nat, WorkGoesOn
  PROVE  /\ 0 .. work \subseteq (0 .. work)'
         /\ Files \subseteq Files' /\ Databases \subseteq Databases'
         /\ Artifacts \subseteq Artifacts' /\ Copies \subseteq Copies'
         /\ Operations \subseteq Operations'
<1>1. 0 .. work \subseteq (0 .. work)'
  BY DEF WorkGoesOn
<1>2. Files \subseteq Files'
  BY <1>1 DEF Files
<1>3. [plan : 0 .. work, day : 0 .. MaxDay] \subseteq [plan : (0 .. work)', day : 0 .. MaxDay]
  BY <1>1
<1>4. Databases \subseteq Databases'
  BY <1>1, <1>2, <1>3 DEF Databases
<1>5. Artifacts \subseteq Artifacts' /\ Copies \subseteq Copies'
  BY <1>2, <1>4 DEF Artifacts, Copies
<1>6. Operations \subseteq Operations'
  BY <1>2, <1>5 DEF Operations
<1>. QED BY <1>1, <1>2, <1>4, <1>5, <1>6

(* What a step leaves alone keeps its type.                                  *)
LEMMA TypesKept ==
  ASSUME HomeTypes, WorkGoesOn
  PROVE  /\ (db' = db => DbType')
         /\ (file' = file => FileType')
         /\ (backups' = backups => BackupsType')
         /\ (serving' = serving /\ queue' = queue => QueueType')
         /\ (op' = op /\ svc' = svc => OpType')
<1>1. work \in Nat
  BY DEF HomeTypes, FileType
<1>2. /\ 0 .. work \subseteq (0 .. work)'
      /\ Files \subseteq Files' /\ Databases \subseteq Databases'
      /\ Artifacts \subseteq Artifacts' /\ Copies \subseteq Copies'
      /\ Operations \subseteq Operations'
  BY <1>1, UseGrows
<1>3. db' = db => DbType'
  BY <1>2 DEF HomeTypes, DbType, Readable
<1>4. file' = file => FileType'
  BY <1>2 DEF HomeTypes, FileType, WorkGoesOn
<1>5. backups' = backups => BackupsType'
  BY <1>2 DEF HomeTypes, BackupsType
<1>6. serving' = serving /\ queue' = queue => QueueType'
  BY <1>2 DEF HomeTypes, QueueType
<1>7. op' = op /\ svc' = svc => OpType'
  BY <1>2 DEF HomeTypes, OpType, Readable, NoOperation
<1>. QED BY <1>3, <1>4, <1>5, <1>6, <1>7

(* The operators on databases keep them databases.                           *)
LEMMA EmptyLedgerType == EmptyLedger \in Ledgers
BY DEF EmptyLedger, Ledgers, Forever, Paths

LEMMA RecordsOf ==
  ASSUME NEW d \in Databases
  PROVE  /\ d.schema \in Nat /\ d.rev \in Files /\ d.plans \subseteq 0 .. work
         /\ d.drift \subseteq Targets /\ d.recovery \in BOOLEAN /\ d.ledger \in Ledgers
         /\ d.records \subseteq [plan : 0 .. work, day : 0 .. MaxDay]
         /\ d.ledger.detail \subseteq Lines /\ d.ledger.priced \subseteq Lines
         /\ d.ledger.rolled \in [Lines -> Nat]
         /\ d.ledger.cursor \in [Logs -> [Paths -> Nat]]
         /\ d.ledger.retention \in Int /\ d.ledger.catalog \in BOOLEAN
BY DEF Databases, Ledgers

(* A database with another schema, other records and another ledger.         *)
With(d, schema, records, ledger) ==
  [d EXCEPT !.schema = schema, !.records = records, !.ledger = ledger]

LEMMA WithType ==
  ASSUME NEW d \in Databases, NEW schema \in Nat, NEW ledger \in Ledgers,
         NEW records \in SUBSET [plan : 0 .. work, day : 0 .. MaxDay]
  PROVE  /\ With(d, schema, records, ledger) \in Databases
         /\ Gated(With(d, schema, records, ledger)) = Gated(d)
         /\ With(d, schema, records, ledger).schema = schema
         /\ With(d, schema, records, ledger).plans = d.plans
         /\ With(d, schema, records, ledger).records = records
         /\ With(d, schema, records, ledger).ledger = ledger
BY DEF With, Databases, Gated

LEMMA MigratedType ==
  ASSUME NEW d \in Databases, Readable(d), d.schema < SchemaVersion
  PROVE  /\ Migrated(d) \in Databases /\ Readable(Migrated(d))
         /\ Gated(Migrated(d)) = Gated(d)
         /\ Migrated(d).plans = d.plans /\ Migrated(d).records = d.records
         /\ Migrated(d).ledger \in {d.ledger, EmptyLedger}
<1> DEFINE ledger == IF d.schema + 1 = LedgerSchema THEN EmptyLedger ELSE d.ledger
           schema == d.schema + 1
<1>1. /\ d.ledger \in Ledgers /\ d.schema \in Nat
      /\ d.records \in SUBSET [plan : 0 .. work, day : 0 .. MaxDay]
  BY RecordsOf
<1>2. ledger \in Ledgers /\ ledger \in {d.ledger, EmptyLedger} /\ schema \in Nat
  BY <1>1, EmptyLedgerType
<1>3. Migrated(d) = With(d, schema, d.records, ledger)
  BY DEF Migrated, With, Databases
<1>4. schema \in OldSchema .. SchemaVersion
  BY <1>1, LimitsAssumption DEF Readable, SchemaVersion
<1> HIDE DEF ledger, schema
<1>5. /\ Migrated(d) \in Databases /\ Gated(Migrated(d)) = Gated(d)
      /\ Migrated(d).schema = schema /\ Migrated(d).plans = d.plans
      /\ Migrated(d).records = d.records /\ Migrated(d).ledger = ledger
  BY <1>1, <1>2, <1>3, WithType
<1>. QED BY <1>2, <1>4, <1>5 DEF Readable

LEMMA UpgradedType ==
  ASSUME NEW d \in Databases, d.schema <= SchemaVersion
  PROVE  /\ Upgraded(d) \in Databases /\ Readable(Upgraded(d)) /\ Gated(Upgraded(d)) = Gated(d)
         /\ Upgraded(d).plans = d.plans /\ Upgraded(d).records = d.records
         /\ Upgraded(d).ledger \in {d.ledger, EmptyLedger}
<1> DEFINE ledger == IF d.schema < LedgerSchema THEN EmptyLedger ELSE d.ledger
           e == With(d, SchemaVersion, d.records, ledger)
<1>1. /\ d.ledger \in Ledgers /\ d.schema \in Nat
      /\ d.records \in SUBSET [plan : 0 .. work, day : 0 .. MaxDay]
  BY RecordsOf
<1>2. ledger \in Ledgers /\ ledger \in {d.ledger, EmptyLedger} /\ SchemaVersion \in Nat
  BY <1>1, EmptyLedgerType DEF SchemaVersion
<1>3. Upgraded(d) = IF d.schema = SchemaVersion THEN d ELSE e
  BY DEF Upgraded, Databases, With
<1> HIDE DEF ledger
<1>4. /\ e \in Databases /\ Gated(e) = Gated(d) /\ e.schema = SchemaVersion
      /\ e.plans = d.plans /\ e.records = d.records /\ e.ledger = ledger
  BY <1>1, <1>2, WithType
<1> HIDE DEF e
<1>5. SchemaVersion \in OldSchema .. SchemaVersion
  BY LimitsAssumption DEF SchemaVersion
<1>. QED BY <1>2, <1>3, <1>4, <1>5 DEF Readable

LEMMA DriftedType ==
  ASSUME NEW d \in Databases, NEW T \in SUBSET Targets
  PROVE  /\ [d EXCEPT !.drift = T] \in Databases
         /\ [d EXCEPT !.drift = T].schema = d.schema
         /\ [d EXCEPT !.drift = T].rev = d.rev
         /\ [d EXCEPT !.drift = T].plans = d.plans
         /\ [d EXCEPT !.drift = T].records = d.records
         /\ [d EXCEPT !.drift = T].ledger = d.ledger
BY DEF Databases

LEMMA MarkedType ==
  ASSUME NEW d \in Databases
  PROVE  /\ MarkedForRecovery(d) \in Databases
         /\ MarkedForRecovery(d).schema = d.schema /\ MarkedForRecovery(d).rev = d.rev
         /\ MarkedForRecovery(d).plans = d.plans /\ MarkedForRecovery(d).records = d.records
         /\ MarkedForRecovery(d).ledger = d.ledger
BY DEF MarkedForRecovery, Databases

LEMMA RecordedType ==
  ASSUME NEW d \in Databases, NEW plan \in 0 .. work, DayType
  PROVE  /\ Recorded(d, plan) \in Databases /\ Gated(Recorded(d, plan)) = Gated(d)
         /\ Recorded(d, plan).schema = d.schema /\ Recorded(d, plan).plans = d.plans
         /\ Recorded(d, plan).records = d.records \cup {[plan |-> plan, day |-> today]}
         /\ Recorded(d, plan).ledger = d.ledger
<1>1. [plan |-> plan, day |-> today] \in [plan : 0 .. work, day : 0 .. MaxDay]
  BY DEF DayType
<1>. QED BY <1>1 DEF Recorded, Databases, Gated

LEMMA AddedType ==
  ASSUME NEW rolled \in [Lines -> Nat], NEW old
  PROVE  /\ Added(rolled, old) \in [Lines -> Nat]
         /\ \A line \in Lines :
              Added(rolled, old)[line] = rolled[line] + IF line \in old THEN 1 ELSE 0
BY DEF Added

(* What retention does to a ledger: details move into rollups.               *)
LEMMA RolledUpType ==
  ASSUME NEW d \in Databases
  PROVE  /\ RolledUp(d) \in Databases /\ Gated(RolledUp(d)) = Gated(d)
         /\ RolledUp(d).schema = d.schema /\ RolledUp(d).plans = d.plans
         /\ RolledUp(d).records \subseteq d.records
         /\ RolledUp(d).ledger.cursor = d.ledger.cursor
         /\ (d.ledger.priced \subseteq d.ledger.detail =>
               RolledUp(d).ledger.priced \subseteq RolledUp(d).ledger.detail)
         /\ \A line \in Lines : CountIn(RolledUp(d).ledger, line) = CountIn(d.ledger, line)
<1> DEFINE kept == d.ledger.retention
           old == {l \in d.ledger.detail : DayOf(l) <= today - kept}
           records == {r \in d.records : r.day > today - kept}
           ledger == [d.ledger EXCEPT !.detail = @ \ old, !.priced = @ \ old,
                                      !.rolled = Added(@, old)]
<1>1. d.schema \in Nat /\ d.ledger \in Ledgers /\ d.records \subseteq [plan : 0 .. work, day : 0 .. MaxDay]
      /\ d.ledger.detail \subseteq Lines
  BY RecordsOf
<1>2. old \subseteq d.ledger.detail /\ records \subseteq d.records
  OBVIOUS
<1>3. RolledUp(d) = With(d, d.schema, records, ledger)
  BY DEF RolledUp, With, Databases, Ledgers
<1> HIDE DEF old, records
<1>4. /\ Added(d.ledger.rolled, old) \in [Lines -> Nat]
      /\ \A line \in Lines :
           Added(d.ledger.rolled, old)[line]
             = d.ledger.rolled[line] + IF line \in old THEN 1 ELSE 0
  BY <1>1, AddedType DEF Ledgers
<1>5. /\ ledger \in Ledgers /\ ledger.cursor = d.ledger.cursor
      /\ ledger.detail = d.ledger.detail \ old /\ ledger.priced = d.ledger.priced \ old
      /\ ledger.rolled = Added(d.ledger.rolled, old)
  BY <1>1, <1>4 DEF Ledgers
<1> HIDE DEF ledger
<1>6. /\ RolledUp(d) \in Databases /\ Gated(RolledUp(d)) = Gated(d)
      /\ RolledUp(d).schema = d.schema /\ RolledUp(d).plans = d.plans
      /\ RolledUp(d).records = records /\ RolledUp(d).ledger = ledger
  <2>1. records \in SUBSET [plan : 0 .. work, day : 0 .. MaxDay]
    BY <1>1, <1>2
  <2>. QED BY <1>1, <1>3, <1>5, <2>1, WithType
<1>7. ASSUME NEW line \in Lines
      PROVE  CountIn(ledger, line) = CountIn(d.ledger, line)
  BY <1>2, <1>4, <1>5, <1>1 DEF CountIn, Ledgers
<1>. QED BY <1>2, <1>5, <1>6, <1>7

(* What the import of a scan does.                                           *)
LEMMA ImportedType ==
  ASSUME NEW d \in Databases, scan \in [Logs -> [path : Paths, lines : Nat]]
  PROVE  /\ Imported(d) \in Databases /\ Gated(Imported(d)) = Gated(d)
         /\ Imported(d).schema = d.schema /\ Imported(d).plans = d.plans
         /\ Imported(d).records = d.records
         /\ Imported(d).ledger.detail = d.ledger.detail \cup NewLines(d)
         /\ Imported(d).ledger.rolled = d.ledger.rolled
         /\ (d.ledger.priced \subseteq d.ledger.detail =>
               Imported(d).ledger.priced \subseteq Imported(d).ledger.detail)
         /\ \A l \in Logs, p \in Paths : Imported(d).ledger.cursor[l][p] =
              IF p = scan[l].path THEN scan[l].lines ELSE d.ledger.cursor[l][p]
<1> DEFINE new == NewLines(d) \ d.ledger.detail
           cursor == [l \in Logs |->
                        [d.ledger.cursor[l] EXCEPT ![scan[l].path] = scan[l].lines]]
           priced == IF d.ledger.catalog THEN d.ledger.priced \cup new ELSE d.ledger.priced
           ledger == [d.ledger EXCEPT !.detail = @ \cup new, !.priced = priced,
                                      !.cursor = cursor]
<1>1. /\ d.ledger \in Ledgers /\ d.records \subseteq [plan : 0 .. work, day : 0 .. MaxDay]
      /\ d.schema \in Nat
      /\ d.ledger.detail \subseteq Lines /\ d.ledger.priced \subseteq Lines
      /\ d.ledger.cursor \in [Logs -> [Paths -> Nat]]
  BY RecordsOf
<1>2. new \subseteq Lines /\ d.ledger.detail \cup new = d.ledger.detail \cup NewLines(d)
  BY DEF NewLines
<1>3. Imported(d) = With(d, d.schema, d.records, ledger)
  BY <1>1 DEF With, Imported, Databases, Ledgers
<1>4. /\ cursor \in [Logs -> [Paths -> Nat]]
      /\ \A l \in Logs, p \in Paths : cursor[l][p] =
           IF p = scan[l].path THEN scan[l].lines ELSE d.ledger.cursor[l][p]
  BY <1>1
<1>5. priced \subseteq Lines
      /\ (d.ledger.priced \subseteq d.ledger.detail => priced \subseteq d.ledger.detail \cup new)
  BY <1>1, <1>2
<1> HIDE DEF new, cursor, priced
<1>6. /\ ledger \in Ledgers /\ ledger.cursor = cursor
      /\ ledger.detail = d.ledger.detail \cup new /\ ledger.priced = priced
      /\ ledger.rolled = d.ledger.rolled
  BY <1>1, <1>2, <1>4, <1>5 DEF Ledgers
<1> HIDE DEF ledger
<1>7. /\ Imported(d) \in Databases /\ Gated(Imported(d)) = Gated(d)
      /\ Imported(d).schema = d.schema /\ Imported(d).plans = d.plans
      /\ Imported(d).records = d.records /\ Imported(d).ledger = ledger
  <2>1. d.records \in SUBSET [plan : 0 .. work, day : 0 .. MaxDay]
    BY <1>1
  <2>. QED BY <1>1, <1>3, <1>6, <2>1, WithType
<1>. QED BY <1>2, <1>4, <1>5, <1>6, <1>7

(* A new retention setting.                                                  *)
LEMMA RetentionType ==
  ASSUME NEW d \in Databases, NEW days \in {1, Forever}
  PROVE  [d EXCEPT !.ledger.retention = days] \in Databases
<1> DEFINE ledger == [d.ledger EXCEPT !.retention = days]
           e == [d EXCEPT !.ledger.retention = days]
<1>1. ledger \in Ledgers
  <2>1. days \in Int /\ d.ledger \in Ledgers
    BY RecordsOf DEF Forever
  <2>. QED BY <2>1 DEF Ledgers
<1>2. e = With(d, d.schema, d.records, ledger)
  BY DEF Databases, Ledgers, With
<1> HIDE DEF ledger, e
<1>3. e \in Databases
  BY <1>1, <1>2, RecordsOf, WithType
<1>. QED BY <1>3 DEF e

(* How an operation moves on, turns back or is given up.                     *)
MovedTo(o, stage, way, hurt) == [o EXCEPT !.stage = stage, !.way = way, !.hurt = hurt]

LEMMA MovedToType ==
  ASSUME NEW o \in Operations, NEW stage \in Stages \cup Pieces,
         NEW way \in {"forward", "back"}, NEW hurt \in Nat
  PROVE  /\ MovedTo(o, stage, way, hurt) \in Operations
         /\ MovedTo(o, stage, way, hurt).stage = stage /\ MovedTo(o, stage, way, hurt).way = way
         /\ MovedTo(o, stage, way, hurt).hurt = hurt
         /\ MovedTo(o, stage, way, hurt).kind = o.kind
         /\ MovedTo(o, stage, way, hurt).seen = o.seen
         /\ MovedTo(o, stage, way, hurt).edited = o.edited
         /\ MovedTo(o, stage, way, hurt).copy = o.copy
         /\ MovedTo(o, stage, way, hurt).wanted = o.wanted
         /\ MovedTo(o, stage, way, hurt).before = o.before
BY DEF MovedTo, Operations

(* The rest of the operation is as it was.                                    *)
SameOperation ==
  /\ op' \in Operations /\ op' # NoOperation
  /\ op'.kind = op.kind /\ op'.seen = op.seen /\ op'.edited = op.edited
  /\ op'.copy = op.copy /\ op'.wanted = op.wanted /\ op'.before = op.before

Proceeds(stage) ==
  SameOperation /\ op'.stage = stage /\ op'.way = op.way /\ op'.hurt = op.hurt
TurnsBack(stage) ==
  SameOperation /\ op'.stage = stage /\ op'.way = "back" /\ op'.hurt = Troubles
GivenUp(d) ==
  /\ op' = NoOperation /\ answer' = "required"
  /\ db' \in {d, MarkedForRecovery(d)}

Failed(d) ==
  \/ op.way = "forward" /\ TurnsBack("shutdown") /\ db' = d /\ answer' = answer
  \/ op.way = "back" /\ GivenUp(d)

LEMMA NotIdle ==
  /\ \A o \in Operations : o # NoOperation
  /\ NoOperation.stage = "idle" /\ NoOperation.stage \notin Stages \cup Pieces
BY Apartness DEF Operations, NoOperation, Stages

LEMMA UnderWay ==
  ASSUME OpType, op.stage \in Stages \cup Pieces
  PROVE  op \in Operations /\ op # NoOperation /\ svc = "up" /\ op.way \in {"forward", "back"}
         /\ op.hurt \in Nat
BY NotIdle DEF OpType, Operations

LEMMA GoesEffect ==
  ASSUME OpType, op.stage \in Stages \cup Pieces, NEW stage \in Stages \cup Pieces,
         Goes(stage)
  PROVE  Proceeds(stage)
<1>1. op \in Operations
  BY UnderWay
<1>2. op' = [op EXCEPT !.stage = stage]
  BY DEF Goes
<1>3. op' \in Operations
  BY <1>1, <1>2 DEF Operations
<1>4. /\ op'.stage = stage /\ op'.way = op.way /\ op'.hurt = op.hurt
      /\ op'.kind = op.kind /\ op'.seen = op.seen /\ op'.edited = op.edited
      /\ op'.copy = op.copy /\ op'.wanted = op.wanted /\ op'.before = op.before
  BY <1>1, <1>2 DEF Operations
<1>. QED BY <1>3, <1>4, NotIdle DEF Proceeds, SameOperation

LEMMA TurnEffect ==
  ASSUME OpType, op.stage \in Stages \cup Pieces, NEW stage \in Stages \cup Pieces,
         faults \in Nat, faults' \in {faults, faults + 1},
         op' = [op EXCEPT !.stage = stage, !.way = "back", !.hurt = Troubles]
  PROVE  TurnsBack(stage)
<1>1. op \in Operations /\ op.hurt \in Nat
  BY UnderWay
<1>2. op' = MovedTo(op, stage, "back", Troubles)
  BY DEF MovedTo
<1>3. Troubles \in Nat
  BY <1>1 DEF Troubles
<1>. QED BY <1>1, <1>2, <1>3, MovedToType, NotIdle DEF TurnsBack, SameOperation

LEMMA FailsEffect ==
  ASSUME OpType, op.stage \in Stages \cup Pieces, NEW d,
         faults \in Nat, faults' \in {faults, faults + 1}, Fails(d)
  PROVE  Failed(d)
<1>1. "shutdown" \in Stages \cup Pieces
  BY DEF Stages
<1>2. FallsBack(d) => TurnsBack("shutdown")
  BY <1>1, TurnEffect DEF FallsBack
<1>. QED BY <1>2 DEF Fails, FallsBack, GivesUp, Answers, Failed, GivenUp

(* The types of an operation that moves on, and of a database it leaves.      *)
LEMMA SameTypes ==
  ASSUME work' = work
  PROVE  /\ Files' = Files /\ Databases' = Databases /\ Artifacts' = Artifacts
         /\ Copies' = Copies /\ Operations' = Operations
BY DEF Files, Databases, Artifacts, Copies, Operations

LEMMA MovesTypes ==
  ASSUME OpType, op.stage \in Stages \cup Pieces, op.stage \notin Early,
         svc' = svc, work' = work, SameOperation, op'.stage \notin Early,
         op'.stage = "reserve" => op'.way = "forward"
  PROVE  OpType'
<1>1. op \in Operations /\ svc = "up" /\ op # NoOperation
  BY UnderWay
<1>2. "install" \in Early /\ "copy" \in Early
  BY DEF Early
<1>. QED BY <1>1, <1>2, SameTypes DEF OpType, SameOperation, Readable

LEMMA FailedTypes ==
  ASSUME HomeTypes, op.stage \in Stages \cup Pieces, op.stage \notin Early,
         svc' = svc, work' = work, NEW d \in Databases, Readable(d), Failed(d)
  PROVE  OpType' /\ DbType'
<1>1. CASE op.way = "forward" /\ TurnsBack("shutdown") /\ db' = d
  <2>1. OpType'
    BY <1>1, MovesTypes DEF TurnsBack, HomeTypes, Early
  <2>2. DbType'
    BY <1>1, SameTypes DEF DbType, Readable
  <2>. QED BY <2>1, <2>2
<1>2. CASE GivenUp(d)
  BY <1>2, SameTypes, MarkedType DEF GivenUp, DbType, OpType, Readable, NoOperation
<1>. QED BY <1>1, <1>2 DEF Failed

(* An edit under an operation.                                               *)
Hurting(o, t) == [o EXCEPT !.hurt = @ + 1, !.edited = @ \cup {t}]

LEMMA HurtingType ==
  ASSUME NEW o \in Operations, NEW t \in Targets
  PROVE  /\ Hurting(o, t) \in Operations
         /\ Hurting(o, t).stage = o.stage /\ Hurting(o, t).way = o.way
         /\ Hurting(o, t).hurt = o.hurt + 1 /\ Hurting(o, t).edited = o.edited \cup {t}
         /\ Hurting(o, t).kind = o.kind /\ Hurting(o, t).seen = o.seen
         /\ Hurting(o, t).copy = o.copy /\ Hurting(o, t).wanted = o.wanted
         /\ Hurting(o, t).before = o.before
<1> DEFINE hurt == o.hurt + 1
           edited == o.edited \cup {t}
<1>1. hurt \in Nat /\ edited \in SUBSET Targets
  BY DEF Operations
<1>2. Hurting(o, t) = [o EXCEPT !.hurt = hurt, !.edited = edited]
  BY DEF Hurting, Operations
<1> HIDE DEF hurt, edited
<1>3. /\ Hurting(o, t) \in Operations
      /\ Hurting(o, t).stage = o.stage /\ Hurting(o, t).way = o.way
      /\ Hurting(o, t).hurt = hurt /\ Hurting(o, t).edited = edited
      /\ Hurting(o, t).kind = o.kind /\ Hurting(o, t).seen = o.seen
      /\ Hurting(o, t).copy = o.copy /\ Hurting(o, t).wanted = o.wanted
      /\ Hurting(o, t).before = o.before
  BY <1>1, <1>2 DEF Operations
<1>. QED BY <1>3 DEF hurt, edited

LEMMA EditEffect ==
  ASSUME OpType, NEW t \in Targets, Edit(t), op # NoOperation
  PROVE  /\ op \in Operations /\ op' \in Operations /\ op' # NoOperation
         /\ op'.stage = op.stage /\ op'.way = op.way /\ op'.hurt = op.hurt + 1
         /\ op'.edited = op.edited \cup {t} /\ op'.kind = op.kind /\ op'.seen = op.seen
         /\ op'.copy = op.copy /\ op'.wanted = op.wanted /\ op'.before = op.before
<1>1. op \in Operations
  BY DEF OpType
<1>2. op' = Hurting(op, t)
  BY DEF Edit, Hurting
<1>. QED BY <1>1, <1>2, HurtingType, NotIdle

(* What each step of a restore does.                                         *)
LEMMA ShutdownEffect ==
  ASSUME HomeTypes, ShutdownModels
  PROVE  /\ op.stage = "shutdown" /\ running' = {} /\ serving' = {} /\ queue' = {}
         /\ svc' = svc /\ work' = work /\ file' = file /\ backups' = backups
         /\ \/ /\ serving = {} /\ queue = {} /\ db' = db /\ faults' = faults
               /\ answer' = answer
               /\ Proceeds(IF op.way = "forward" THEN "reserve" ELSE "database")
            \/ /\ op.way = "forward" /\ TurnsBack("resume") /\ db' = db
               /\ answer' = answer /\ faults' = faults + 1
            \/ op.way = "back" /\ GivenUp(db) /\ faults' = faults + 1
<1>1. op.stage = "shutdown" /\ "shutdown" \in Stages \cup Pieces
      /\ "reserve" \in Stages \cup Pieces /\ "database" \in Stages \cup Pieces
      /\ "resume" \in Stages \cup Pieces
  BY DEF ShutdownModels, Stages
<1>2. OpType /\ faults \in Nat /\ op.way \in {"forward", "back"}
  BY <1>1, UnderWay, LimitsAssumption DEF HomeTypes, DayType
<1>3. CASE /\ Drained /\ UNCHANGED <<serving, queue, faults, answer, db>>
           /\ Goes(IF op.way = "forward" THEN "reserve" ELSE "database")
  <2>1. Proceeds(IF op.way = "forward" THEN "reserve" ELSE "database")
    BY <1>1, <1>2, <1>3, GoesEffect
  <2>. QED BY <1>3, <2>1 DEF ShutdownModels, Drained
<1>4. CASE Hurt /\ op.way = "forward" /\ ServesAgain
  <2>1. TurnsBack("resume")
    BY <1>1, <1>2, <1>4, TurnEffect DEF ServesAgain, Hurt, Fault
  <2>2. serving' = {} /\ queue' = {}
    BY <1>4, <2>1 DEF ShutdownModels, Hurt, Fault, Drained
  <2>. QED BY <1>4, <2>1, <2>2 DEF ShutdownModels, Hurt, Fault, ServesAgain
<1>5. CASE Hurt /\ op.way = "back" /\ GivesUp(db) /\ serving' = {} /\ queue' = {}
  BY <1>5 DEF ShutdownModels, Hurt, Fault, GivesUp, Answers, GivenUp
<1>. QED BY <1>2, <1>3, <1>4, <1>5 DEF ShutdownModels

LEMMA ReserveEffect ==
  ASSUME HomeTypes, ReservePorts
  PROVE  /\ op.stage = "reserve" /\ db' = db /\ answer' = answer
         /\ \/ Proceeds("database") /\ faults' = faults
            \/ TurnsBack("resume") /\ faults' = faults + 1
<1>1. op.stage = "reserve" /\ "reserve" \in Stages \cup Pieces
      /\ "database" \in Stages \cup Pieces /\ "resume" \in Stages \cup Pieces
  BY DEF ReservePorts, Stages
<1>2. OpType /\ faults \in Nat
  BY LimitsAssumption DEF HomeTypes, DayType
<1>3. CASE Goes("database") /\ UNCHANGED <<answer, db, faults>>
  BY <1>1, <1>2, <1>3, GoesEffect
<1>4. CASE Hurt /\ ServesAgain
  BY <1>1, <1>2, <1>4, TurnEffect DEF ServesAgain, Hurt, Fault
<1>. QED BY <1>1, <1>3, <1>4 DEF ReservePorts

LEMMA DatabaseEffect ==
  ASSUME HomeTypes, RestoreDatabase
  PROVE  /\ op.stage = "database"
         /\ \/ /\ db' = Wanted.db /\ Proceeds(Accounts) /\ answer' = answer
               /\ faults' = faults
            \/ faults' = faults + 1 /\ (Failed(db) \/ Failed(Wanted.db))
<1>1. op.stage = "database" /\ "database" \in Stages \cup Pieces /\ Accounts \in Pieces
  BY Apartness DEF RestoreDatabase, Stages
<1>2. OpType /\ faults \in Nat
  BY LimitsAssumption DEF HomeTypes, DayType
<1>3. CASE db' = Wanted.db /\ Goes(Accounts) /\ UNCHANGED <<answer, faults>>
  BY <1>1, <1>2, <1>3, GoesEffect
<1>4. CASE Hurt /\ (Fails(db) \/ Fails(Wanted.db))
  BY <1>1, <1>2, <1>4, FailsEffect DEF Hurt, Fault
<1>. QED BY <1>1, <1>3, <1>4 DEF RestoreDatabase

(* The pieces follow each other.                                             *)
LEMMA AfterPiece ==
  /\ After(Accounts) = Order[1] /\ 1 \in DOMAIN Order
  /\ \A i \in DOMAIN Order :
       After(Order[i]) = IF i = Len(Order) THEN "verify" ELSE Order[i + 1]
  /\ Len(Order) \in Nat /\ DOMAIN Order = 1 .. Len(Order)
  /\ \A p \in Pieces : After(p) \in Pieces \cup {"verify"}
<1>1. Len(Order) \in Nat /\ DOMAIN Order = 1 .. Len(Order) /\ 1 \in DOMAIN Order
  BY PiecesAssumption
<1>2. ASSUME NEW i \in DOMAIN Order
      PROVE  After(Order[i]) = IF i = Len(Order) THEN "verify" ELSE Order[i + 1]
  <2>1. Order[i] # Accounts
    BY PiecesAssumption DEF Targets
  <2>2. (CHOOSE j \in DOMAIN Order : Order[j] = Order[i]) = i
    BY PiecesAssumption
  <2>. QED BY <2>1, <2>2 DEF After
<1>3. After(Accounts) = Order[1]
  BY DEF After
<1>4. ASSUME NEW p \in Pieces PROVE After(p) \in Pieces \cup {"verify"}
  <2>1. CASE p = Accounts
    BY <1>1, <1>3, <2>1 DEF Pieces, Targets
  <2>2. CASE p \in Targets
    BY <1>1, <1>2, <2>2 DEF Pieces, Targets
  <2>. QED BY <2>1, <2>2 DEF Pieces
<1>. QED BY <1>1, <1>2, <1>3, <1>4

LEMMA ApplyEffect ==
  ASSUME HomeTypes, ApplyFile
  PROVE  /\ op.stage \in Pieces
         /\ \/ /\ file' = [file EXCEPT ![op.stage] = Wanted.file[op.stage]]
               /\ Proceeds(After(op.stage)) /\ db' = db /\ answer' = answer
               /\ faults' = faults
            \/ faults' = faults + 1 /\ Failed(db) /\ file' = file
<1>1. op.stage \in Pieces /\ After(op.stage) \in Stages \cup Pieces
  BY AfterPiece DEF ApplyFile, Stages
<1>2. OpType /\ faults \in Nat
  BY LimitsAssumption DEF HomeTypes, DayType
<1>3. CASE /\ file' = [file EXCEPT ![op.stage] = Wanted.file[op.stage]]
           /\ Goes(After(op.stage)) /\ UNCHANGED <<answer, db, faults>>
  BY <1>1, <1>2, <1>3, GoesEffect
<1>4. CASE Hurt /\ Fails(db) /\ UNCHANGED file
  BY <1>1, <1>2, <1>4, FailsEffect DEF Hurt, Fault
<1>. QED BY <1>1, <1>3, <1>4 DEF ApplyFile

LEMMA VerifyEffect ==
  ASSUME HomeTypes, VerifyFiles
  PROVE  /\ op.stage = "verify" /\ faults' = faults
         /\ \/ /\ file = Wanted.file /\ Proceeds("resume") /\ db' = db
               /\ answer' = answer
            \/ file # Wanted.file /\ Failed(db)
<1>1. op.stage = "verify" /\ "verify" \in Stages \cup Pieces
      /\ "resume" \in Stages \cup Pieces /\ faults' = faults
  BY DEF VerifyFiles, Stages
<1>2. OpType /\ faults \in Nat
  BY LimitsAssumption DEF HomeTypes, DayType
<1>3. CASE file = Wanted.file /\ Goes("resume") /\ UNCHANGED <<answer, db>>
  BY <1>1, <1>2, <1>3, GoesEffect
<1>4. CASE file # Wanted.file /\ Fails(db)
  BY <1>1, <1>2, <1>4, FailsEffect
<1>. QED BY <1>1, <1>3, <1>4 DEF VerifyFiles

(* The next takeover to serve is one that is not served.                     *)
LEMMA NextIsUnserved ==
  /\ (Unserved = {} => \A t \in Targets : Managed(t) => t \in running)
  /\ (Unserved # {} =>
        NextUnserved \in Targets /\ Managed(NextUnserved) /\ NextUnserved \notin running)
<1>1. Unserved = {} => \A t \in Targets : Managed(t) => t \in running
  BY DEF Unserved, Targets
<1>2. ASSUME Unserved # {}
      PROVE  NextUnserved \in Targets /\ Managed(NextUnserved) /\ NextUnserved \notin running
  <2>1. Unserved \subseteq Nat
    BY PiecesAssumption DEF Unserved
  <2> DEFINE R == OpToRel(<, Nat)
  <2>2. PICK i \in Unserved : \A j \in Unserved : ~(<<j, i>> \in R)
    <3>1. IsWellFoundedOn(R, Nat)
      BY NatLessThanWellFounded
    <3> HIDE DEF R
    <3>. QED BY <1>2, <2>1, <3>1, WFMin
  <2>3. \A j \in Unserved : ~(j < i)
    BY <2>1, <2>2 DEF OpToRel
  <2>4. \E k \in Unserved : \A j \in Unserved : k <= j
    BY <2>1, <2>3
  <2>5. PICK k \in Unserved : NextUnserved = Order[k]
    BY <2>4 DEF NextUnserved
  <2>. QED BY <2>5 DEF Unserved, Targets
<1>. QED BY <1>1, <1>2

LEMMA ResumeEffect ==
  ASSUME HomeTypes, ResumeTakeovers
  PROVE  /\ op.stage = "resume"
         /\ \/ /\ \A t \in Targets : db.rev[t] # 0 => t \in running
               /\ op' = NoOperation
               /\ answer' = IF op.way = "forward" THEN "restored" ELSE "failed"
               /\ db' = db /\ running' = running /\ faults' = faults
            \/ /\ \E t \in Targets : db.rev[t] # 0 /\ running' = running \cup {t}
               /\ UNCHANGED <<op, answer, db, faults>>
            \/ faults' = faults + 1 /\ Failed(db) /\ running' = running
            \/ /\ \E t \in Targets : Managed(t) /\ ~Servable(t)
               /\ \E T \in SUBSET Targets : Failed([db EXCEPT !.drift = T])
               /\ running' = running /\ faults' = faults
<1>1. op.stage = "resume" /\ "resume" \in Stages \cup Pieces
  BY DEF ResumeTakeovers, Stages
<1>2. OpType /\ faults \in Nat /\ db \in Databases
  BY LimitsAssumption DEF HomeTypes, DayType, DbType
<1>3. CASE /\ Unserved = {}
           /\ Answers(IF op.way = "forward" THEN "restored" ELSE "failed")
           /\ UNCHANGED <<db, running, faults>>
  BY <1>1, <1>3, NextIsUnserved DEF Answers, Managed
<1>4. CASE /\ Unserved # {} /\ running' = running \cup {NextUnserved}
           /\ UNCHANGED <<op, answer, db, faults>>
  BY <1>1, <1>4, NextIsUnserved DEF Managed
<1>5. CASE Hurt /\ Fails(db) /\ UNCHANGED running
  BY <1>1, <1>2, <1>5, FailsEffect DEF Hurt, Fault
<1>6. CASE /\ Unserved # {} /\ ~Servable(NextUnserved)
           /\ UNCHANGED <<running, faults>>
           /\ Fails([db EXCEPT !.drift = @ \cup {t \in {NextUnserved} : Drifted(t)}])
  <2> DEFINE T == db.drift \cup {t \in {NextUnserved} : Drifted(t)}
  <2>1. T \in SUBSET Targets
    BY <1>2, <1>6, NextIsUnserved, RecordsOf
  <2>2. Fails([db EXCEPT !.drift = T])
    BY <1>6
  <2> HIDE DEF T
  <2>3. Failed([db EXCEPT !.drift = T])
    BY <1>1, <1>2, <1>6, <2>2, FailsEffect
  <2>. QED BY <1>1, <1>6, <2>1, <2>3, NextIsUnserved
<1>. QED BY <1>3, <1>4, <1>5, <1>6 DEF ResumeTakeovers

(* What a restore makes the home into is an artifact this release can read.   *)
LEMMA WantedType ==
  ASSUME OpType, op.stage \in Stages \cup Pieces, op.stage \notin Early
  PROVE  Wanted \in Artifacts /\ Readable(Wanted.db)
BY NotIdle DEF OpType, Wanted

-----------------------------------------------------------------------------
(* The types of every action.                                                *)

LEMMA OpenDatabaseTypes ==
  ASSUME HomeTypes, OpenDatabase
  PROVE  HomeTypes'
<1>1. WorkGoesOn
  BY LimitsAssumption DEF OpenDatabase, WorkGoesOn, HomeTypes, FileType
<1>2. /\ DbType' /\ FileType' /\ BackupsType' /\ QueueType' /\ DayType' /\ LogsType'
      /\ ScanType'
  BY <1>1, TypesKept DEF OpenDatabase, HomeTypes, DayType, LogsType, ScanType
<1>3. SvcType'
  BY <1>1, TypesKept, UseGrows, Apartness, LimitsAssumption
  DEF OpenDatabase, HomeTypes, WorkGoesOn, DbType, FileType, SvcType
<1>4. OpType'
  BY <1>1, TypesKept, UseGrows, Apartness, LimitsAssumption
  DEF OpenDatabase, HomeTypes, WorkGoesOn, DbType, FileType, OpType, Operations,
      NoOperation, Early, Stages, Readable
<1>. QED BY <1>2, <1>3, <1>4 DEF HomeTypes

LEMMA MigrationStepTypes ==
  ASSUME HomeTypes, MigrationStep
  PROVE  HomeTypes'
<1>1. WorkGoesOn
  BY LimitsAssumption DEF MigrationStep, WorkGoesOn, HomeTypes, FileType
<1>2. /\ FileType' /\ SvcType' /\ BackupsType' /\ QueueType' /\ DayType' /\ LogsType'
      /\ ScanType' /\ OpType'
  BY <1>1, TypesKept DEF MigrationStep, HomeTypes, SvcType, DayType, LogsType, ScanType
<1>3. DbType'
  BY <1>1, MigratedType, SameTypes DEF MigrationStep, HomeTypes, DbType, Readable
<1>. QED BY <1>2, <1>3 DEF HomeTypes

LEMMA StartTypes ==
  ASSUME HomeTypes, Start
  PROVE  HomeTypes'
<1>1. WorkGoesOn
  BY LimitsAssumption DEF Start, WorkGoesOn, HomeTypes, FileType
<1>2. FileType' /\ BackupsType' /\ QueueType' /\ LogsType' /\ ScanType'
  BY <1>1, TypesKept DEF Start, HomeTypes, LogsType, ScanType
<1>3. DbType'
  BY <1>1, TypesKept, UseGrows, Apartness, LimitsAssumption
  DEF Start, SchemaVersion, Drifted, Managed, Writable, Servable, Fault, HomeTypes,
      WorkGoesOn, DbType, FileType, Databases, Ledgers, Readable
<1>4. SvcType'
  BY <1>1, TypesKept, UseGrows, Apartness, LimitsAssumption
  DEF Start, SchemaVersion, Drifted, Managed, Writable, Servable, Fault, HomeTypes,
      WorkGoesOn, DbType, FileType, SvcType
<1>5. DayType'
  BY <1>1, TypesKept, UseGrows, Apartness, LimitsAssumption
  DEF Start, SchemaVersion, Drifted, Managed, Writable, Servable, Fault, HomeTypes,
      WorkGoesOn, DbType, FileType, DayType
<1>6. OpType'
  BY <1>1, TypesKept, UseGrows, Apartness, LimitsAssumption
  DEF Start, SchemaVersion, Drifted, Managed, Writable, Servable, Fault, HomeTypes,
      WorkGoesOn, DbType, FileType, OpType, Operations, NoOperation, Early, Stages,
      Readable
<1>. QED BY <1>2, <1>3, <1>4, <1>5, <1>6 DEF HomeTypes

LEMMA KilledTypes ==
  ASSUME HomeTypes, Killed
  PROVE  HomeTypes'
<1>1. WorkGoesOn
  BY LimitsAssumption DEF Killed, WorkGoesOn, HomeTypes, FileType
<1>2. DbType' /\ FileType' /\ BackupsType' /\ LogsType'
  BY <1>1, TypesKept DEF Killed, HomeTypes, LogsType
<1>3. SvcType'
  BY <1>1, TypesKept, UseGrows, Apartness, LimitsAssumption
  DEF Killed, Fault, HomeTypes, WorkGoesOn, DbType, FileType, SvcType
<1>4. QueueType'
  BY <1>1, TypesKept, UseGrows, Apartness, LimitsAssumption
  DEF Killed, Fault, HomeTypes, WorkGoesOn, DbType, FileType, QueueType
<1>5. DayType'
  BY <1>1, TypesKept, UseGrows, Apartness, LimitsAssumption
  DEF Killed, Fault, HomeTypes, WorkGoesOn, DbType, FileType, DayType
<1>6. ScanType'
  BY <1>1, TypesKept, UseGrows, Apartness, LimitsAssumption
  DEF Killed, Fault, HomeTypes, WorkGoesOn, DbType, FileType, ScanType, LogsType, Paths,
      NoScan
<1>7. OpType'
  BY <1>1, TypesKept, UseGrows, Apartness, LimitsAssumption
  DEF Killed, Fault, HomeTypes, WorkGoesOn, DbType, FileType, OpType, Operations,
      NoOperation, Early, Stages, Readable
<1>. QED BY <1>2, <1>3, <1>4, <1>5, <1>6, <1>7 DEF HomeTypes

LEMMA ChangeTypes ==
  ASSUME NEW p \in Pieces, HomeTypes, Change(p)
  PROVE  HomeTypes'
<1>1. WorkGoesOn
  BY LimitsAssumption DEF Change, Input, WorkGoesOn, HomeTypes, FileType
<1>2. BackupsType' /\ QueueType' /\ DayType' /\ LogsType' /\ ScanType' /\ OpType'
  BY <1>1, TypesKept DEF Change, HomeTypes, DayType, LogsType, ScanType
<1>3. DbType'
  <2>1. work + 1 \in 0 .. work'
    BY <1>1 DEF Change, Input, HomeTypes, FileType
  <2>2. db \in Databases'
    BY <1>1, UseGrows DEF HomeTypes, DbType, FileType
  <2>3. db' \in Databases' /\ db'.schema = db.schema
    BY <2>1, <2>2 DEF Change, Databases, Files
  <2>. QED BY <2>3 DEF HomeTypes, DbType, Readable
<1>4. FileType'
  BY <1>1, TypesKept, UseGrows, Apartness, LimitsAssumption
  DEF Change, Free, Up, Input, Writable, HomeTypes, WorkGoesOn, DbType, FileType, Files
<1>5. SvcType'
  BY <1>1, TypesKept, UseGrows, Apartness, LimitsAssumption
  DEF Change, Free, Up, Input, Writable, HomeTypes, WorkGoesOn, DbType, FileType, SvcType
<1>. QED BY <1>2, <1>3, <1>4, <1>5 DEF HomeTypes

LEMMA EditTypes ==
  ASSUME NEW t \in Targets, HomeTypes, Edit(t)
  PROVE  HomeTypes'
<1>1. WorkGoesOn
  BY LimitsAssumption DEF Edit, Input, WorkGoesOn, HomeTypes, FileType
<1>2. /\ DbType' /\ SvcType' /\ BackupsType' /\ QueueType' /\ DayType' /\ LogsType'
      /\ ScanType'
  BY <1>1, TypesKept DEF Edit, HomeTypes, SvcType, DayType, LogsType, ScanType
<1>3. FileType'
  BY <1>1, TypesKept, UseGrows, Apartness, LimitsAssumption
  DEF Edit, Input, HomeTypes, WorkGoesOn, DbType, FileType, Files
<1>4. OpType'
  <2>1. CASE op = NoOperation
    BY <2>1 DEF Edit, OpType
  <2>2. CASE op # NoOperation
    <3>1. /\ op \in Operations /\ svc = "up"
          /\ (op.stage \in Early => op.way = "forward" /\ op.seen \in Files)
          /\ (op.stage = "install" => op.copy \in Copies /\ Readable(op.copy.db))
          /\ (op.kind = "restore" => op.wanted \in Artifacts /\ Readable(op.wanted.db))
          /\ (op.stage \notin Early =>
                op.kind = "restore" /\ op.before \in Artifacts /\ Readable(op.before.db))
          /\ (op.stage = "reserve" => op.way = "forward")
      BY <2>2 DEF HomeTypes, OpType
    <3>2. /\ op' \in Operations /\ op'.stage = op.stage /\ op'.way = op.way
          /\ op'.seen = op.seen /\ op'.copy = op.copy /\ op'.kind = op.kind
          /\ op'.wanted = op.wanted /\ op'.before = op.before /\ svc' = svc
      BY <2>2, EditEffect DEF Edit, HomeTypes
    <3>3. Files \subseteq Files' /\ Copies \subseteq Copies' /\ Artifacts \subseteq Artifacts'
          /\ Operations \subseteq Operations'
      BY <1>1, UseGrows DEF HomeTypes, FileType
    <3>. QED BY <3>1, <3>2, <3>3 DEF OpType, Readable
  <2>. QED BY <2>1, <2>2
<1>. QED BY <1>2, <1>3, <1>4 DEF HomeTypes

LEMMA ReapplyTypes ==
  ASSUME NEW t \in Targets, HomeTypes, Reapply(t)
  PROVE  HomeTypes'
<1>1. WorkGoesOn
  BY LimitsAssumption DEF Reapply, Input, WorkGoesOn, HomeTypes, FileType
<1>2. /\ SvcType' /\ BackupsType' /\ QueueType' /\ DayType' /\ LogsType' /\ ScanType'
      /\ OpType'
  BY <1>1, TypesKept DEF Reapply, HomeTypes, SvcType, DayType, LogsType, ScanType
<1>3. DbType'
  <2>1. db' \in Databases /\ db'.schema = db.schema
    BY DEF Reapply, HomeTypes, DbType, Databases
  <2>. QED BY <1>1, <2>1, UseGrows DEF HomeTypes, DbType, FileType, Readable
<1>4. FileType'
  <2>1. file' \in Files
    BY RecordsOf DEF Reapply, HomeTypes, DbType, FileType, Files
  <2>. QED BY <1>1, <2>1, UseGrows DEF HomeTypes, FileType, WorkGoesOn
<1>. QED BY <1>2, <1>3, <1>4 DEF HomeTypes

LEMMA BeginRequestTypes ==
  ASSUME NEW t \in Targets, HomeTypes, BeginRequest(t)
  PROVE  HomeTypes'
<1>1. WorkGoesOn
  BY LimitsAssumption DEF BeginRequest, Input, WorkGoesOn, HomeTypes, FileType
<1>2. /\ DbType' /\ FileType' /\ SvcType' /\ BackupsType' /\ DayType' /\ LogsType'
      /\ ScanType' /\ OpType'
  BY <1>1, TypesKept DEF BeginRequest, HomeTypes, SvcType, DayType, LogsType, ScanType
<1>3. QueueType'
  <2>1. db.rev[t] \in 0 .. work
    BY RecordsOf, Apartness DEF HomeTypes, DbType, Files
  <2>2. serving' \subseteq 0 .. work /\ queue' = queue
    BY <2>1 DEF BeginRequest, HomeTypes, QueueType
  <2>. QED BY <1>1, <2>2, UseGrows DEF HomeTypes, QueueType, FileType
<1>. QED BY <1>2, <1>3 DEF HomeTypes

LEMMA FinishRequestTypes ==
  ASSUME HomeTypes, FinishRequest
  PROVE  HomeTypes'
<1>1. WorkGoesOn
  BY LimitsAssumption DEF FinishRequest, WorkGoesOn, HomeTypes, FileType
<1>2. /\ DbType' /\ FileType' /\ SvcType' /\ BackupsType' /\ DayType' /\ LogsType'
      /\ ScanType' /\ OpType'
  BY <1>1, TypesKept DEF FinishRequest, HomeTypes, SvcType, DayType, LogsType, ScanType
<1>3. QueueType'
  BY <1>1, TypesKept, UseGrows, Apartness, LimitsAssumption
  DEF FinishRequest, HomeTypes, WorkGoesOn, DbType, FileType, QueueType
<1>. QED BY <1>2, <1>3 DEF HomeTypes

LEMMA RecordRequestTypes ==
  ASSUME HomeTypes, RecordRequest
  PROVE  HomeTypes'
<1>1. WorkGoesOn
  BY LimitsAssumption DEF RecordRequest, WorkGoesOn, HomeTypes, FileType
<1>2. FileType' /\ SvcType' /\ BackupsType' /\ DayType' /\ LogsType' /\ ScanType' /\ OpType'
  BY <1>1, TypesKept DEF RecordRequest, HomeTypes, SvcType, DayType, LogsType, ScanType
<1>3. DbType'
  <2>1. PICK plan \in queue : db' = Recorded(db, plan)
    BY DEF RecordRequest
  <2>2. plan \in 0 .. work /\ db \in Databases
    BY DEF HomeTypes, QueueType, DbType
  <2>3. Recorded(db, plan) \in Databases /\ Recorded(db, plan).schema = db.schema
    BY <2>2, RecordedType DEF HomeTypes
  <2>. QED BY <2>1, <2>3, SameTypes DEF RecordRequest, HomeTypes, DbType, Readable
<1>4. QueueType'
  BY <1>1, TypesKept, UseGrows, Apartness, LimitsAssumption
  DEF RecordRequest, Recorded, HomeTypes, WorkGoesOn, DbType, FileType, QueueType
<1>. QED BY <1>2, <1>3, <1>4 DEF HomeTypes

LEMMA AppendLineTypes ==
  ASSUME NEW l \in Logs, HomeTypes, AppendLine(l)
  PROVE  HomeTypes'
<1>1. WorkGoesOn
  BY LimitsAssumption DEF AppendLine, Input, WorkGoesOn, HomeTypes, FileType
<1>2. /\ DbType' /\ FileType' /\ SvcType' /\ BackupsType' /\ QueueType' /\ DayType'
      /\ ScanType' /\ OpType'
  BY <1>1, TypesKept DEF AppendLine, HomeTypes, SvcType, DayType, ScanType
<1>3. LogsType'
  <2>1. logs[l].days \in Seq(0 .. MaxDay) /\ today \in 0 .. MaxDay
    BY DEF HomeTypes, LogsType, DayType
  <2>2. /\ Append(logs[l].days, today) \in Seq(0 .. MaxDay)
        /\ Len(Append(logs[l].days, today)) = Len(logs[l].days) + 1
        /\ Len(logs[l].days) \in Nat
    BY <2>1
  <2> DEFINE days == Append(logs[l].days, today)
  <2> HIDE DEF days
  <2>3. logs' = [logs EXCEPT ![l].days = days] /\ Len(days) <= MaxLines
    BY <2>2, LimitsAssumption DEF AppendLine, days
  <2>4. days \in Seq(0 .. MaxDay)
    BY <2>2 DEF days
  <2>. QED BY <2>3, <2>4 DEF HomeTypes, LogsType
<1>. QED BY <1>2, <1>3 DEF HomeTypes

LEMMA ArchiveTypes ==
  ASSUME NEW l \in Logs, HomeTypes, Archive(l)
  PROVE  HomeTypes'
<1>1. WorkGoesOn
  BY LimitsAssumption DEF Archive, Input, WorkGoesOn, HomeTypes, FileType
<1>2. /\ DbType' /\ FileType' /\ SvcType' /\ BackupsType' /\ QueueType' /\ DayType'
      /\ ScanType' /\ OpType'
  BY <1>1, TypesKept DEF Archive, HomeTypes, SvcType, DayType, ScanType
<1>3. LogsType'
  BY <1>1, TypesKept, UseGrows, Apartness, LimitsAssumption
  DEF Archive, Input, HomeTypes, WorkGoesOn, DbType, FileType, LogsType, Paths
<1>. QED BY <1>2, <1>3 DEF HomeTypes

LEMMA NextDayTypes ==
  ASSUME HomeTypes, NextDay
  PROVE  HomeTypes'
<1>1. WorkGoesOn
  BY LimitsAssumption DEF NextDay, Input, WorkGoesOn, HomeTypes, FileType
<1>2. /\ DbType' /\ FileType' /\ SvcType' /\ BackupsType' /\ QueueType' /\ LogsType'
      /\ ScanType' /\ OpType'
  BY <1>1, TypesKept DEF NextDay, HomeTypes, SvcType, LogsType, ScanType
<1>3. DayType'
  BY <1>1, TypesKept, UseGrows, Apartness, LimitsAssumption
  DEF NextDay, Input, HomeTypes, WorkGoesOn, DbType, FileType, DayType
<1>. QED BY <1>2, <1>3 DEF HomeTypes

LEMMA ScanFilesTypes ==
  ASSUME HomeTypes, ScanFiles
  PROVE  HomeTypes'
<1>1. WorkGoesOn
  BY LimitsAssumption DEF ScanFiles, WorkGoesOn, HomeTypes, FileType
<1>2. /\ DbType' /\ FileType' /\ SvcType' /\ BackupsType' /\ QueueType' /\ DayType'
      /\ LogsType' /\ OpType'
  BY <1>1, TypesKept DEF ScanFiles, HomeTypes, SvcType, DayType, LogsType
<1>3. ScanType'
  BY <1>1, TypesKept, UseGrows, Apartness, LimitsAssumption
  DEF ScanFiles, Up, Parsed, HomeTypes, WorkGoesOn, DbType, FileType, ScanType, LogsType,
      Paths, NoScan
<1>. QED BY <1>2, <1>3 DEF HomeTypes

LEMMA ImportScanTypes ==
  ASSUME HomeTypes, ImportScan
  PROVE  HomeTypes'
<1>1. WorkGoesOn
  BY LimitsAssumption DEF ImportScan, WorkGoesOn, HomeTypes, FileType
<1>2. /\ FileType' /\ SvcType' /\ BackupsType' /\ QueueType' /\ DayType' /\ LogsType'
      /\ OpType'
  BY <1>1, TypesKept DEF ImportScan, HomeTypes, SvcType, DayType, LogsType
<1>3. DbType'
  <2>1. scan \in [Logs -> [path : Paths, lines : Nat]]
    BY DEF ImportScan, HomeTypes, ScanType
  <2>2. Imported(db) \in Databases /\ Imported(db).schema = db.schema
    BY <2>1, ImportedType DEF HomeTypes, DbType
  <2>. QED BY <2>2, RolledUpType, SameTypes DEF ImportScan, HomeTypes, DbType, Readable
<1>4. ScanType'
  BY <1>1, TypesKept, UseGrows, Apartness, LimitsAssumption
  DEF ImportScan, Up, RolledUp, DayOf, Added, Imported, NewLines, HomeTypes, WorkGoesOn,
      DbType, FileType, ScanType, LogsType, Paths, NoScan
<1>. QED BY <1>2, <1>3, <1>4 DEF HomeTypes

LEMMA ClearUsageTypes ==
  ASSUME HomeTypes, ClearUsage
  PROVE  HomeTypes'
<1>1. WorkGoesOn
  BY LimitsAssumption DEF ClearUsage, Input, WorkGoesOn, HomeTypes, FileType
<1>2. /\ FileType' /\ SvcType' /\ BackupsType' /\ QueueType' /\ DayType' /\ LogsType'
      /\ ScanType' /\ OpType'
  BY <1>1, TypesKept DEF ClearUsage, HomeTypes, SvcType, DayType, LogsType, ScanType
<1>3. DbType'
  <2> DEFINE ledger == [EmptyLedger EXCEPT !.retention = db.ledger.retention,
                                          !.catalog = db.ledger.catalog]
  <2>1. db \in Databases /\ db.schema \in Nat /\ ledger \in Ledgers
    BY EmptyLedgerType, RecordsOf DEF HomeTypes, DbType, Ledgers
  <2>2. db' = With(db, db.schema, {}, ledger)
    BY <2>1 DEF ClearUsage, With, Databases
  <2> HIDE DEF ledger
  <2>3. db' \in Databases /\ db'.schema = db.schema
    BY <2>1, <2>2, WithType
  <2>. QED BY <1>1, <2>3, UseGrows DEF HomeTypes, DbType, FileType, Readable
<1>. QED BY <1>2, <1>3 DEF HomeTypes

LEMMA SetRetentionTypes ==
  ASSUME NEW days \in {1, Forever}, HomeTypes, SetRetention(days)
  PROVE  HomeTypes'
<1>1. WorkGoesOn
  BY LimitsAssumption DEF SetRetention, Input, WorkGoesOn, HomeTypes, FileType
<1>2. /\ FileType' /\ SvcType' /\ BackupsType' /\ QueueType' /\ DayType' /\ LogsType'
      /\ ScanType' /\ OpType'
  BY <1>1, TypesKept DEF SetRetention, HomeTypes, SvcType, DayType, LogsType, ScanType
<1>3. DbType'
  <2> DEFINE d == [db EXCEPT !.ledger.retention = days]
  <2>1. d \in Databases /\ d.schema = db.schema
    BY DEF HomeTypes, DbType, Databases, Ledgers, Forever
  <2>2. db' = RolledUp(d)
    BY DEF SetRetention
  <2> HIDE DEF d
  <2>3. RolledUp(d) \in Databases /\ RolledUp(d).schema = db.schema
    BY <2>1, RolledUpType
  <2>. QED BY <1>1, <2>2, <2>3, UseGrows DEF HomeTypes, DbType, FileType, Readable
<1>. QED BY <1>2, <1>3 DEF HomeTypes

LEMMA ReplaceCatalogTypes ==
  ASSUME NEW prices \in FetchedCatalogs, HomeTypes, ReplaceCatalog(prices)
  PROVE  HomeTypes'
<1>1. WorkGoesOn
  BY LimitsAssumption DEF ReplaceCatalog, Input, WorkGoesOn, HomeTypes, FileType
<1>2. /\ FileType' /\ SvcType' /\ BackupsType' /\ QueueType' /\ DayType' /\ LogsType'
      /\ ScanType' /\ OpType'
  BY <1>1, TypesKept DEF ReplaceCatalog, HomeTypes, SvcType, DayType, LogsType, ScanType
<1>3. DbType'
  <2> DEFINE priced == Backfilled(db.ledger, prices)
           ledger == [db.ledger EXCEPT !.catalog = prices, !.priced = priced]
  <2>1. db \in Databases /\ db.schema \in Nat /\ db.ledger \in Ledgers
        /\ db.records \in SUBSET [plan : 0 .. work, day : 0 .. MaxDay]
    BY RecordsOf DEF HomeTypes, DbType
  <2>2. priced \in SUBSET Lines
    BY <2>1 DEF Backfilled, Ledgers
  <2> HIDE DEF priced
  <2>3. ledger \in Ledgers
    BY <2>1, <2>2 DEF Ledgers, FetchedCatalogs
  <2>4. db' = With(db, db.schema, db.records, ledger)
    BY <2>1 DEF ReplaceCatalog, With, Databases, Ledgers, priced
  <2> HIDE DEF ledger
  <2>5. db' \in Databases /\ db'.schema = db.schema
    BY <2>1, <2>3, <2>4, WithType
  <2>. QED BY <1>1, <2>5, UseGrows DEF HomeTypes, DbType, FileType, Readable
<1>. QED BY <1>2, <1>3 DEF HomeTypes

LEMMA BeginBackupTypes ==
  ASSUME HomeTypes, BeginBackup
  PROVE  HomeTypes'
<1>1. WorkGoesOn
  BY LimitsAssumption DEF BeginBackup, Input, WorkGoesOn, HomeTypes, FileType
<1>2. /\ DbType' /\ FileType' /\ SvcType' /\ BackupsType' /\ QueueType' /\ DayType'
      /\ LogsType' /\ ScanType'
  BY <1>1, TypesKept DEF BeginBackup, HomeTypes, SvcType, DayType, LogsType, ScanType
<1>3. OpType'
  BY <1>1, TypesKept, UseGrows, Apartness, LimitsAssumption
  DEF BeginBackup, Free, Up, Input, Started, HomeTypes, WorkGoesOn, DbType, FileType,
      OpType, Operations, NoOperation, Early, Stages, Readable
<1>. QED BY <1>2, <1>3 DEF HomeTypes

LEMMA CopyDatabaseTypes ==
  ASSUME HomeTypes, CopyDatabase
  PROVE  HomeTypes'
<1>1. WorkGoesOn
  BY LimitsAssumption DEF CopyDatabase, WorkGoesOn, HomeTypes, FileType
<1>2. /\ DbType' /\ FileType' /\ SvcType' /\ BackupsType' /\ QueueType' /\ DayType'
      /\ LogsType' /\ ScanType'
  BY <1>1, TypesKept DEF CopyDatabase, HomeTypes, SvcType, DayType, LogsType, ScanType
<1>3. OpType'
  <2>1. op \in Operations /\ op # NoOperation /\ op.stage \in Stages \cup Pieces
    BY NotIdle DEF CopyDatabase, HomeTypes, OpType, Stages, NoOperation
  <2>2. [db |-> db, live |-> file] \in Copies
    BY DEF HomeTypes, DbType, FileType, Copies
  <2>3. /\ op' \in Operations /\ op'.stage = "install" /\ op'.way = op.way
        /\ op'.seen = op.seen /\ op'.kind = op.kind /\ op'.wanted = op.wanted
        /\ op'.copy = [db |-> db, live |-> file] /\ svc' = svc /\ work' = work
    BY <2>1, <2>2 DEF CopyDatabase, Operations, Stages
  <2>. QED BY <2>1, <2>2, <2>3, SameTypes
       DEF CopyDatabase, HomeTypes, OpType, Early, Readable, DbType
<1>. QED BY <1>2, <1>3 DEF HomeTypes

LEMMA InstallBackupTypes ==
  ASSUME HomeTypes, InstallBackup
  PROVE  HomeTypes'
<1>1. WorkGoesOn
  BY LimitsAssumption DEF InstallBackup, WorkGoesOn, HomeTypes, FileType
<1>2. DbType' /\ FileType' /\ SvcType' /\ QueueType' /\ LogsType' /\ ScanType'
  BY <1>1, TypesKept DEF InstallBackup, HomeTypes, SvcType, LogsType, ScanType
<1>3. BackupsType'
  <2>1. op.stage = "install"
    BY DEF InstallBackup
  <2>2. op.seen \in Files /\ op.copy \in Copies
    BY <2>1, NotIdle DEF HomeTypes, OpType, Early, NoOperation
  <2>3. Capture \in Artifacts
    BY <2>2 DEF Capture, Artifact, Artifacts, Copies
  <2>. QED BY <2>3, SameTypes DEF InstallBackup, HomeTypes, BackupsType
<1>4. DayType'
  BY <1>1, TypesKept, UseGrows, Apartness, LimitsAssumption
  DEF InstallBackup, Reread, Capture, Artifact, Answers, Hurt, Fault, HomeTypes,
      WorkGoesOn, DbType, FileType, DayType
<1>5. OpType'
  <2>1. op.stage = "install" /\ work' = work /\ svc' = svc
    BY DEF InstallBackup
  <2>2. /\ op \in Operations /\ op # NoOperation /\ svc = "up" /\ op.way = "forward"
        /\ op.seen \in Files /\ op.copy \in Copies /\ Readable(op.copy.db)
        /\ (op.kind = "restore" => op.wanted \in Artifacts /\ Readable(op.wanted.db))
    BY <2>1, NotIdle DEF HomeTypes, OpType, Early, NoOperation
  <2>3. Capture \in Artifacts /\ Readable(Capture.db)
    BY <2>2 DEF Capture, Artifact, Artifacts, Copies
  <2>4. CASE op' = NoOperation
    BY <2>4 DEF OpType
  <2>5. CASE /\ op.kind = "restore"
             /\ op' = [op EXCEPT !.stage = "shutdown", !.before = Capture,
                                 !.copy = <<>>, !.seen = <<>>]
    <3>1. /\ op' \in Operations /\ op'.stage = "shutdown" /\ op'.way = op.way
          /\ op'.kind = op.kind /\ op'.wanted = op.wanted /\ op'.before = Capture
      BY <2>2, <2>3, <2>5 DEF Operations, Stages
    <3>. QED BY <2>1, <2>2, <2>3, <2>5, <3>1, SameTypes DEF OpType, Early, Readable
  <2>. QED BY <2>4, <2>5 DEF InstallBackup, Answers
<1>. QED BY <1>2, <1>3, <1>4, <1>5 DEF HomeTypes

LEMMA RefuseRestoreTypes ==
  ASSUME HomeTypes, RefuseRestore
  PROVE  HomeTypes'
<1>1. WorkGoesOn
  BY LimitsAssumption DEF RefuseRestore, Input, WorkGoesOn, HomeTypes, FileType
<1>2. /\ DbType' /\ FileType' /\ SvcType' /\ BackupsType' /\ QueueType' /\ LogsType'
      /\ ScanType' /\ OpType'
  BY <1>1, TypesKept DEF RefuseRestore, HomeTypes, SvcType, LogsType, ScanType
<1>3. DayType'
  BY <1>1, TypesKept, UseGrows, Apartness, LimitsAssumption
  DEF RefuseRestore, Free, Up, Input, Compatible, SchemaVersion, Hurt, Fault, HomeTypes,
      WorkGoesOn, DbType, FileType, DayType
<1>. QED BY <1>2, <1>3 DEF HomeTypes

LEMMA BeginRestoreTypes ==
  ASSUME HomeTypes, BeginRestore
  PROVE  HomeTypes'
<1>1. WorkGoesOn
  BY LimitsAssumption DEF BeginRestore, Input, WorkGoesOn, HomeTypes, FileType
<1>2. /\ DbType' /\ FileType' /\ SvcType' /\ BackupsType' /\ QueueType' /\ DayType'
      /\ LogsType' /\ ScanType'
  BY <1>1, TypesKept DEF BeginRestore, HomeTypes, SvcType, DayType, LogsType, ScanType
<1>3. OpType'
  <2>1. PICK a \in backups :
          Free /\ Compatible(a) /\ op' = [Started("restore") EXCEPT !.wanted = Extracted(a)]
    BY DEF BeginRestore
  <2>2. a \in Artifacts /\ a.db.schema <= SchemaVersion
    BY <2>1 DEF HomeTypes, BackupsType, Compatible
  <2>3. Extracted(a) \in Artifacts /\ Readable(Extracted(a).db)
    <3>1. Upgraded(a.db) \in Databases /\ Readable(Upgraded(a.db))
      BY <2>2, UpgradedType DEF Artifacts
    <3>. QED BY <2>2, <3>1 DEF Extracted, Artifacts
  <2>4. /\ op' \in Operations /\ op'.stage = "copy" /\ op'.way = "forward"
        /\ op'.seen = file /\ op'.kind = "restore" /\ op'.wanted = Extracted(a)
    BY <2>1, <2>3 DEF Started, Operations, Stages, HomeTypes, FileType
  <2>5. svc' = "up"
    BY <2>1 DEF BeginRestore, Free, Up
  <2>6. Files \subseteq Files' /\ Artifacts \subseteq Artifacts' /\ Operations \subseteq Operations'
    BY <1>1, UseGrows DEF HomeTypes, FileType
  <2>. QED BY <2>3, <2>4, <2>5, <2>6 DEF OpType, Early, Readable, HomeTypes, FileType
<1>. QED BY <1>2, <1>3 DEF HomeTypes

LEMMA ShutdownModelsTypes ==
  ASSUME HomeTypes, ShutdownModels
  PROVE  HomeTypes'
<1>1. WorkGoesOn
  BY LimitsAssumption DEF ShutdownModels, WorkGoesOn, HomeTypes, FileType
<1>2. FileType' /\ BackupsType' /\ LogsType' /\ ScanType'
  BY <1>1, TypesKept DEF ShutdownModels, HomeTypes, LogsType, ScanType
<1>3. DbType'
  BY ShutdownEffect, MarkedType, SameTypes
     DEF ShutdownModels, GivenUp, HomeTypes, DbType, Readable
<1>4. SvcType'
  BY <1>1, TypesKept, UseGrows, Apartness, LimitsAssumption
  DEF ShutdownModels, Drained, Goes, Hurt, Fault, ServesAgain, Troubles, GivesUp,
      Answers, MarkedForRecovery, HomeTypes, WorkGoesOn, DbType, FileType, SvcType
<1>5. QueueType'
  BY <1>1, TypesKept, UseGrows, Apartness, LimitsAssumption
  DEF ShutdownModels, Drained, Goes, Hurt, Fault, ServesAgain, Troubles, GivesUp,
      Answers, MarkedForRecovery, HomeTypes, WorkGoesOn, DbType, FileType, QueueType
<1>6. DayType'
  BY <1>1, TypesKept, UseGrows, Apartness, LimitsAssumption
  DEF ShutdownModels, Drained, Goes, Hurt, Fault, ServesAgain, Troubles, GivesUp,
      Answers, MarkedForRecovery, HomeTypes, WorkGoesOn, DbType, FileType, DayType
<1>7. OpType'
  <2>1. OpType /\ op.stage \in Stages \cup Pieces /\ op.stage \notin Early
    BY ShutdownEffect DEF HomeTypes, Stages, Early
  <2>2. CASE op.way = "back" /\ GivenUp(db)
    BY <2>2 DEF GivenUp, OpType
  <2>3. CASE Proceeds(IF op.way = "forward" THEN "reserve" ELSE "database")
    BY <2>1, <2>3, MovesTypes, ShutdownEffect DEF Proceeds, Early
  <2>4. CASE TurnsBack("resume")
    BY <2>1, <2>4, MovesTypes, ShutdownEffect DEF TurnsBack, Early
  <2>. QED BY <2>2, <2>3, <2>4, ShutdownEffect
<1>. QED BY <1>2, <1>3, <1>4, <1>5, <1>6, <1>7 DEF HomeTypes

LEMMA ReservePortsTypes ==
  ASSUME HomeTypes, ReservePorts
  PROVE  HomeTypes'
<1>1. WorkGoesOn
  BY LimitsAssumption DEF ReservePorts, WorkGoesOn, HomeTypes, FileType
<1>2. FileType' /\ SvcType' /\ BackupsType' /\ QueueType' /\ LogsType' /\ ScanType'
  BY <1>1, TypesKept DEF ReservePorts, HomeTypes, SvcType, LogsType, ScanType
<1>3. DbType'
  BY <1>1, TypesKept, UseGrows, Apartness, LimitsAssumption
  DEF ReservePorts, Goes, Hurt, Fault, Wanted, ServesAgain, Troubles, HomeTypes,
      WorkGoesOn, DbType, FileType, Databases, Ledgers, Readable
<1>4. DayType'
  BY <1>1, TypesKept, UseGrows, Apartness, LimitsAssumption
  DEF ReservePorts, Goes, Hurt, Fault, Wanted, ServesAgain, Troubles, HomeTypes,
      WorkGoesOn, DbType, FileType, DayType
<1>5. OpType'
  <2>1. OpType /\ op.stage \in Stages \cup Pieces /\ op.stage \notin Early
        /\ work' = work /\ svc' = svc
    BY ReserveEffect DEF HomeTypes, Stages, Early, ReservePorts
  <2>. QED BY <2>1, MovesTypes, ReserveEffect DEF Proceeds, TurnsBack, Early
<1>. QED BY <1>2, <1>3, <1>4, <1>5 DEF HomeTypes

LEMMA RestoreDatabaseTypes ==
  ASSUME HomeTypes, RestoreDatabase
  PROVE  HomeTypes'
<1>1. WorkGoesOn
  BY LimitsAssumption DEF RestoreDatabase, WorkGoesOn, HomeTypes, FileType
<1>2. FileType' /\ SvcType' /\ BackupsType' /\ QueueType' /\ LogsType' /\ ScanType'
  BY <1>1, TypesKept DEF RestoreDatabase, HomeTypes, SvcType, LogsType, ScanType
<1>3. DbType'
  <2>1. op.stage \in Stages \cup Pieces /\ op.stage \notin Early /\ work' = work /\ svc' = svc
    BY DatabaseEffect DEF Stages, Early, RestoreDatabase
  <2>2. db \in Databases /\ Readable(db) /\ Wanted.db \in Databases /\ Readable(Wanted.db)
    BY <2>1, WantedType DEF HomeTypes, DbType, Artifacts
  <2>. QED BY <2>1, <2>2, DatabaseEffect, FailedTypes, SameTypes DEF DbType, Readable
<1>4. DayType'
  BY <1>1, TypesKept, UseGrows, Apartness, LimitsAssumption
  DEF RestoreDatabase, Wanted, Goes, Hurt, Fault, Fails, FallsBack, Troubles, GivesUp,
      Answers, MarkedForRecovery, HomeTypes, WorkGoesOn, DbType, FileType, DayType
<1>5. OpType'
  <2>1. op.stage \in Stages \cup Pieces /\ op.stage \notin Early /\ work' = work /\ svc' = svc
        /\ OpType
    BY DatabaseEffect DEF Stages, Early, RestoreDatabase, HomeTypes
  <2>2. db \in Databases /\ Readable(db) /\ Wanted.db \in Databases /\ Readable(Wanted.db)
    BY <2>1, WantedType DEF HomeTypes, DbType, Artifacts
  <2>3. Proceeds(Accounts) => OpType'
    BY <2>1, MovesTypes, Apartness DEF Proceeds, Early, Stages
  <2>. QED BY <2>1, <2>2, <2>3, DatabaseEffect, FailedTypes
<1>. QED BY <1>2, <1>3, <1>4, <1>5 DEF HomeTypes

LEMMA ApplyFileTypes ==
  ASSUME HomeTypes, ApplyFile
  PROVE  HomeTypes'
<1>1. WorkGoesOn
  BY LimitsAssumption DEF ApplyFile, WorkGoesOn, HomeTypes, FileType
<1>2. SvcType' /\ BackupsType' /\ QueueType' /\ LogsType' /\ ScanType'
  BY <1>1, TypesKept DEF ApplyFile, HomeTypes, SvcType, LogsType, ScanType
<1>3. DbType'
  <2>1. op.stage \in Stages \cup Pieces /\ op.stage \notin Early /\ work' = work /\ svc' = svc
    BY ApplyEffect, Apartness DEF Stages, Early, ApplyFile
  <2>2. db \in Databases /\ Readable(db)
    BY DEF HomeTypes, DbType
  <2>. QED BY <2>1, <2>2, ApplyEffect, FailedTypes, SameTypes DEF DbType, Readable
<1>4. FileType'
  <2>1. op.stage \in Pieces /\ op.stage \in Stages \cup Pieces /\ op.stage \notin Early
        /\ work' = work
    BY ApplyEffect, Apartness DEF Stages, Early, ApplyFile
  <2>2. Wanted.file \in Files
    BY <2>1, WantedType DEF HomeTypes, Artifacts
  <2>3. file' \in Files
    BY <2>1, <2>2, ApplyEffect DEF HomeTypes, FileType, Files
  <2>. QED BY <2>1, <2>3, SameTypes DEF HomeTypes, FileType
<1>5. DayType'
  BY <1>1, TypesKept, UseGrows, Apartness, LimitsAssumption
  DEF ApplyFile, Wanted, Goes, After, Hurt, Fault, Fails, FallsBack, Troubles, GivesUp,
      Answers, MarkedForRecovery, HomeTypes, WorkGoesOn, DbType, FileType, DayType
<1>6. OpType'
  <2>1. op.stage \in Pieces /\ op.stage \in Stages \cup Pieces /\ op.stage \notin Early
        /\ work' = work /\ svc' = svc /\ OpType
    BY ApplyEffect, Apartness DEF Stages, Early, ApplyFile, HomeTypes
  <2>2. db \in Databases /\ Readable(db)
    BY DEF HomeTypes, DbType
  <2>3. After(op.stage) \in Pieces \cup {"verify"} /\ After(op.stage) \notin Early
        /\ After(op.stage) # "reserve"
    BY <2>1, AfterPiece, Apartness DEF Stages, Early
  <2>4. Proceeds(After(op.stage)) => OpType'
    BY <2>1, <2>3, MovesTypes DEF Proceeds
  <2>. QED BY <2>1, <2>2, <2>4, ApplyEffect, FailedTypes
<1>. QED BY <1>2, <1>3, <1>4, <1>5, <1>6 DEF HomeTypes

LEMMA VerifyFilesTypes ==
  ASSUME HomeTypes, VerifyFiles
  PROVE  HomeTypes'
<1>1. WorkGoesOn
  BY LimitsAssumption DEF VerifyFiles, WorkGoesOn, HomeTypes, FileType
<1>2. FileType' /\ SvcType' /\ BackupsType' /\ QueueType' /\ LogsType' /\ ScanType'
  BY <1>1, TypesKept DEF VerifyFiles, HomeTypes, SvcType, LogsType, ScanType
<1>3. DbType'
  <2>1. op.stage \in Stages \cup Pieces /\ op.stage \notin Early /\ work' = work /\ svc' = svc
    BY VerifyEffect DEF Stages, Early, VerifyFiles
  <2>2. db \in Databases /\ Readable(db)
    BY DEF HomeTypes, DbType
  <2>. QED BY <2>1, <2>2, VerifyEffect, FailedTypes, SameTypes DEF DbType, Readable
<1>4. DayType'
  BY <1>1, TypesKept, UseGrows, Apartness, LimitsAssumption
  DEF VerifyFiles, Wanted, Goes, Fails, FallsBack, Troubles, GivesUp, Answers,
      MarkedForRecovery, HomeTypes, WorkGoesOn, DbType, FileType, DayType
<1>5. OpType'
  <2>1. op.stage \in Stages \cup Pieces /\ op.stage \notin Early /\ work' = work /\ svc' = svc
        /\ OpType
    BY VerifyEffect DEF Stages, Early, VerifyFiles, HomeTypes
  <2>2. db \in Databases /\ Readable(db)
    BY DEF HomeTypes, DbType
  <2>3. Proceeds("resume") => OpType'
    BY <2>1, MovesTypes DEF Proceeds, Early
  <2>. QED BY <2>1, <2>2, <2>3, VerifyEffect, FailedTypes
<1>. QED BY <1>2, <1>3, <1>4, <1>5 DEF HomeTypes

LEMMA ResumeTakeoversTypes ==
  ASSUME HomeTypes, ResumeTakeovers
  PROVE  HomeTypes'
<1>1. WorkGoesOn
  BY LimitsAssumption DEF ResumeTakeovers, WorkGoesOn, HomeTypes, FileType
<1>2. FileType' /\ BackupsType' /\ QueueType' /\ LogsType' /\ ScanType'
  BY <1>1, TypesKept DEF ResumeTakeovers, HomeTypes, LogsType, ScanType
<1>3. DbType'
  <2>1. op.stage \in Stages \cup Pieces /\ op.stage \notin Early /\ work' = work /\ svc' = svc
    BY ResumeEffect DEF Stages, Early, ResumeTakeovers
  <2>2. db \in Databases /\ Readable(db)
    BY DEF HomeTypes, DbType
  <2>3. Failed(db) => DbType'
    BY <2>1, <2>2, FailedTypes
  <2>4. ASSUME NEW T \in SUBSET Targets, Failed([db EXCEPT !.drift = T])
        PROVE  DbType'
    <3> DEFINE d == [db EXCEPT !.drift = T]
    <3>1. d \in Databases /\ Readable(d)
      BY <2>2, DriftedType DEF Readable
    <3> HIDE DEF d
    <3>2. Failed(d)
      BY <2>4 DEF d
    <3>. QED BY <2>1, <3>1, <3>2, FailedTypes
  <2>5. db' = db => DbType'
    BY <2>1, <2>2, SameTypes DEF DbType, Readable
  <2>. QED BY <2>3, <2>4, <2>5, ResumeEffect
<1>4. SvcType'
  BY ResumeEffect DEF ResumeTakeovers, HomeTypes, SvcType
<1>5. DayType'
  BY <1>1, ResumeEffect, LimitsAssumption
     DEF ResumeTakeovers, HomeTypes, DayType, Hurt, Fault, Fails, FallsBack
<1>6. OpType'
  <2>1. op.stage \in Stages \cup Pieces /\ op.stage \notin Early /\ work' = work /\ svc' = svc
    BY ResumeEffect DEF Stages, Early, ResumeTakeovers
  <2>2. db \in Databases /\ Readable(db)
    BY DEF HomeTypes, DbType
  <2>3. Failed(db) => OpType'
    BY <2>1, <2>2, FailedTypes
  <2>4. ASSUME NEW T \in SUBSET Targets, Failed([db EXCEPT !.drift = T])
        PROVE  OpType'
    <3> DEFINE d == [db EXCEPT !.drift = T]
    <3>1. d \in Databases /\ Readable(d)
      BY <2>2, DriftedType DEF Readable
    <3> HIDE DEF d
    <3>2. Failed(d)
      BY <2>4 DEF d
    <3>. QED BY <2>1, <3>1, <3>2, FailedTypes
  <2>5. op' = op \/ op' = NoOperation => OpType'
    BY <2>1, SameTypes DEF OpType, HomeTypes, Readable
  <2>. QED BY <2>3, <2>4, <2>5, ResumeEffect
<1>. QED BY <1>2, <1>3, <1>4, <1>5, <1>6 DEF HomeTypes
-----------------------------------------------------------------------------
(* The databases a step leaves, and what becomes of the home's own.          *)
SamePlans(d, e) == e.rev = d.rev /\ e.plans = d.plans /\ e.records \subseteq d.records

LEMMA SamePlansKnown ==
  ASSUME NEW d, NEW e, KnowsPlans(d), SamePlans(d, e)
  PROVE  KnowsPlans(e)
BY DEF KnowsPlans, SamePlans

(* What an operation holds when it moves on is what it held.                 *)
OperationGoesOn ==
  \/ op' = op
  \/ op' = NoOperation
  \/ op # NoOperation /\ op'.copy = op.copy /\ op'.wanted = op.wanted
       /\ op'.before = op.before

LEMMA HeldGoesOn ==
  ASSUME backups' = backups, OperationGoesOn
  PROVE  HeldDatabases' \subseteq HeldDatabases \cup {db'}
<1>1. op' # NoOperation => op # NoOperation /\ HeldBy(op)' = HeldBy(op)
  BY DEF OperationGoesOn, HeldBy
<1>. QED BY <1>1 DEF HeldDatabases

LEMMA SameOperationGoesOn ==
  ASSUME op # NoOperation, SameOperation
  PROVE  OperationGoesOn
BY DEF SameOperation, OperationGoesOn

LEMMA WantedIsHeld ==
  ASSUME OpType, op.stage \in Stages \cup Pieces, op.stage \notin Early
  PROVE  Wanted.db \in HeldDatabases
<1>1. op # NoOperation /\ op.kind = "restore" /\ Wanted \in {op.wanted, op.before}
  BY NotIdle DEF OpType, Wanted
<1>2. Wanted \in Artifacts
  BY WantedType
<1>3. Wanted # <<>>
  BY <1>2 DEF Artifacts
<1>4. Wanted.db \in HeldBy(op)
  BY <1>1, <1>3 DEF HeldBy
<1>. QED BY <1>1, <1>4 DEF HeldDatabases

(* A restore that fails leaves the database it had, but for a mark.           *)
LEMMA FailedDatabase ==
  ASSUME NEW d \in Databases, op # NoOperation, Failed(d)
  PROVE  /\ SamePlans(d, db') /\ db'.ledger = d.ledger /\ OperationGoesOn
BY MarkedType, SameOperationGoesOn
DEF Failed, TurnsBack, GivenUp, SamePlans, OperationGoesOn

(* The database after the steps of a restore is one that was held.            *)
RestoreSteps ==
  ShutdownModels \/ ReservePorts \/ RestoreDatabase \/ ApplyFile \/ VerifyFiles
    \/ ResumeTakeovers

LEMMA RestoreStepsEffect ==
  ASSUME HomeTypes, RestoreSteps
  PROVE  /\ op.stage \in Stages \cup Pieces /\ op.stage \notin Early /\ op # NoOperation
         /\ OperationGoesOn /\ backups' = backups /\ svc' = svc /\ work' = work
         /\ logs' = logs /\ scan' = scan
         /\ \E d \in HeldDatabases : SamePlans(d, db') /\ db'.ledger = d.ledger
         /\ (~RestoreDatabase => SamePlans(db, db'))
<1>1. op.stage \in Stages \cup Pieces /\ op.stage \notin Early
  BY Apartness DEF RestoreSteps, ShutdownModels, ReservePorts, RestoreDatabase, ApplyFile,
                   VerifyFiles, ResumeTakeovers, Stages, Early
<1>2. /\ op # NoOperation /\ OpType /\ db \in Databases /\ db \in HeldDatabases
      /\ Wanted.db \in Databases /\ Wanted.db \in HeldDatabases
  BY <1>1, UnderWay, WantedType, WantedIsHeld
     DEF HomeTypes, DbType, HeldDatabases, Artifacts
<1>3. \A stage : Proceeds(stage) \/ TurnsBack(stage) => OperationGoesOn
  BY <1>2, SameOperationGoesOn DEF Proceeds, TurnsBack
<1>4. GivenUp(db) => OperationGoesOn /\ SamePlans(db, db') /\ db'.ledger = db.ledger
  BY <1>2, MarkedType DEF GivenUp, SamePlans, OperationGoesOn
<1>5. db' = db => SamePlans(db, db') /\ db'.ledger = db.ledger
  BY DEF SamePlans
<1>6. db' = Wanted.db => SamePlans(Wanted.db, db') /\ db'.ledger = Wanted.db.ledger
  BY DEF SamePlans
<1>7. \A d \in {db, Wanted.db} :
        Failed(d) => SamePlans(d, db') /\ db'.ledger = d.ledger /\ OperationGoesOn
  BY <1>2, FailedDatabase
<1>8. ASSUME NEW T \in SUBSET Targets, Failed([db EXCEPT !.drift = T])
      PROVE  SamePlans(db, db') /\ db'.ledger = db.ledger /\ OperationGoesOn
  <2> DEFINE d == [db EXCEPT !.drift = T]
  <2>1. /\ d \in Databases /\ d.rev = db.rev /\ d.plans = db.plans
        /\ d.records = db.records /\ d.ledger = db.ledger
    BY <1>2, DriftedType
  <2> HIDE DEF d
  <2>2. Failed(d)
    BY <1>8 DEF d
  <2>. QED BY <1>2, <2>1, <2>2, FailedDatabase DEF SamePlans
<1>9. /\ backups' = backups /\ svc' = svc /\ work' = work /\ logs' = logs /\ scan' = scan
  BY DEF RestoreSteps, ShutdownModels, ReservePorts, RestoreDatabase, ApplyFile,
         VerifyFiles, ResumeTakeovers
<1>10. CASE ShutdownModels
  BY <1>1, <1>2, <1>3, <1>4, <1>5, <1>9, <1>10, ShutdownEffect
<1>11. CASE ReservePorts
  BY <1>1, <1>2, <1>3, <1>4, <1>5, <1>9, <1>11, ReserveEffect
<1>12. CASE RestoreDatabase
  BY <1>1, <1>2, <1>3, <1>6, <1>7, <1>9, <1>12, DatabaseEffect
<1>13. CASE ApplyFile
  BY <1>1, <1>2, <1>3, <1>5, <1>7, <1>9, <1>13, ApplyEffect
<1>14. CASE VerifyFiles
  BY <1>1, <1>2, <1>3, <1>5, <1>7, <1>9, <1>14, VerifyEffect
<1>15. CASE ResumeTakeovers
  <2>1. op' = op \/ op' = NoOperation => OperationGoesOn
    BY DEF OperationGoesOn
  <2>. QED BY <1>1, <1>2, <1>5, <1>7, <1>8, <1>9, <1>15, <2>1, ResumeEffect
<1>. QED BY <1>10, <1>11, <1>12, <1>13, <1>14, <1>15 DEF RestoreSteps

(* The databases of an operation that begins, copies or installs.             *)
LEMMA CopyHolds ==
  ASSUME HomeTypes, CopyDatabase
  PROVE  HeldDatabases' \subseteq HeldDatabases
<1>1. op \in Operations /\ op # NoOperation /\ db' = db /\ backups' = backups
  BY NotIdle DEF CopyDatabase, HomeTypes, OpType, NoOperation
<1>2. /\ op'.copy = [db |-> db, live |-> file] /\ op'.wanted = op.wanted
      /\ op'.before = op.before /\ op' # NoOperation
  BY <1>1, NotIdle DEF CopyDatabase, Operations, NoOperation
<1>3. HeldBy(op)' \subseteq HeldBy(op) \cup {db}
  BY <1>2 DEF HeldBy
<1>. QED BY <1>1, <1>2, <1>3 DEF HeldDatabases

LEMMA InstallHolds ==
  ASSUME HomeTypes, InstallBackup
  PROVE  /\ HeldDatabases' \subseteq HeldDatabases /\ op.stage = "install"
         /\ op \in Operations /\ op.way = "forward" /\ op.seen \in Files
         /\ op.copy \in Copies
         /\ \/ op' = NoOperation /\ answer' \in {"created", "changed", "not-created"}
            \/ /\ Reread /\ op.kind = "restore" /\ op' \in Operations
               /\ op'.stage = "shutdown" /\ op'.way = op.way /\ op'.hurt = op.hurt
               /\ op'.edited = op.edited /\ op'.wanted = op.wanted /\ op'.before = Capture
         /\ (backups' = backups \/ (Reread /\ backups' = backups \cup {Capture}))
<1>1. op.stage = "install" /\ db' = db
  BY DEF InstallBackup
<1>2. /\ op \in Operations /\ op # NoOperation /\ op.way = "forward"
      /\ op.seen \in Files /\ op.copy \in Copies
  BY <1>1, NotIdle DEF HomeTypes, OpType, Early, NoOperation
<1>3. Capture \in Artifacts /\ Capture.db = op.copy.db
  BY <1>2 DEF Capture, Artifact, Artifacts, Copies
<1>4. op.copy.db \in HeldBy(op)
  <2>1. "db" \in DOMAIN op.copy
    BY <1>2 DEF Copies
  <2>2. op.copy # <<>>
    BY <2>1
  <2>. QED BY <2>2 DEF HeldBy
<1>5. \/ /\ op' = NoOperation /\ answer' \in {"created", "changed", "not-created"}
         /\ (backups' = backups \/ (Reread /\ backups' = backups \cup {Capture}))
      \/ /\ Reread /\ op.kind = "restore" /\ backups' = backups \cup {Capture}
         /\ op' = [op EXCEPT !.stage = "shutdown", !.before = Capture,
                             !.copy = <<>>, !.seen = <<>>]
  <2> DEFINE later == [op EXCEPT !.stage = "shutdown", !.before = Capture,
                                 !.copy = <<>>, !.seen = <<>>]
  <2>1. \/ Reread /\ backups' = backups \cup {Capture} /\ Answers("created")
        \/ /\ Reread /\ backups' = backups \cup {Capture}
           /\ op.kind = "restore" /\ op' = later
        \/ Answers("changed") /\ backups' = backups
        \/ Answers("not-created") /\ backups' = backups
    BY DEF InstallBackup
  <2> HIDE DEF later
  <2>2. /\ Answers("created") => op' = NoOperation /\ answer' = "created"
        /\ Answers("changed") => op' = NoOperation /\ answer' = "changed"
        /\ Answers("not-created") => op' = NoOperation /\ answer' = "not-created"
    BY DEF Answers
  <2>3. \/ /\ op' = NoOperation /\ answer' \in {"created", "changed", "not-created"}
           /\ (backups' = backups \/ (Reread /\ backups' = backups \cup {Capture}))
        \/ /\ Reread /\ op.kind = "restore" /\ backups' = backups \cup {Capture}
           /\ op' = later
    BY <2>1, <2>2
  <2>. QED BY <2>3 DEF later
<1>6. backups' = backups \/ (Reread /\ backups' = backups \cup {Capture})
  BY <1>5
<1>7. CASE op' = NoOperation /\ answer' \in {"created", "changed", "not-created"}
  <2>1. \A a \in backups' : a.db \in {d.db : d \in backups} \cup {op.copy.db}
    BY <1>3, <1>6
  <2>2. HeldDatabases' \subseteq HeldDatabases
    BY <1>1, <1>2, <1>4, <1>7, <2>1 DEF HeldDatabases
  <2>. QED BY <1>1, <1>2, <1>6, <1>7, <2>2
<1>8. CASE /\ Reread /\ op.kind = "restore"
           /\ op' = [op EXCEPT !.stage = "shutdown", !.before = Capture,
                               !.copy = <<>>, !.seen = <<>>]
  <2>1. /\ op' \in Operations /\ op'.stage = "shutdown" /\ op'.way = op.way
        /\ op'.hurt = op.hurt /\ op'.edited = op.edited /\ op'.wanted = op.wanted
        /\ op'.before = Capture /\ op'.copy = <<>>
    BY <1>2, <1>3, <1>8 DEF Operations, Stages
  <2>2. HeldBy(op)' \subseteq HeldBy(op) \cup {op.copy.db}
    BY <1>3, <2>1 DEF HeldBy
  <2>. QED BY <1>1, <1>2, <1>3, <1>4, <1>6, <1>8, <2>1, <2>2 DEF HeldDatabases
<1>. QED BY <1>5, <1>7, <1>8

LEMMA BackupHolds ==
  ASSUME BeginBackup
  PROVE  HeldDatabases' \subseteq HeldDatabases
<1>1. op'.copy = <<>> /\ op'.wanted = <<>> /\ op'.before = <<>>
      /\ db' = db /\ backups' = backups
  BY DEF BeginBackup, Started
<1>2. HeldBy(op)' = {}
  BY <1>1 DEF HeldBy
<1>. QED BY <1>1, <1>2 DEF HeldDatabases

LEMMA RestoreHolds ==
  ASSUME HomeTypes, BeginRestore
  PROVE  \E a \in backups :
           /\ a \in Artifacts /\ a.db.schema <= SchemaVersion
           /\ op.stage = "idle" /\ op' # NoOperation
           /\ HeldDatabases' \subseteq HeldDatabases \cup {Upgraded(a.db)}
           /\ op'.wanted = Extracted(a)
<1>1. PICK a \in backups :
        Free /\ Compatible(a) /\ op' = [Started("restore") EXCEPT !.wanted = Extracted(a)]
  BY DEF BeginRestore
<1>2. a \in Artifacts /\ a.db.schema <= SchemaVersion
  BY <1>1 DEF HomeTypes, BackupsType, Compatible
<1>3. /\ op'.copy = <<>> /\ op'.wanted = Extracted(a) /\ op'.before = <<>>
      /\ op'.stage = "copy" /\ db' = db /\ backups' = backups
  BY <1>1 DEF BeginRestore, Started
<1>4. Extracted(a).db = Upgraded(a.db)
  BY <1>2 DEF Extracted, Artifacts
<1>5. HeldBy(op)' \subseteq {Upgraded(a.db)}
  BY <1>3, <1>4 DEF HeldBy
<1>6. op' # NoOperation /\ op.stage = "idle"
  BY <1>1, <1>3 DEF NoOperation, Free
<1>. QED BY <1>1, <1>2, <1>3, <1>5, <1>6 DEF HeldDatabases

-----------------------------------------------------------------------------
(* Nothing is served or waits to be recorded after the drain.                *)
LEMMA CopyEffect ==
  ASSUME OpType, CopyDatabase, db \in Databases, file \in Files
  PROVE  /\ op.stage = "copy" /\ op \in Operations /\ op' \in Operations
         /\ op'.stage = "install" /\ op'.copy = [db |-> db, live |-> file]
         /\ op'.kind = op.kind /\ op'.way = op.way /\ op'.hurt = op.hurt
         /\ op'.edited = op.edited /\ op'.wanted = op.wanted /\ op'.before = op.before
         /\ op'.seen = op.seen
<1>1. op.stage = "copy" /\ op \in Operations /\ work' = work
  BY NotIdle DEF CopyDatabase, OpType, NoOperation
<1> DEFINE copied == [db |-> db, live |-> file]
<1>2. copied \in Copies
  BY DEF Copies
<1>3. op' = [op EXCEPT !.stage = "install", !.copy = copied]
  BY DEF CopyDatabase
<1> HIDE DEF copied
<1>4. /\ op' \in Operations /\ op'.stage = "install" /\ op'.copy = copied
      /\ op'.kind = op.kind /\ op'.way = op.way /\ op'.hurt = op.hurt
      /\ op'.edited = op.edited /\ op'.wanted = op.wanted /\ op'.before = op.before
      /\ op'.seen = op.seen
  BY <1>1, <1>2, <1>3, SameTypes DEF Operations, Stages
<1>. QED BY <1>1, <1>4 DEF copied

LEMMA DrainKept ==
  ASSUME HomeTypes, DrainInv, HomeNext
  PROVE  DrainInv'
<1>1. NoOperation.stage \notin Emptied
     /\ {"copy", "install", "shutdown", "resume"} \cap Emptied = {}
     /\ {"reserve", "database", "verify"} \cup Pieces \subseteq Emptied
  BY Apartness, NotIdle DEF Emptied, Stages
<1>2. CASE OpenDatabase
  BY <1>2 DEF OpenDatabase, DrainInv
<1>3. CASE MigrationStep
  BY <1>3 DEF MigrationStep, DrainInv
<1>4. CASE Start
  BY <1>4, <1>1, NotIdle DEF Start, HomeTypes, OpType, DrainInv
<1>5. CASE Killed
  BY <1>5, <1>1 DEF Killed, DrainInv
<1>6. ASSUME NEW p \in Pieces, Change(p) PROVE DrainInv'
  BY <1>6, <1>1 DEF Change, Free, DrainInv
<1>7. ASSUME NEW t \in Targets, Edit(t) PROVE DrainInv'
  <2>1. CASE op = NoOperation
    BY <1>7, <2>1 DEF Edit, DrainInv
  <2>2. CASE op # NoOperation
    BY <1>7, <2>2, EditEffect DEF Edit, HomeTypes, DrainInv
  <2>. QED BY <2>1, <2>2
<1>8. ASSUME NEW t \in Targets, Reapply(t) PROVE DrainInv'
  BY <1>8 DEF Reapply, DrainInv
<1>9. ASSUME NEW t \in Targets, BeginRequest(t) PROVE DrainInv'
  BY <1>9 DEF BeginRequest, DrainInv
<1>10. CASE FinishRequest
  BY <1>10 DEF FinishRequest, DrainInv
<1>11. CASE RecordRequest
  BY <1>11 DEF RecordRequest, DrainInv
<1>12. ASSUME NEW l \in Logs, AppendLine(l) PROVE DrainInv'
  BY <1>12 DEF AppendLine, DrainInv
<1>13. ASSUME NEW l \in Logs, Archive(l) PROVE DrainInv'
  BY <1>13 DEF Archive, DrainInv
<1>14. CASE NextDay
  BY <1>14 DEF NextDay, DrainInv
<1>15. CASE ScanFiles
  BY <1>15 DEF ScanFiles, DrainInv
<1>16. CASE ImportScan
  BY <1>16 DEF ImportScan, DrainInv
<1>17. CASE ClearUsage
  BY <1>17 DEF ClearUsage, DrainInv
<1>18. ASSUME NEW days \in {1, Forever}, SetRetention(days) PROVE DrainInv'
  BY <1>18 DEF SetRetention, DrainInv
<1>19. ASSUME NEW prices \in FetchedCatalogs, ReplaceCatalog(prices) PROVE DrainInv'
  BY <1>19 DEF ReplaceCatalog, DrainInv
<1>20. CASE BeginBackup
  BY <1>20, <1>1 DEF BeginBackup, Started, DrainInv
<1>21. CASE CopyDatabase
  <2>1. op' \in Operations /\ op'.stage = "install"
    BY <1>21, CopyEffect DEF HomeTypes, DbType, FileType
  <2>. QED BY <1>1, <2>1 DEF DrainInv
<1>22. CASE InstallBackup
  BY <1>22, <1>1, InstallHolds DEF DrainInv
<1>23. CASE RefuseRestore
  BY <1>23 DEF RefuseRestore, DrainInv
<1>24. CASE BeginRestore
  <2>1. op'.stage = "copy"
    BY <1>24 DEF BeginRestore, Started
  <2>. QED BY <1>1, <2>1 DEF DrainInv
<1>25. CASE ShutdownModels
  BY <1>25, <1>1, ShutdownEffect DEF Proceeds, TurnsBack, GivenUp, DrainInv
<1>26. CASE ReservePorts
  BY <1>26, <1>1, ReserveEffect
     DEF ReservePorts, Proceeds, TurnsBack, Failed, GivenUp, DrainInv
<1>27. CASE RestoreDatabase
  BY <1>27, <1>1, DatabaseEffect
     DEF RestoreDatabase, Proceeds, TurnsBack, Failed, GivenUp, DrainInv
<1>28. CASE ApplyFile
  BY <1>28, <1>1, ApplyEffect
     DEF ApplyFile, Proceeds, TurnsBack, Failed, GivenUp, DrainInv
<1>29. CASE VerifyFiles
  BY <1>29, <1>1, VerifyEffect
     DEF VerifyFiles, Proceeds, TurnsBack, Failed, GivenUp, DrainInv
<1>30. CASE ResumeTakeovers
  <2>1. op' = op \/ op'.stage = "shutdown" \/ op' = NoOperation
    BY <1>30, ResumeEffect DEF Failed, TurnsBack, GivenUp
  <2>2. op.stage = "resume"
    BY <1>30 DEF ResumeTakeovers
  <2>. QED BY <1>1, <2>1, <2>2 DEF DrainInv
<1>. QED
    BY <1>2, <1>3, <1>4, <1>5, <1>6, <1>7, <1>8, <1>9, <1>10, <1>11, <1>12, <1>13,
       <1>14, <1>15, <1>16, <1>17, <1>18, <1>19, <1>20, <1>21, <1>22, <1>23, <1>24,
       <1>25, <1>26, <1>27, <1>28, <1>29, <1>30
  DEF HomeNext, Service, Writers, Ledger, Recovery

-----------------------------------------------------------------------------
(* Records, and the requests to be recorded, name plans of their database.    *)
LEMMA PlansFromSame ==
  ASSUME PlansInv, backups' = backups, OperationGoesOn, SamePlans(db, db'),
         serving' \cup queue' \subseteq serving \cup queue,
         \A t \in running' : t \in running \/ db.rev[t] # 0
  PROVE  PlansInv'
<1>1. db \in HeldDatabases
  BY DEF HeldDatabases
<1>2. KnowsPlans(db')
  BY <1>1, SamePlansKnown DEF PlansInv
<1>3. \A d \in HeldDatabases' : KnowsPlans(d)
  BY <1>2, HeldGoesOn DEF PlansInv
<1>. QED BY <1>3 DEF PlansInv, SamePlans

(* A database the gates protect with fewer records.                           *)
LEMMA GatedPlans ==
  ASSUME NEW d, NEW e, Gated(e) = Gated(d), e.plans = d.plans, e.records \subseteq d.records
  PROVE  SamePlans(d, e)
BY DEF Gated, SamePlans

LEMMA PlansKept ==
  ASSUME HomeTypes, PlansInv, DrainInv, HomeNext
  PROVE  PlansInv'
<1>1. db \in Databases /\ Readable(db) /\ work \in Nat
  BY DEF HomeTypes, DbType, FileType
<1>2. CASE OpenDatabase
  BY <1>2, PlansFromSame DEF OpenDatabase, SamePlans, OperationGoesOn
<1>3. CASE MigrationStep
  <2>1. SamePlans(db, db')
    BY <1>3, <1>1, MigratedType, GatedPlans DEF MigrationStep
  <2>. QED BY <1>3, <2>1, PlansFromSame DEF MigrationStep, OperationGoesOn
<1>4. CASE Start
  <2> DEFINE T == db.drift \cup {t \in Targets : Drifted(t)}
  <2>1. T \in SUBSET Targets /\ db' = [db EXCEPT !.drift = T]
    BY <1>4, <1>1, RecordsOf DEF Start
  <2> HIDE DEF T
  <2>2. SamePlans(db, db')
    BY <1>1, <2>1, DriftedType DEF SamePlans
  <2>3. \A t \in running' : t \in running \/ db.rev[t] # 0
    BY <1>4 DEF Start, Servable, Managed
  <2>. QED BY <1>4, <2>2, <2>3, PlansFromSame DEF Start, OperationGoesOn
<1>5. CASE Killed
  <2>1. HeldDatabases' \subseteq HeldDatabases
    BY <1>5 DEF Killed, HeldDatabases
  <2>. QED BY <1>5, <2>1 DEF Killed, PlansInv
<1>6. ASSUME NEW p \in Pieces, Change(p) PROVE PlansInv'
  <2>2. /\ db'.rev = [db.rev EXCEPT ![p] = work + 1]
        /\ db'.plans = db.plans \cup {work + 1} /\ db'.records = db.records
    BY <1>6, <1>1 DEF Change, Databases
  <2>3. db.rev \in Files /\ work + 1 # 0
    BY <1>1, RecordsOf DEF HomeTypes, FileType
  <2>4. KnowsPlans(db)
    BY DEF PlansInv, HeldDatabases
  <2>5. KnowsPlans(db')
    BY <2>2, <2>3, <2>4 DEF KnowsPlans, Files
  <2>6. HeldDatabases' \subseteq HeldDatabases \cup {db'}
    BY <1>6, HeldGoesOn DEF Change, OperationGoesOn
  <2>7. \A t \in running' : db'.rev[t] # 0
    BY <1>6, <2>2, <2>3, Apartness DEF Change, PlansInv, Files, HomeTypes, SvcType
  <2>. QED BY <1>6, <2>2, <2>5, <2>6, <2>7 DEF Change, PlansInv
<1>7. ASSUME NEW t \in Targets, Edit(t) PROVE PlansInv'
  <2>1. OperationGoesOn
    BY <1>7, EditEffect DEF Edit, HomeTypes, OperationGoesOn
  <2>. QED BY <1>7, <2>1, PlansFromSame DEF Edit, SamePlans
<1>8. ASSUME NEW t \in Targets, Reapply(t) PROVE PlansInv'
  <2> DEFINE T == db.drift \ {t}
  <2>1. T \in SUBSET Targets /\ db' = [db EXCEPT !.drift = T]
    BY <1>8, <1>1, RecordsOf DEF Reapply
  <2> HIDE DEF T
  <2>2. SamePlans(db, db')
    BY <1>1, <2>1, DriftedType DEF SamePlans
  <2>. QED BY <1>8, <2>2, PlansFromSame DEF Reapply, OperationGoesOn
<1>9. ASSUME NEW t \in Targets, BeginRequest(t) PROVE PlansInv'
  <2>1. db' = db /\ op' = op /\ backups' = backups /\ KnowsPlans(db)
    BY <1>9 DEF BeginRequest, PlansInv, HeldDatabases
  <2>2. HeldDatabases' \subseteq HeldDatabases
    BY <2>1, HeldGoesOn DEF OperationGoesOn, HeldDatabases
  <2>3. db.rev[t] \in db.plans
    BY <1>9, <2>1, Apartness DEF BeginRequest, PlansInv, KnowsPlans
  <2>. QED BY <1>9, <2>1, <2>2, <2>3 DEF BeginRequest, PlansInv
<1>10. CASE FinishRequest
  BY <1>10, PlansFromSame DEF FinishRequest, SamePlans, OperationGoesOn
<1>11. CASE RecordRequest
  <2>1. PICK plan \in queue : queue' = queue \ {plan} /\ db' = Recorded(db, plan)
    BY <1>11 DEF RecordRequest
  <2>2. plan \in db.plans /\ plan \in 0 .. work /\ KnowsPlans(db)
    BY <2>1 DEF PlansInv, HomeTypes, QueueType, HeldDatabases
  <2>3. /\ db'.rev = db.rev /\ db'.plans = db.plans
        /\ db'.records = db.records \cup {[plan |-> plan, day |-> today]}
    BY <1>1, <2>1, <2>2, RecordedType DEF HomeTypes, Gated
  <2>4. KnowsPlans(db')
    BY <2>2, <2>3 DEF KnowsPlans
  <2>5. HeldDatabases' \subseteq HeldDatabases \cup {db'}
    BY <1>11, HeldGoesOn DEF RecordRequest, OperationGoesOn
  <2>. QED BY <1>11, <2>1, <2>3, <2>4, <2>5 DEF RecordRequest, PlansInv
<1>12. ASSUME NEW l \in Logs, AppendLine(l) PROVE PlansInv'
  BY <1>12, PlansFromSame DEF AppendLine, SamePlans, OperationGoesOn
<1>13. ASSUME NEW l \in Logs, Archive(l) PROVE PlansInv'
  BY <1>13, PlansFromSame DEF Archive, SamePlans, OperationGoesOn
<1>14. CASE NextDay
  BY <1>14, PlansFromSame DEF NextDay, SamePlans, OperationGoesOn
<1>15. CASE ScanFiles
  BY <1>15, PlansFromSame DEF ScanFiles, SamePlans, OperationGoesOn
<1>16. CASE ImportScan
  <2>1. scan \in [Logs -> [path : Paths, lines : Nat]] /\ db' = RolledUp(Imported(db))
    BY <1>16 DEF ImportScan, HomeTypes, ScanType
  <2>2. SamePlans(db, db')
    BY <1>1, <2>1, ImportedType, RolledUpType, GatedPlans
  <2>. QED BY <1>16, <2>2, PlansFromSame DEF ImportScan, OperationGoesOn
<1>17. CASE ClearUsage
  <2>1. SamePlans(db, db')
    BY <1>17, <1>1 DEF ClearUsage, SamePlans, Databases
  <2>. QED BY <1>17, <2>1, PlansFromSame DEF ClearUsage, OperationGoesOn
<1>18. ASSUME NEW days \in {1, Forever}, SetRetention(days) PROVE PlansInv'
  <2> DEFINE e == [db EXCEPT !.ledger.retention = days]
  <2>1. e \in Databases /\ SamePlans(db, e)
    <3>1. e \in Databases
      BY <1>1, RetentionType
    <3>2. e.rev = db.rev /\ e.plans = db.plans /\ e.records = db.records
      BY <1>1 DEF Databases
    <3>. QED BY <3>1, <3>2 DEF SamePlans
  <2>2. db' = RolledUp(e)
    BY <1>18 DEF SetRetention
  <2> HIDE DEF e
  <2>3. SamePlans(e, db')
    BY <2>1, <2>2, RolledUpType, GatedPlans
  <2>4. SamePlans(db, db')
    BY <2>1, <2>3 DEF SamePlans
  <2>. QED BY <1>18, <2>4, PlansFromSame DEF SetRetention, OperationGoesOn
<1>19. ASSUME NEW prices \in FetchedCatalogs, ReplaceCatalog(prices) PROVE PlansInv'
  <2>1. SamePlans(db, db')
    BY <1>19, <1>1 DEF ReplaceCatalog, SamePlans, Databases
  <2>. QED BY <1>19, <2>1, PlansFromSame DEF ReplaceCatalog, OperationGoesOn
<1>20. CASE BeginBackup
  BY <1>20, BackupHolds DEF BeginBackup, PlansInv
<1>21. CASE CopyDatabase
  BY <1>21, CopyHolds DEF CopyDatabase, PlansInv
<1>22. CASE InstallBackup
  BY <1>22, InstallHolds DEF InstallBackup, PlansInv
<1>23. CASE RefuseRestore
  BY <1>23, PlansFromSame DEF RefuseRestore, SamePlans, OperationGoesOn
<1>24. CASE BeginRestore
  <2>1. PICK a \in backups :
          /\ a \in Artifacts /\ a.db.schema <= SchemaVersion
          /\ HeldDatabases' \subseteq HeldDatabases \cup {Upgraded(a.db)}
    BY <1>24, RestoreHolds
  <2>2. SamePlans(a.db, Upgraded(a.db))
    BY <2>1, UpgradedType, GatedPlans DEF Artifacts
  <2>3. KnowsPlans(Upgraded(a.db))
    BY <2>2, SamePlansKnown DEF PlansInv, HeldDatabases
  <2>. QED BY <1>24, <2>1, <2>3 DEF BeginRestore, PlansInv
<1>25. CASE ShutdownModels
  <2>1. ~RestoreDatabase
    BY <1>25 DEF ShutdownModels, RestoreDatabase
  <2>. QED
      BY <1>25, <2>1, RestoreStepsEffect, ShutdownEffect, PlansFromSame DEF RestoreSteps
<1>26. CASE ReservePorts
  <2>1. ~RestoreDatabase
    BY <1>26, Apartness DEF ReservePorts, RestoreDatabase, Stages
  <2>. QED
      BY <1>26, <2>1, RestoreStepsEffect, PlansFromSame DEF RestoreSteps, ReservePorts
<1>27. CASE RestoreDatabase
  <2>1. running' = {} /\ serving' \cup queue' = {}
    BY <1>27 DEF RestoreDatabase, DrainInv, Emptied
  <2>2. PICK d \in HeldDatabases : SamePlans(d, db')
    BY <1>27, RestoreStepsEffect DEF RestoreSteps
  <2>3. KnowsPlans(db')
    BY <2>2, SamePlansKnown DEF PlansInv
  <2>4. HeldDatabases' \subseteq HeldDatabases \cup {db'}
    BY <1>27, RestoreStepsEffect, HeldGoesOn DEF RestoreSteps
  <2>. QED BY <2>1, <2>3, <2>4 DEF PlansInv
<1>28. CASE ApplyFile
  <2>1. ~RestoreDatabase
    BY <1>28, Apartness DEF ApplyFile, RestoreDatabase, Stages
  <2>. QED BY <1>28, <2>1, RestoreStepsEffect, PlansFromSame DEF RestoreSteps, ApplyFile
<1>29. CASE VerifyFiles
  <2>1. ~RestoreDatabase
    BY <1>29, Apartness DEF VerifyFiles, RestoreDatabase, Stages
  <2>. QED
      BY <1>29, <2>1, RestoreStepsEffect, PlansFromSame DEF RestoreSteps, VerifyFiles
<1>30. CASE ResumeTakeovers
  <2>1. ~RestoreDatabase
    BY <1>30 DEF ResumeTakeovers, RestoreDatabase
  <2>2. \A t \in running' : t \in running \/ db.rev[t] # 0
    BY <1>30, ResumeEffect DEF ResumeTakeovers
  <2>. QED
      BY <1>30, <2>1, <2>2, RestoreStepsEffect, PlansFromSame
         DEF RestoreSteps, ResumeTakeovers
<1>. QED
    BY <1>2, <1>3, <1>4, <1>5, <1>6, <1>7, <1>8, <1>9, <1>10, <1>11, <1>12, <1>13,
       <1>14, <1>15, <1>16, <1>17, <1>18, <1>19, <1>20, <1>21, <1>22, <1>23, <1>24,
       <1>25, <1>26, <1>27, <1>28, <1>29, <1>30
  DEF HomeNext, Service, Writers, Ledger, Recovery

-----------------------------------------------------------------------------
(* Lines are counted as often as cursors are past them.                      *)
LEMMA HeldTypes ==
  ASSUME HomeTypes
  PROVE  HeldDatabases \subseteq Databases
<1>1. db \in Databases /\ \A a \in backups : a.db \in Databases
  BY DEF HomeTypes, DbType, BackupsType, Artifacts
<1>2. ASSUME op # NoOperation, NEW d \in HeldBy(op) PROVE d \in Databases
  <2>1. op \in Operations
    BY <1>2 DEF HomeTypes, OpType
  <2>2. PICK a \in {op.copy, op.wanted, op.before} \ {<<>>} : d = a.db
    BY <1>2 DEF HeldBy
  <2>3. a \in Copies \cup Artifacts
    BY <2>1, <2>2 DEF Operations
  <2>. QED BY <2>2, <2>3 DEF Copies, Artifacts
<1>. QED BY <1>1, <1>2 DEF HeldDatabases

LEMMA ReadTypes ==
  ASSUME LogsType, ScanType
  PROVE  /\ \A l \in Logs : /\ Len(logs[l].days) \in Nat /\ logs[l].path \in Paths
                            /\ ReadOf(l) \in Nat
         /\ (scan # NoScan => scan \in [Logs -> [path : Paths, lines : Nat]])
         /\ (scan \in [Logs -> [path : Paths, lines : Nat]] => scan # NoScan)
<1>1. scan \in [Logs -> [path : Paths, lines : Nat]] => scan # NoScan
  <2>1. DOMAIN NoScan = {"stage"}
    BY DEF NoScan
  <2>. QED BY <2>1, PiecesAssumption
<1>. QED BY <1>1 DEF LogsType, ScanType, ReadOf

(* A ledger nothing was written to.                                          *)
LEMMA EmptyCounted ==
  ASSUME LogsType, ScanType
  PROVE  Counted(EmptyLedger) /\ Behind(EmptyLedger)
<1>1. \A l \in Logs : ReadOf(l) \in Nat
  BY ReadTypes
<1>2. Behind(EmptyLedger)
  BY <1>1 DEF Behind, EmptyLedger, Paths
<1>3. ASSUME NEW line \in Lines
      PROVE  CountIn(EmptyLedger, line) = 0 /\ Passes(EmptyLedger, line) = 0
  <2>1. line[1] \in Logs /\ line[2] \in Nat /\ line[2] >= 1
    BY LimitsAssumption DEF Lines
  <2>. QED BY <2>1 DEF CountIn, Passes, Past, EmptyLedger, Paths
<1>4. EmptyLedger.priced \subseteq EmptyLedger.detail
  BY DEF EmptyLedger
<1>. QED BY <1>2, <1>3, <1>4 DEF Counted

(* Logs only grow, and they are read only farther.                           *)
LogsGoOn ==
  \A l \in Logs : /\ ReadOf(l) <= ReadOf(l)'
                  /\ (logs'[l].path = "sessions" => logs[l].path = "sessions")

LEMMA BehindGrows ==
  ASSUME LogsType, ScanType, LogsType', ScanType', LogsGoOn,
         NEW ledger \in Ledgers, Behind(ledger)
  PROVE  Behind(ledger)'
<1>1. \A l \in Logs : ReadOf(l) \in Nat /\ ReadOf(l)' \in Nat
  BY DEF LogsType, ScanType, ReadOf
<1>2. \A l \in Logs, p \in Paths : ledger.cursor[l][p] \in Nat
  BY DEF Ledgers
<1>. QED BY <1>1, <1>2 DEF Behind, LogsGoOn

LEMMA LedgersGoOn ==
  ASSUME HomeTypes, HomeTypes', LedgerInv, LogsGoOn,
         \A d \in HeldDatabases' :
           d \in HeldDatabases \/ (Counted(d.ledger) /\ Behind(d.ledger)')
  PROVE  \A d \in HeldDatabases' : Counted(d.ledger) /\ Behind(d.ledger)'
<1> SUFFICES ASSUME NEW d \in HeldDatabases', d \in HeldDatabases
             PROVE  Counted(d.ledger) /\ Behind(d.ledger)'
  OBVIOUS
<1>1. Counted(d.ledger) /\ Behind(d.ledger) /\ d.ledger \in Ledgers
  BY HeldTypes, RecordsOf DEF LedgerInv
<1>2. Behind(d.ledger)'
  BY <1>1, BehindGrows DEF HomeTypes
<1>. QED BY <1>1, <1>2

(* A step that reads and writes no log.                                      *)
LEMMA LedgersKept ==
  ASSUME HomeTypes, LedgerInv, logs' = logs, scan' = scan,
         \A d \in HeldDatabases' :
           d \in HeldDatabases \/ (Counted(d.ledger) /\ Behind(d.ledger))
  PROVE  LedgerInv'
<1>1. \A ledger : Behind(ledger)' = Behind(ledger)
  BY DEF Behind, ReadOf
<1>2. \A d \in HeldDatabases' : Counted(d.ledger) /\ Behind(d.ledger)
  BY DEF LedgerInv
<1>. QED BY <1>1, <1>2 DEF LedgerInv, ScanInv

(* And writes at most the home's own database.                               *)
LEMMA LedgersFromOwn ==
  ASSUME HomeTypes, LedgerInv, logs' = logs, scan' = scan, backups' = backups,
         OperationGoesOn, Counted(db'.ledger) /\ Behind(db'.ledger)
  PROVE  LedgerInv'
<1>1. HeldDatabases' \subseteq HeldDatabases \cup {db'}
  BY HeldGoesOn
<1>. QED BY <1>1, LedgersKept

LEMMA OwnLedger ==
  ASSUME LedgerInv
  PROVE  Counted(db.ledger) /\ Behind(db.ledger)
BY DEF LedgerInv, HeldDatabases

(* Retention moves details into rollups and counts no line again.            *)
LEMMA RolledUpCounts ==
  ASSUME NEW d \in Databases, Counted(d.ledger)
  PROVE  Counted(RolledUp(d).ledger)
<1>1. /\ RolledUp(d).ledger.cursor = d.ledger.cursor
      /\ RolledUp(d).ledger.priced \subseteq RolledUp(d).ledger.detail
      /\ \A line \in Lines : CountIn(RolledUp(d).ledger, line) = CountIn(d.ledger, line)
  BY RolledUpType DEF Counted
<1>2. \A line \in Lines : Passes(RolledUp(d).ledger, line) = Passes(d.ledger, line)
  BY <1>1 DEF Passes, Past
<1>. QED BY <1>1, <1>2 DEF Counted

LEMMA RolledUpBehind ==
  ASSUME NEW d \in Databases, Behind(d.ledger)
  PROVE  Behind(RolledUp(d).ledger)
BY RolledUpType DEF Behind

(* An import counts the lines its cursor passes, and no other.               *)
LEMMA ImportCounts ==
  ASSUME LogsType, ScanType, scan # NoScan, NEW d \in Databases,
         Counted(d.ledger), Behind(d.ledger)
  PROVE  Counted(Imported(d).ledger)
<1>1. scan \in [Logs -> [path : Paths, lines : Nat]]
  BY ReadTypes
<1> DEFINE old == d.ledger
           new == Imported(d).ledger
<1>2. /\ new.detail = old.detail \cup NewLines(d) /\ new.rolled = old.rolled
      /\ new.priced \subseteq new.detail
      /\ \A l \in Logs, p \in Paths :
           new.cursor[l][p] = IF p = scan[l].path THEN scan[l].lines ELSE old.cursor[l][p]
  BY <1>1, ImportedType DEF Counted
<1>3. /\ old.detail \subseteq Lines /\ old.rolled \in [Lines -> Nat]
      /\ old.cursor \in [Logs -> [Paths -> Nat]]
  BY RecordsOf
<1>4. \A l \in Logs, p \in Paths : old.cursor[l][p] <= scan[l].lines
  BY DEF Behind, ReadOf
<1>5. \A line \in Lines :
        line \in NewLines(d) <=> line[2] \in old.cursor[line[1]][scan[line[1]].path] + 1
                                              .. scan[line[1]].lines
  BY DEF NewLines
<1> HIDE DEF old, new
<1>6. ASSUME NEW line \in Lines
      PROVE  /\ CountIn(new, line) <= Passes(new, line)
             /\ (Passes(new, line) >= 1 => CountIn(new, line) >= 1)
  <2> DEFINE l == line[1]
             n == line[2]
             read == scan[line[1]].path
             lines == scan[line[1]].lines
             from == old.cursor[line[1]][scan[line[1]].path]
  <2>1. l \in Logs /\ n \in Nat /\ read \in {"sessions", "archived"} /\ lines \in Nat
        /\ from \in Nat
    BY <1>1, <1>3, LimitsAssumption DEF Lines, Paths
  <2>2. /\ CountIn(old, line) <= Passes(old, line)
        /\ (Passes(old, line) >= 1 => CountIn(old, line) >= 1)
    BY DEF Counted, old
  <2>3. CASE n > from /\ n <= lines
    <3>1. line \in NewLines(d)
      BY <1>5, <2>1, <2>3
    <3>2. ~Past(old, line, read) /\ Past(new, line, read)
          /\ \A p \in Paths \ {read} : Past(new, line, p) = Past(old, line, p)
      BY <1>2, <2>1, <2>3 DEF Past, Paths
    <3>3. Passes(new, line) = Passes(old, line) + 1
      BY <2>1, <3>2 DEF Passes, Paths
    <3>4. CountIn(new, line) <= CountIn(old, line) + 1 /\ CountIn(new, line) >= 1
          /\ CountIn(new, line) \in Nat /\ CountIn(old, line) \in Nat
      BY <1>2, <1>3, <3>1 DEF CountIn
    <3>5. Passes(old, line) \in Nat
      BY DEF Passes
    <3>. QED BY <2>2, <3>3, <3>4, <3>5
  <2>4. CASE ~(n > from /\ n <= lines)
    <3>1. line \notin NewLines(d)
      BY <1>5, <2>1, <2>4
    <3>2. \A p \in Paths : Past(new, line, p) = Past(old, line, p)
      BY <1>2, <1>4, <2>1, <2>4, <1>3 DEF Past, Paths
    <3>3. Passes(new, line) = Passes(old, line)
      BY <3>2 DEF Passes, Paths
    <3>4. CountIn(new, line) = CountIn(old, line)
      BY <1>2, <3>1 DEF CountIn
    <3>. QED BY <2>2, <3>3, <3>4
  <2>. QED BY <2>3, <2>4
<1>. QED BY <1>2, <1>6 DEF Counted, new

(* What is counted does not depend on retention, prices or the catalog.       *)
LEMMA SameCounts ==
  ASSUME NEW ledger, NEW l, Counted(ledger), Behind(ledger),
         l.detail = ledger.detail, l.rolled = ledger.rolled, l.cursor = ledger.cursor,
         l.priced \subseteq l.detail
  PROVE  Counted(l) /\ Behind(l)
<1>1. \A line \in Lines :
        CountIn(l, line) = CountIn(ledger, line) /\ Passes(l, line) = Passes(ledger, line)
  BY DEF CountIn, Passes, Past
<1>. QED BY <1>1 DEF Counted, Behind

LEMMA LedgersStayCounted ==
  ASSUME HomeTypes, HomeTypes', LedgerInv, HomeNext
  PROVE  LedgerInv'
<1>1. db \in Databases /\ Readable(db)
  BY DEF HomeTypes, DbType
<1>2. Counted(db.ledger) /\ Behind(db.ledger)
  BY OwnLedger
<1>3. Counted(EmptyLedger) /\ Behind(EmptyLedger)
  BY EmptyCounted DEF HomeTypes
<1>4. \A l \in Logs : Len(logs[l].days) \in Nat /\ ReadOf(l) \in Nat
  BY ReadTypes DEF HomeTypes
<1>5. db' = db /\ op' = op /\ backups' = backups => HeldDatabases' \subseteq HeldDatabases
  BY HeldGoesOn DEF OperationGoesOn, HeldDatabases
<1>6. CASE OpenDatabase
  BY <1>6, <1>2, LedgersFromOwn DEF OpenDatabase, OperationGoesOn
<1>7. CASE MigrationStep
  <2>1. db'.ledger \in {db.ledger, EmptyLedger}
    BY <1>7, <1>1, MigratedType DEF MigrationStep
  <2>. QED BY <1>7, <1>2, <1>3, <2>1, LedgersFromOwn DEF MigrationStep, OperationGoesOn
<1>8. CASE Start
  <2>1. db'.ledger = db.ledger
    BY <1>8, <1>1 DEF Start, Databases
  <2>. QED BY <1>8, <1>2, <2>1, LedgersFromOwn DEF Start, OperationGoesOn
<1>9. CASE Killed
  <2>1. HeldDatabases' \subseteq HeldDatabases
    BY <1>9 DEF Killed, HeldDatabases
  <2>2. logs' = logs /\ scan' = NoScan
    BY <1>9 DEF Killed
  <2>3. \A l \in Logs : ReadOf(l)' = Len(logs[l].days)
    BY <2>2 DEF ReadOf
  <2>4. LogsGoOn
    BY <1>4, <2>2, <2>3 DEF LogsGoOn, LedgerInv, ScanInv, ReadOf
  <2>. QED BY <2>1, <2>2, <2>4, LedgersGoOn DEF LedgerInv, ScanInv
<1>10. ASSUME NEW p \in Pieces, Change(p) PROVE LedgerInv'
  <2>1. db'.ledger = db.ledger
    BY <1>10, <1>1 DEF Change, Databases
  <2>. QED BY <1>10, <1>2, <2>1, LedgersFromOwn DEF Change, OperationGoesOn
<1>11. ASSUME NEW t \in Targets, Edit(t) PROVE LedgerInv'
  <2>1. OperationGoesOn
    BY <1>11, EditEffect DEF Edit, HomeTypes, OperationGoesOn
  <2>. QED BY <1>11, <1>2, <2>1, LedgersFromOwn DEF Edit
<1>12. ASSUME NEW t \in Targets, Reapply(t) PROVE LedgerInv'
  <2>1. db'.ledger = db.ledger
    BY <1>12, <1>1 DEF Reapply, Databases
  <2>. QED BY <1>12, <1>2, <2>1, LedgersFromOwn DEF Reapply, OperationGoesOn
<1>13. ASSUME NEW t \in Targets, BeginRequest(t) PROVE LedgerInv'
  BY <1>13, <1>2, LedgersFromOwn DEF BeginRequest, OperationGoesOn
<1>14. CASE FinishRequest
  BY <1>14, <1>2, LedgersFromOwn DEF FinishRequest, OperationGoesOn
<1>15. CASE RecordRequest
  <2>1. db'.ledger = db.ledger
    BY <1>15, <1>1 DEF RecordRequest, Recorded, Databases
  <2>. QED BY <1>15, <1>2, <2>1, LedgersFromOwn DEF RecordRequest, OperationGoesOn
<1>16. ASSUME NEW l \in Logs, AppendLine(l) PROVE LedgerInv'
  <2>1. HeldDatabases' \subseteq HeldDatabases /\ scan' = scan
    BY <1>16, <1>5 DEF AppendLine
  <2>2. \A i \in Logs : /\ logs'[i].path = logs[i].path
                        /\ Len(logs[i].days) <= Len(logs'[i].days)
                        /\ Len(logs'[i].days) \in Nat
    <3>1. logs \in [Logs -> [path : Paths, days : Seq(0 .. MaxDay)]] /\ today \in 0 .. MaxDay
      BY DEF HomeTypes, LogsType, DayType
    <3>2. logs[l].days \in Seq(0 .. MaxDay)
      BY <3>1
    <3>3. /\ Len(Append(logs[l].days, today)) = Len(logs[l].days) + 1
          /\ Len(logs[l].days) \in Nat
      BY <3>1, <3>2
    <3>4. logs'[l].path = logs[l].path /\ logs'[l].days = Append(logs[l].days, today)
      BY <1>16, <3>1 DEF AppendLine
    <3>5. \A i \in Logs \ {l} : logs'[i] = logs[i]
      BY <1>16, <3>1 DEF AppendLine
    <3>6. \A i \in Logs : Len(logs[i].days) \in Nat
      BY <1>4
    <3>. QED BY <3>3, <3>4, <3>5, <3>6
  <2>3. LogsGoOn
    BY <1>4, <2>1, <2>2 DEF LogsGoOn, ReadOf
  <2>4. scan # NoScan => \A i \in Logs : scan[i].lines \in Nat
    BY ReadTypes DEF HomeTypes
  <2>5. ScanInv'
    BY <1>4, <2>1, <2>2, <2>4 DEF LedgerInv, ScanInv
  <2>. QED BY <2>1, <2>3, <2>5, LedgersGoOn DEF LedgerInv, ScanInv
<1>17. ASSUME NEW l \in Logs, Archive(l) PROVE LedgerInv'
  <2>1. HeldDatabases' \subseteq HeldDatabases /\ scan' = scan
    BY <1>17, <1>5 DEF Archive
  <2>2. \A i \in Logs : /\ logs'[i].path \in {logs[i].path, "archived"}
                        /\ logs'[i].days = logs[i].days
    BY <1>17 DEF Archive, HomeTypes, LogsType
  <2>3. LogsGoOn
    BY <1>4, <2>1, <2>2 DEF LogsGoOn, ReadOf
  <2>4. ScanInv'
    BY <2>1, <2>2 DEF LedgerInv, ScanInv
  <2>. QED BY <2>1, <2>3, <2>4, LedgersGoOn DEF LedgerInv, ScanInv
<1>18. CASE NextDay
  BY <1>18, <1>2, LedgersFromOwn DEF NextDay, OperationGoesOn
<1>19. CASE ScanFiles
  <2>1. HeldDatabases' \subseteq HeldDatabases /\ logs' = logs /\ scan = NoScan
    BY <1>19, <1>5 DEF ScanFiles
  <2>2. \A l \in Logs : scan'[l].lines = Len(logs[l].days) /\ scan'[l].path = logs[l].path
    BY <1>19 DEF ScanFiles, Parsed
  <2>3. LogsGoOn
    BY <1>4, <2>1, <2>2 DEF LogsGoOn, ReadOf
  <2>4. ScanInv'
    BY <1>4, <2>1, <2>2 DEF LedgerInv, ScanInv
  <2>. QED BY <2>1, <2>3, <2>4, LedgersGoOn DEF LedgerInv, ScanInv
<1>20. CASE ImportScan
  <2> DEFINE e == Imported(db)
  <2>1. /\ HeldDatabases' \subseteq HeldDatabases \cup {db'}
        /\ logs' = logs /\ scan' = NoScan /\ scan # NoScan /\ db' = RolledUp(e)
    BY <1>20, HeldGoesOn DEF ImportScan, OperationGoesOn
  <2>2. scan \in [Logs -> [path : Paths, lines : Nat]]
    BY <2>1, ReadTypes DEF HomeTypes
  <2>3. LogsGoOn
    BY <1>4, <2>1 DEF LogsGoOn, ReadOf, LedgerInv, ScanInv
  <2>4. e \in Databases /\ Counted(e.ledger)
    BY <1>1, <1>2, <2>1, <2>2, ImportedType, ImportCounts DEF HomeTypes
  <2>5. \A l \in Logs, p \in Paths : e.ledger.cursor[l][p] =
          IF p = scan[l].path THEN scan[l].lines ELSE db.ledger.cursor[l][p]
    BY <1>1, <2>2, ImportedType
  <2> HIDE DEF e
  <2>6. Counted(db'.ledger) /\ db'.ledger.cursor = e.ledger.cursor
    BY <2>1, <2>4, RolledUpCounts, RolledUpType
  <2>7. \A l \in Logs : /\ scan[l].lines <= Len(logs[l].days) /\ scan[l].lines \in Nat
                        /\ \A p \in Paths : db.ledger.cursor[l][p] <= scan[l].lines
                                           /\ db.ledger.cursor[l][p] \in Nat
    BY <1>1, <1>2, <2>1, <2>2, RecordsOf DEF LedgerInv, ScanInv, Behind, ReadOf
  <2>8. Behind(db.ledger)'
    <3>1. \A l \in Logs, p \in Paths : db'.ledger.cursor[l][p] <= Len(logs[l].days)
      BY <1>4, <2>5, <2>6, <2>7
    <3>2. \A l \in Logs : logs[l].path = "sessions" => db'.ledger.cursor[l]["archived"] = 0
      BY <1>2, <2>1, <2>5, <2>6 DEF LedgerInv, ScanInv, Behind, Paths
    <3>. QED BY <2>1, <3>1, <3>2 DEF Behind, ReadOf
  <2>. QED BY <2>1, <2>3, <2>6, <2>8, LedgersGoOn DEF LedgerInv, ScanInv
<1>21. CASE ClearUsage
  <2> DEFINE ledger == [EmptyLedger EXCEPT !.retention = db.ledger.retention,
                                          !.catalog = db.ledger.catalog]
  <2>1. db'.ledger = ledger
    BY <1>21, <1>1 DEF ClearUsage, Databases
  <2>2. /\ ledger.detail = EmptyLedger.detail /\ ledger.priced = EmptyLedger.priced
        /\ ledger.rolled = EmptyLedger.rolled /\ ledger.cursor = EmptyLedger.cursor
    BY DEF EmptyLedger
  <2> HIDE DEF ledger
  <2>3. ledger.priced \subseteq ledger.detail
    BY <1>3, <2>2 DEF Counted
  <2>4. Counted(ledger) /\ Behind(ledger)
    BY <1>3, <2>2, <2>3, SameCounts
  <2>. QED BY <1>21, <2>1, <2>4, LedgersFromOwn DEF ClearUsage, OperationGoesOn
<1>22. ASSUME NEW days \in {1, Forever}, SetRetention(days) PROVE LedgerInv'
  <2> DEFINE e == [db EXCEPT !.ledger.retention = days]
  <2>1. e \in Databases
    BY <1>22, RetentionType DEF HomeTypes, DbType
  <2>2. /\ e.ledger.detail = db.ledger.detail /\ e.ledger.priced = db.ledger.priced
        /\ e.ledger.rolled = db.ledger.rolled /\ e.ledger.cursor = db.ledger.cursor
    BY <1>1 DEF Databases, Ledgers
  <2>3. db' = RolledUp(e)
    BY <1>22 DEF SetRetention
  <2> HIDE DEF e
  <2>4. Counted(e.ledger) /\ Behind(e.ledger)
    <3>1. e.ledger.priced \subseteq e.ledger.detail
      BY <1>2, <2>2 DEF Counted
    <3>. QED BY <1>2, <2>2, <3>1, SameCounts
  <2>5. Counted(db'.ledger) /\ Behind(db'.ledger)
    BY <2>1, <2>3, <2>4, RolledUpCounts, RolledUpBehind
  <2>. QED BY <1>22, <2>5, LedgersFromOwn DEF SetRetention, OperationGoesOn
<1>23. ASSUME NEW prices \in FetchedCatalogs, ReplaceCatalog(prices) PROVE LedgerInv'
  <2>1. /\ db'.ledger.detail = db.ledger.detail /\ db'.ledger.rolled = db.ledger.rolled
        /\ db'.ledger.cursor = db.ledger.cursor
        /\ db'.ledger.priced = Backfilled(db.ledger, prices)
    BY <1>23, <1>1 DEF ReplaceCatalog, Databases, Ledgers
  <2>2. db'.ledger.priced \subseteq db'.ledger.detail
    BY <1>2, <2>1 DEF Backfilled, Counted
  <2>3. Counted(db'.ledger) /\ Behind(db'.ledger)
    BY <1>2, <2>1, <2>2, SameCounts
  <2>. QED BY <1>23, <2>3, LedgersFromOwn DEF ReplaceCatalog, OperationGoesOn
<1>24. CASE BeginBackup
  BY <1>24, BackupHolds, LedgersKept DEF BeginBackup
<1>25. CASE CopyDatabase
  BY <1>25, CopyHolds, LedgersKept DEF CopyDatabase
<1>26. CASE InstallBackup
  BY <1>26, InstallHolds, LedgersKept DEF InstallBackup
<1>27. CASE RefuseRestore
  BY <1>27, <1>2, LedgersFromOwn DEF RefuseRestore, OperationGoesOn
<1>28. CASE BeginRestore
  <2>1. PICK a \in backups :
          /\ a \in Artifacts /\ a.db.schema <= SchemaVersion
          /\ HeldDatabases' \subseteq HeldDatabases \cup {Upgraded(a.db)}
    BY <1>28, RestoreHolds
  <2>2. Upgraded(a.db).ledger \in {a.db.ledger, EmptyLedger}
    BY <2>1, UpgradedType DEF Artifacts
  <2>3. Counted(a.db.ledger) /\ Behind(a.db.ledger)
    BY DEF LedgerInv, ScanInv, HeldDatabases
  <2>4. Counted(Upgraded(a.db).ledger) /\ Behind(Upgraded(a.db).ledger)
    BY <1>3, <2>2, <2>3
  <2>. QED BY <1>28, <2>1, <2>4, LedgersKept DEF BeginRestore
<1>29. CASE ShutdownModels
  <2>1. PICK d \in HeldDatabases : db'.ledger = d.ledger
    BY <1>29, RestoreStepsEffect DEF RestoreSteps
  <2>2. Counted(db'.ledger) /\ Behind(db'.ledger)
    BY <2>1 DEF LedgerInv, ScanInv
  <2>. QED BY <1>29, <2>2, RestoreStepsEffect, LedgersFromOwn DEF RestoreSteps
<1>30. CASE ReservePorts
  <2>1. PICK d \in HeldDatabases : db'.ledger = d.ledger
    BY <1>30, RestoreStepsEffect DEF RestoreSteps
  <2>2. Counted(db'.ledger) /\ Behind(db'.ledger)
    BY <2>1 DEF LedgerInv, ScanInv
  <2>. QED BY <1>30, <2>2, RestoreStepsEffect, LedgersFromOwn DEF RestoreSteps
<1>31. CASE RestoreDatabase
  <2>1. PICK d \in HeldDatabases : db'.ledger = d.ledger
    BY <1>31, RestoreStepsEffect DEF RestoreSteps
  <2>2. Counted(db'.ledger) /\ Behind(db'.ledger)
    BY <2>1 DEF LedgerInv, ScanInv
  <2>. QED BY <1>31, <2>2, RestoreStepsEffect, LedgersFromOwn DEF RestoreSteps
<1>32. CASE ApplyFile
  <2>1. PICK d \in HeldDatabases : db'.ledger = d.ledger
    BY <1>32, RestoreStepsEffect DEF RestoreSteps
  <2>2. Counted(db'.ledger) /\ Behind(db'.ledger)
    BY <2>1 DEF LedgerInv, ScanInv
  <2>. QED BY <1>32, <2>2, RestoreStepsEffect, LedgersFromOwn DEF RestoreSteps
<1>33. CASE VerifyFiles
  <2>1. PICK d \in HeldDatabases : db'.ledger = d.ledger
    BY <1>33, RestoreStepsEffect DEF RestoreSteps
  <2>2. Counted(db'.ledger) /\ Behind(db'.ledger)
    BY <2>1 DEF LedgerInv, ScanInv
  <2>. QED BY <1>33, <2>2, RestoreStepsEffect, LedgersFromOwn DEF RestoreSteps
<1>34. CASE ResumeTakeovers
  <2>1. PICK d \in HeldDatabases : db'.ledger = d.ledger
    BY <1>34, RestoreStepsEffect DEF RestoreSteps
  <2>2. Counted(db'.ledger) /\ Behind(db'.ledger)
    BY <2>1 DEF LedgerInv, ScanInv
  <2>. QED BY <1>34, <2>2, RestoreStepsEffect, LedgersFromOwn DEF RestoreSteps
<1>. QED
    BY <1>6, <1>7, <1>8, <1>9, <1>10, <1>11, <1>12, <1>13, <1>14, <1>15, <1>16, <1>17,
       <1>18, <1>19, <1>20, <1>21, <1>22, <1>23, <1>24, <1>25, <1>26, <1>27, <1>28,
       <1>29, <1>30, <1>31, <1>32, <1>33, <1>34
  DEF HomeNext, Service, Writers, Ledger, Recovery

-----------------------------------------------------------------------------
(* A restore that took its backup takes no other.                            *)
LEMMA LaterStages ==
  ASSUME HomeTypes, RestoreSteps
  PROVE  op'.stage \notin Early
<1>1. /\ NoOperation.stage \notin Early
      /\ {"shutdown", "reserve", "database", "verify", "resume"} \cap Early = {}
      /\ Pieces \cap Early = {} /\ Accounts \in Pieces
  BY Apartness, NotIdle DEF Early, Stages
<1>2. \A stage : Proceeds(stage) \/ TurnsBack(stage) => op'.stage = stage
  BY DEF Proceeds, TurnsBack
<1>3. \A d : Failed(d) => op'.stage \notin Early
  BY <1>1, <1>2 DEF Failed, GivenUp
<1>4. CASE ShutdownModels
  BY <1>1, <1>2, <1>4, ShutdownEffect DEF GivenUp
<1>5. CASE ReservePorts
  BY <1>1, <1>2, <1>5, ReserveEffect
<1>6. CASE RestoreDatabase
  BY <1>1, <1>2, <1>3, <1>6, DatabaseEffect
<1>7. CASE ApplyFile
  BY <1>1, <1>2, <1>3, <1>7, ApplyEffect, AfterPiece
<1>8. CASE VerifyFiles
  BY <1>1, <1>2, <1>3, <1>8, VerifyEffect
<1>9. CASE ResumeTakeovers
  BY <1>1, <1>3, <1>9, ResumeEffect
<1>. QED BY <1>4, <1>5, <1>6, <1>7, <1>8, <1>9 DEF RestoreSteps

(* Versions on disk only rise under an edit.                                 *)
LEMMA EditRises ==
  ASSUME HomeTypes, NEW t \in Targets, Edit(t)
  PROVE  /\ NotAfter(file, file') /\ file' \in [Pieces -> Nat] /\ file \in [Pieces -> Nat]
         /\ \A p \in Pieces \ {t} : file'[p] = file[p]
BY Apartness, LimitsAssumption DEF Edit, Input, NotAfter, HomeTypes, FileType, Files

(* A backup is of one moment.                                                *)
LEMMA MomentKept ==
  ASSUME HomeTypes, MomentInv, HomeNext
  PROVE  MomentInv'
<1>1. NoOperation.stage \notin {"copy", "install"}
  BY NotIdle
<1>2. file \in [Pieces -> Nat]
  BY DEF HomeTypes, FileType, Files
<1>3. CASE OpenDatabase
  BY <1>3 DEF OpenDatabase, MomentInv, NotAfter
<1>4. CASE MigrationStep
  BY <1>4 DEF MigrationStep, MomentInv, NotAfter
<1>5. CASE Start
  BY <1>5 DEF Start, MomentInv, NotAfter
<1>6. CASE Killed
  BY <1>6, <1>1 DEF Killed, MomentInv
<1>7. ASSUME NEW p \in Pieces, Change(p) PROVE MomentInv'
  BY <1>7, <1>1 DEF Change, Free, MomentInv
<1>8. ASSUME NEW t \in Targets, Edit(t) PROVE MomentInv'
  <2>1. CASE op = NoOperation
    BY <1>8, <1>1, <2>1 DEF Edit, MomentInv
  <2>2. CASE op # NoOperation
    <3>1. /\ op'.stage = op.stage /\ op'.seen = op.seen /\ op'.copy = op.copy
          /\ op \in Operations /\ backups' = backups
      BY <1>8, <2>2, EditEffect DEF Edit, HomeTypes
    <3>2. /\ op.stage = "copy" => op.seen \in Files
          /\ op.stage = "install" => op.copy.live \in Files
      BY <2>2 DEF HomeTypes, OpType, Early, Copies
    <3>3. \A f \in Files : NotAfter(f, file) => NotAfter(f, file')
      BY <1>8, EditRises DEF NotAfter, Files
    <3>. QED BY <3>1, <3>2, <3>3 DEF MomentInv, NotAfter
  <2>. QED BY <2>1, <2>2
<1>9. ASSUME NEW t \in Targets, Reapply(t) PROVE MomentInv'
  BY <1>9, <1>1 DEF Reapply, Free, MomentInv
<1>10. ASSUME NEW t \in Targets, BeginRequest(t) PROVE MomentInv'
  BY <1>10 DEF BeginRequest, MomentInv, NotAfter
<1>11. CASE FinishRequest
  BY <1>11 DEF FinishRequest, MomentInv, NotAfter
<1>12. CASE RecordRequest
  BY <1>12 DEF RecordRequest, MomentInv, NotAfter
<1>13. ASSUME NEW l \in Logs, AppendLine(l) PROVE MomentInv'
  BY <1>13 DEF AppendLine, MomentInv, NotAfter
<1>14. ASSUME NEW l \in Logs, Archive(l) PROVE MomentInv'
  BY <1>14 DEF Archive, MomentInv, NotAfter
<1>15. CASE NextDay
  BY <1>15 DEF NextDay, MomentInv, NotAfter
<1>16. CASE ScanFiles
  BY <1>16 DEF ScanFiles, MomentInv, NotAfter
<1>17. CASE ImportScan
  BY <1>17 DEF ImportScan, MomentInv, NotAfter
<1>18. CASE ClearUsage
  BY <1>18 DEF ClearUsage, MomentInv, NotAfter
<1>19. ASSUME NEW days \in {1, Forever}, SetRetention(days) PROVE MomentInv'
  BY <1>19 DEF SetRetention, MomentInv, NotAfter
<1>20. ASSUME NEW prices \in FetchedCatalogs, ReplaceCatalog(prices) PROVE MomentInv'
  BY <1>20 DEF ReplaceCatalog, MomentInv, NotAfter
<1>21. CASE BeginBackup
  <2>1. op'.stage = "copy" /\ op'.seen = file /\ file' = file /\ backups' = backups
    BY <1>21 DEF BeginBackup, Started
  <2>. QED BY <1>2, <2>1 DEF MomentInv, NotAfter
<1>22. CASE CopyDatabase
  <2>1. /\ op.stage = "copy" /\ op'.stage = "install" /\ op'.seen = op.seen
        /\ op'.copy = [db |-> db, live |-> file]
    BY <1>22, CopyEffect DEF HomeTypes, DbType, FileType
  <2>2. op'.copy.live = file /\ file' = file /\ backups' = backups
    BY <1>22, <2>1 DEF CopyDatabase
  <2>. QED BY <1>2, <2>1, <2>2 DEF MomentInv, NotAfter
<1>23. CASE InstallBackup
  <2>1. /\ op.stage = "install" /\ op.seen \in Files /\ op.copy.live \in Files
        /\ op' = NoOperation \/ op'.stage = "shutdown"
        /\ (backups' = backups \/ (Reread /\ backups' = backups \cup {Capture}))
    BY <1>23, InstallHolds DEF Copies
  <2>2. Reread => \A p \in Pieces : op.seen[p] = op.copy.live[p]
    BY <1>2, <2>1 DEF Reread, MomentInv, NotAfter, Files
  <2>3. Reread => op.seen = op.copy.live
    BY <2>1, <2>2 DEF Files
  <2>4. Reread => Capture.file = Capture.live
    BY <2>3 DEF Capture, Artifact
  <2>. QED BY <1>1, <2>1, <2>4 DEF MomentInv
<1>24. CASE RefuseRestore
  BY <1>24 DEF RefuseRestore, MomentInv, NotAfter
<1>25. CASE BeginRestore
  <2>1. op'.stage = "copy" /\ op'.seen = file /\ file' = file /\ backups' = backups
    BY <1>25 DEF BeginRestore, Started
  <2>. QED BY <1>2, <2>1 DEF MomentInv, NotAfter
<1>26. CASE ShutdownModels
  BY <1>26, <1>1, LaterStages, RestoreStepsEffect DEF RestoreSteps, MomentInv, Early
<1>27. CASE ReservePorts
  BY <1>27, <1>1, LaterStages, RestoreStepsEffect DEF RestoreSteps, MomentInv, Early
<1>28. CASE RestoreDatabase
  BY <1>28, <1>1, LaterStages, RestoreStepsEffect DEF RestoreSteps, MomentInv, Early
<1>29. CASE ApplyFile
  BY <1>29, <1>1, LaterStages, RestoreStepsEffect DEF RestoreSteps, MomentInv, Early
<1>30. CASE VerifyFiles
  BY <1>30, <1>1, LaterStages, RestoreStepsEffect DEF RestoreSteps, MomentInv, Early
<1>31. CASE ResumeTakeovers
  BY <1>31, <1>1, LaterStages, RestoreStepsEffect DEF RestoreSteps, MomentInv, Early
<1>. QED
    BY <1>3, <1>4, <1>5, <1>6, <1>7, <1>8, <1>9, <1>10, <1>11, <1>12, <1>13, <1>14,
       <1>15, <1>16, <1>17, <1>18, <1>19, <1>20, <1>21, <1>22, <1>23, <1>24, <1>25,
       <1>26, <1>27, <1>28, <1>29, <1>30, <1>31
  DEF HomeNext, Service, Writers, Ledger, Recovery

-----------------------------------------------------------------------------
(* What a restore did to the home.                                           *)

(* The pieces are put in place one after the other.                          *)
LEMMA AppliedPieces ==
  /\ AppliedAt("verify") = Pieces /\ AppliedAt("resume") = Pieces
  /\ AppliedAt(Accounts) = {}
  /\ \A k \in DOMAIN Order : \A p :
       p \in AppliedAt(Order[k]) <=>
         p = Accounts \/ \E j \in DOMAIN Order : j < k /\ p = Order[j]
<1>1. /\ \A k \in DOMAIN Order : Order[k] \in Targets
      /\ Targets \cap {"verify", "resume"} = {} /\ Accounts \notin Targets \cup {"verify", "resume"}
  BY Apartness DEF Stages, Targets
<1>2. AppliedAt("verify") = Pieces /\ AppliedAt("resume") = Pieces
  BY <1>1 DEF AppliedAt
<1>3. AppliedAt(Accounts) = {}
  BY <1>1 DEF AppliedAt
<1>4. ASSUME NEW k \in DOMAIN Order, NEW p
      PROVE  p \in AppliedAt(Order[k]) <=>
               p = Accounts \/ \E j \in DOMAIN Order : j < k /\ p = Order[j]
  <2>1. Order[k] \in Targets /\ Order[k] \notin {"verify", "resume"} /\ Order[k] # Accounts
    BY <1>1
  <2>2. \A j \in DOMAIN Order :
          (\A i \in DOMAIN Order : Order[i] = Order[k] => j < i) <=> j < k
    BY PiecesAssumption
  <2>3. AppliedAt(Order[k]) =
          {Accounts} \cup {Order[j] : j \in {j \in DOMAIN Order :
            \A i \in DOMAIN Order : Order[i] = Order[k] => j < i}}
    BY <2>1 DEF AppliedAt
  <2>. QED BY <2>2, <2>3
<1>. QED BY <1>2, <1>3, <1>4

LEMMA AppliedGrows ==
  ASSUME NEW p \in Pieces
  PROVE  AppliedAt(After(p)) \subseteq AppliedAt(p) \cup {p}
<1>1. CASE p = Accounts
  BY <1>1, AfterPiece, AppliedPieces
<1>2. ASSUME NEW k \in DOMAIN Order, p = Order[k]
      PROVE  AppliedAt(After(p)) \subseteq AppliedAt(p) \cup {p}
  <2>1. Len(Order) \in Nat /\ DOMAIN Order = 1 .. Len(Order)
    BY AfterPiece
  <2>2. CASE k = Len(Order)
    <3>1. \A q \in Pieces : q = Accounts \/ \E j \in DOMAIN Order : q = Order[j]
      BY DEF Pieces, Targets
    <3>2. After(p) = "verify"
      BY <1>2, <2>2, AfterPiece
    <3>. QED BY <1>2, <2>1, <2>2, <3>1, <3>2, AppliedPieces
  <2>3. CASE k # Len(Order)
    <3>1. After(p) = Order[k + 1] /\ k + 1 \in DOMAIN Order
      BY <1>2, <2>1, <2>3, AfterPiece
    <3>2. \A j \in DOMAIN Order : j < k + 1 => j < k \/ j = k
      BY <2>1
    <3>. QED BY <1>2, <3>1, <3>2, AppliedPieces
  <2>. QED BY <2>2, <2>3
<1>. QED BY <1>1, <1>2 DEF Pieces, Targets

(* A step that leaves the operation and the gated home.                       *)
LEMMA RestoreUntouched ==
  ASSUME RestoreInv, op' = op, file' = file, Gated(db)' = Gated(db)
  PROVE  RestoreInv'
BY DEF RestoreInv, Wanted, Applied, Excused, Blame

LEMMA NoRestore ==
  ASSUME op' = NoOperation
  PROVE  RestoreInv'
<1>1. /\ op'.stage = "idle" /\ "idle" \notin Pieces
  BY Apartness, NotIdle
<1>. QED BY <1>1 DEF RestoreInv

(* A file edited under a restore is one thing that went wrong.                *)
LEMMA EditKeepsRestore ==
  ASSUME HomeTypes, RestoreInv, NEW t \in Targets, Edit(t), op # NoOperation
  PROVE  RestoreInv'
<1>1. /\ op \in Operations /\ op' # NoOperation
      /\ op'.stage = op.stage /\ op'.way = op.way /\ op'.hurt = op.hurt + 1
      /\ op'.edited = op.edited \cup {t}
      /\ op'.copy = op.copy /\ op'.wanted = op.wanted /\ op'.before = op.before
      /\ op.hurt \in Nat /\ op.way \in {"forward", "back"} /\ db' = db
  BY EditEffect DEF Edit, HomeTypes, Operations
<1>2. \A p \in Pieces \ {t} : file'[p] = file[p]
  BY EditRises
<1>3. Wanted' = Wanted /\ Applied' = Applied /\ Unservable(op.wanted)' = Unservable(op.wanted)
  BY <1>1 DEF Wanted, Applied, Unservable
<1>4. Blame' = Blame + 1 /\ Blame \in Nat
  BY <1>1, <1>3 DEF Blame
<1>5. op'.stage \notin Early \cup {"idle"} /\ op'.way = "back" => Blame >= 1
  BY <1>1 DEF RestoreInv
<1>6. op'.stage \in Pieces \cup {"verify", "resume"} => Excused'
  <2>1. op'.stage \in Pieces \cup {"verify", "resume"} => op'.stage \notin Early \cup {"idle"}
    BY Apartness DEF Stages, Early
  <2>. QED BY <1>1, <1>4, <1>5, <2>1 DEF Excused
<1>7. Gated(db)' = Gated(db) /\ Gated(Wanted.db)' = Gated(Wanted.db)
      /\ Gated(op.copy.db)' = Gated(op.copy.db) /\ Gated(op.before.db)' = Gated(op.before.db)
  BY <1>1, <1>3 DEF Gated
<1>. QED BY <1>1, <1>2, <1>3, <1>4, <1>5, <1>6, <1>7 DEF RestoreInv

(* Why a step of a restore fails: on the way forward something went wrong,    *)
(* on the way back something else has.                                       *)
Unservables(a) == IF Unservable(a) THEN 1 ELSE 0
Cause ==
  IF op.way = "forward" THEN Troubles + Unservables(op.wanted) >= 1
  ELSE Troubles + (Unservables(op.wanted) + Unservables(op.before)) >= 2

LEMMA UnderRestore ==
  ASSUME HomeTypes, op.stage \in Stages \cup Pieces, op.stage \notin Early
  PROVE  /\ op \in Operations /\ op.hurt \in Nat /\ op.way \in {"forward", "back"}
         /\ op.stage \notin Early \cup {"idle"} /\ faults \in Nat
         /\ \A a : Unservables(a) \in {0, 1} /\ (Unservable(a) => Unservables(a) = 1)
BY UnderWay, Apartness, LimitsAssumption DEF HomeTypes, DayType, Stages, Unservables

LEMMA CauseOfFault ==
  ASSUME HomeTypes, RestoreInv, op.stage \in Stages \cup Pieces, op.stage \notin Early,
         faults' = faults + 1
  PROVE  Cause
<1>1. /\ op.hurt \in Nat /\ op.way \in {"forward", "back"} /\ faults \in Nat
      /\ op.stage \notin Early \cup {"idle"}
      /\ Unservables(op.wanted) \in {0, 1} /\ Unservables(op.before) \in {0, 1}
  BY UnderRestore
<1>2. Troubles = op.hurt + 1
  BY <1>1 DEF Troubles
<1>3. op.way = "back" => op.hurt + Unservables(op.wanted) >= 1
  BY <1>1 DEF RestoreInv, Blame, Unservables
<1>. QED BY <1>1, <1>2, <1>3 DEF Cause

(* A file is not what it was made: it was edited since.                       *)
LEMMA CauseOfMismatch ==
  ASSUME HomeTypes, RestoreInv, op.stage \in {"verify", "resume"}, faults' = faults,
         NEW p \in Pieces, file[p] # Wanted.file[p]
  PROVE  Cause
<1>1. op.stage \in Stages \cup Pieces /\ op.stage \notin Early
  BY DEF Stages, Early
<1>2. /\ op.hurt \in Nat /\ op.way \in {"forward", "back"} /\ faults \in Nat
      /\ Unservables(op.wanted) \in {0, 1} /\ Unservables(op.before) \in {0, 1}
  BY <1>1, UnderRestore
<1>3. Troubles = op.hurt
  BY <1>2 DEF Troubles
<1>4. Applied = Pieces
  BY AppliedPieces DEF Applied
<1>5. Excused
  BY <1>4 DEF RestoreInv
<1>. QED BY <1>2, <1>3, <1>5 DEF Cause, Excused, Blame, Unservables

(* A takeover cannot be served: a file was edited since, or the backup held it  *)
(* so.                                                                        *)
LEMMA CauseOfUnserved ==
  ASSUME HomeTypes, RestoreInv, op.stage = "resume", faults' = faults,
         NEW t \in Targets, Managed(t), ~Servable(t)
  PROVE  Cause
<1>1. op.stage \in Stages \cup Pieces /\ op.stage \notin Early /\ t \in Pieces
  BY Apartness DEF Stages, Early
<1>2. /\ op.hurt \in Nat /\ op.way \in {"forward", "back"} /\ faults \in Nat
      /\ Unservables(op.wanted) \in {0, 1} /\ Unservables(op.before) \in {0, 1}
      /\ op.stage \notin Early \cup {"idle"}
  BY <1>1, UnderRestore
<1>3. CASE file[t] # Wanted.file[t]
  BY <1>1, <1>3, CauseOfMismatch
<1>4. CASE file[t] = Wanted.file[t]
  <2>1. Gated(Wanted.db) = Gated(db)
    BY DEF RestoreInv
  <2>2. Unservable(Wanted)
    BY <1>4, <2>1 DEF Gated, Unservable, Managed, Servable, Writable
  <2>3. Troubles = op.hurt
    BY <1>2 DEF Troubles
  <2>4. op.way = "back" => op.hurt + Unservables(op.wanted) >= 1
    BY <1>2 DEF RestoreInv, Blame, Unservables
  <2>5. Unservables(Wanted) = 1
    BY <2>2 DEF Unservables
  <2>. QED BY <1>2, <2>3, <2>4, <2>5 DEF Cause, Wanted
<1>. QED BY <1>3, <1>4

LEMMA FailedKeepsRestore ==
  ASSUME HomeTypes, op.stage \in Stages \cup Pieces, op.stage \notin Early,
         NEW d, Failed(d), Cause
  PROVE  RestoreInv'
<1>1. CASE op.way = "back" /\ GivenUp(d)
  BY <1>1, NoRestore DEF GivenUp
<1>2. CASE op.way = "forward" /\ TurnsBack("shutdown")
  <2>1. /\ op'.stage = "shutdown" /\ op'.way = "back" /\ op'.hurt = Troubles
        /\ op'.wanted = op.wanted
    BY <1>2 DEF TurnsBack, SameOperation
  <2>2. Blame' = Troubles + Unservables(op.wanted)
    BY <2>1 DEF Blame, Unservables, Unservable
  <2>3. Blame' >= 1
    BY <1>2, <2>2 DEF Cause
  <2>4. op'.stage \notin Pieces \cup {"verify", "resume", "install"}
    BY <2>1, Apartness DEF Stages
  <2>. QED BY <2>1, <2>3, <2>4 DEF RestoreInv
<1>. QED BY <1>1, <1>2 DEF Failed

(* A restore that only serves again left the home as it was.                  *)
LEMMA ServingAgain ==
  ASSUME HomeTypes, RestoreInv, op.stage \in {"shutdown", "reserve"}, op.way = "forward",
         TurnsBack("resume"), db' = db, file' = file, faults' = faults + 1
  PROVE  RestoreInv'
<1>1. op.stage \in Stages \cup Pieces /\ op.stage \notin Early
  BY DEF Stages, Early
<1>2. /\ op.hurt \in Nat /\ faults \in Nat /\ Unservables(op.wanted) \in {0, 1}
  BY <1>1, UnderRestore
<1>3. /\ op'.stage = "resume" /\ op'.way = "back" /\ op'.hurt = op.hurt + 1
      /\ op'.wanted = op.wanted /\ op'.before = op.before /\ op'.edited = op.edited
  BY <1>2 DEF TurnsBack, SameOperation, Troubles
<1>4. /\ Gated(op.before.db) = Gated(db)
      /\ \A p \in Pieces \ op.edited : file[p] = op.before.file[p]
      /\ (op.hurt >= 1 \/ file = op.before.file)
  BY DEF RestoreInv
<1>5. Wanted' = op.before /\ Gated(db)' = Gated(db)
  BY <1>3 DEF Wanted, Gated
<1>6. Blame' = op.hurt + 1 + Unservables(op.wanted)
  BY <1>3 DEF Blame, Unservables, Unservable
<1>7. Blame' >= 1 /\ (op.hurt >= 1 => Excused')
  BY <1>2, <1>3, <1>6 DEF Excused
<1>8. /\ Gated(Wanted.db)' = Gated(db)'
      /\ \A p \in Pieces : Excused' \/ file'[p] = Wanted'.file[p]
      /\ \A p \in Pieces \ op'.edited : file'[p] = Wanted'.file[p]
  BY <1>3, <1>4, <1>5, <1>7 DEF Gated
<1>9. Applied' \subseteq Pieces
  BY <1>3, AppliedPieces DEF Applied
<1>. QED BY <1>3, <1>7, <1>8, <1>9 DEF RestoreInv

(* A step forward: the same way to the same artifact.                         *)
LEMMA ProceedsSame ==
  ASSUME NEW stage, Proceeds(stage)
  PROVE  /\ op'.stage = stage /\ op'.way = op.way /\ Wanted' = Wanted
         /\ Blame' = Blame /\ Excused' = Excused /\ op'.edited = op.edited
         /\ op'.hurt = op.hurt /\ op'.before = op.before /\ op'.wanted = op.wanted
<1>1. /\ op'.stage = stage /\ op'.way = op.way /\ op'.hurt = op.hurt
      /\ op'.wanted = op.wanted /\ op'.before = op.before /\ op'.edited = op.edited
  BY DEF Proceeds, SameOperation
<1>2. Wanted' = Wanted /\ Blame' = Blame
  BY <1>1 DEF Wanted, Blame, Unservable
<1>. QED BY <1>1, <1>2 DEF Excused

LEMMA ShutdownKeepsRestore ==
  ASSUME HomeTypes, RestoreInv, ShutdownModels
  PROVE  RestoreInv'
<1>1. op.stage = "shutdown" /\ op.stage \in Stages \cup Pieces /\ op.stage \notin Early
  BY DEF ShutdownModels, Stages, Early
<1>2. file' = file /\ op.way \in {"forward", "back"}
  BY <1>1, ShutdownEffect, UnderRestore
<1>3. CASE op.way = "forward" /\ Proceeds("reserve") /\ db' = db
  <2>1. /\ op'.stage = "reserve" /\ op'.way = "forward" /\ op'.hurt = op.hurt
        /\ op'.before = op.before /\ op'.edited = op.edited
    BY <1>3, ProceedsSame
  <2>2. op'.stage \notin Pieces \cup {"verify", "resume", "install"}
    BY <2>1, Apartness DEF Stages
  <2>3. /\ Gated(op.before.db) = Gated(db)
        /\ \A p \in Pieces \ op.edited : file[p] = op.before.file[p]
        /\ (op.hurt >= 1 \/ file = op.before.file)
    BY <1>1, <1>3 DEF RestoreInv
  <2>4. Gated(op.before.db)' = Gated(op.before.db) /\ Gated(db)' = Gated(db)
    BY <1>3, <2>1 DEF Gated
  <2>. QED BY <1>2, <2>1, <2>2, <2>3, <2>4 DEF RestoreInv
<1>4. CASE op.way = "back" /\ Proceeds("database")
  <2>1. op'.stage = "database" /\ op'.way = "back" /\ Blame' = Blame
    BY <1>4, ProceedsSame
  <2>2. op'.stage \notin Pieces \cup {"verify", "resume", "install", "shutdown", "reserve"}
    BY <2>1, Apartness DEF Stages
  <2>3. Blame >= 1
    BY <1>1, <1>4 DEF RestoreInv, Early
  <2>. QED BY <2>1, <2>2, <2>3 DEF RestoreInv
<1>5. CASE op.way = "forward" /\ TurnsBack("resume") /\ db' = db /\ faults' = faults + 1
  BY <1>1, <1>2, <1>5, ServingAgain
<1>6. CASE GivenUp(db)
  BY <1>6, NoRestore DEF GivenUp
<1>. QED BY <1>2, <1>3, <1>4, <1>5, <1>6, ShutdownEffect

LEMMA ReserveKeepsRestore ==
  ASSUME HomeTypes, RestoreInv, ReservePorts
  PROVE  RestoreInv'
<1>1. op.stage = "reserve" /\ op.way = "forward" /\ file' = file
  BY NotIdle DEF ReservePorts, HomeTypes, OpType, NoOperation
<1>2. CASE Proceeds("database")
  <2>1. op'.stage = "database" /\ op'.way = "forward"
    BY <1>1, <1>2, ProceedsSame
  <2>2. op'.stage \notin Pieces \cup {"verify", "resume", "install", "shutdown", "reserve"}
    BY <2>1, Apartness DEF Stages
  <2>. QED BY <2>1, <2>2 DEF RestoreInv
<1>3. CASE TurnsBack("resume") /\ faults' = faults + 1 /\ db' = db
  BY <1>1, <1>3, ServingAgain
<1>. QED BY <1>2, <1>3, ReserveEffect

LEMMA DatabaseKeepsRestore ==
  ASSUME HomeTypes, RestoreInv, RestoreDatabase
  PROVE  RestoreInv'
<1>1. op.stage = "database" /\ op.stage \in Stages \cup Pieces /\ op.stage \notin Early
  BY DEF RestoreDatabase, Stages, Early
<1>2. CASE db' = Wanted.db /\ Proceeds(Accounts)
  <2>1. /\ op'.stage = Accounts /\ op'.way = op.way /\ Wanted' = Wanted
        /\ Blame' = Blame
    BY <1>2, ProceedsSame
  <2>2. op'.stage \notin {"verify", "resume", "install", "shutdown", "reserve"}
    BY <2>1, Apartness DEF Stages
  <2>3. Applied' = {}
    BY <2>1, AppliedPieces DEF Applied
  <2>4. op.way = "back" => Blame >= 1
    BY <1>1 DEF RestoreInv, Early
  <2>5. Gated(Wanted.db)' = Gated(db)'
    BY <1>2, <2>1 DEF Gated
  <2>. QED BY <2>1, <2>2, <2>3, <2>4, <2>5 DEF RestoreInv
<1>3. ASSUME NEW d, Failed(d), faults' = faults + 1
      PROVE  RestoreInv'
  BY <1>1, <1>3, CauseOfFault, FailedKeepsRestore
<1>. QED BY <1>2, <1>3, DatabaseEffect

LEMMA ApplyKeepsRestore ==
  ASSUME HomeTypes, RestoreInv, ApplyFile
  PROVE  RestoreInv'
<1>1. op.stage \in Pieces /\ op.stage \in Stages \cup Pieces /\ op.stage \notin Early
      /\ op.stage \notin Early \cup {"idle"}
  BY Apartness DEF ApplyFile, Stages, Early
<1>2. CASE /\ file' = [file EXCEPT ![op.stage] = Wanted.file[op.stage]]
           /\ Proceeds(After(op.stage)) /\ db' = db
  <2>1. /\ op'.stage = After(op.stage) /\ op'.way = op.way /\ Wanted' = Wanted
        /\ Blame' = Blame /\ Excused' = Excused
    BY <1>2, ProceedsSame
  <2>2. op'.stage \in Pieces \cup {"verify"}
    BY <1>1, <2>1, AfterPiece
  <2>3. op'.stage \notin {"resume", "install", "shutdown", "reserve"}
    BY <2>2, Apartness DEF Stages
  <2>4. Applied' \subseteq Applied \cup {op.stage}
    BY <1>1, <2>1, AppliedGrows DEF Applied
  <2>5. \A p \in Applied : Excused \/ file[p] = Wanted.file[p]
    BY <1>1 DEF RestoreInv
  <2>6. file \in [Pieces -> Nat]
    BY DEF HomeTypes, FileType, Files
  <2>7. \A p \in Applied' : Excused' \/ file'[p] = Wanted'.file[p]
    BY <1>1, <1>2, <2>1, <2>4, <2>5, <2>6
  <2>8. Gated(Wanted.db)' = Gated(db)'
    BY <1>1, <1>2, <2>1 DEF RestoreInv, Gated
  <2>9. op.way = "back" => Blame >= 1
    BY <1>1 DEF RestoreInv
  <2>. QED BY <2>1, <2>3, <2>7, <2>8, <2>9 DEF RestoreInv
<1>3. CASE Failed(db) /\ faults' = faults + 1
  BY <1>1, <1>3, CauseOfFault, FailedKeepsRestore
<1>. QED BY <1>2, <1>3, ApplyEffect

LEMMA VerifyKeepsRestore ==
  ASSUME HomeTypes, RestoreInv, VerifyFiles
  PROVE  RestoreInv'
<1>1. op.stage = "verify" /\ op.stage \in Stages \cup Pieces /\ op.stage \notin Early
      /\ file' = file /\ faults' = faults /\ op.stage \notin Early \cup {"idle"}
  BY DEF VerifyFiles, Stages, Early
<1>2. CASE file = Wanted.file /\ Proceeds("resume") /\ db' = db
  <2>1. /\ op'.stage = "resume" /\ op'.way = op.way /\ Wanted' = Wanted /\ Blame' = Blame
    BY <1>2, ProceedsSame
  <2>2. Gated(Wanted.db)' = Gated(db)'
    BY <1>1, <1>2, <2>1 DEF RestoreInv, Gated
  <2>3. op.way = "back" => Blame >= 1
    BY <1>1 DEF RestoreInv
  <2>. QED BY <1>1, <1>2, <2>1, <2>2, <2>3 DEF RestoreInv
<1>3. CASE file # Wanted.file /\ Failed(db)
  <2>1. PICK p \in Pieces : file[p] # Wanted.file[p]
    <3>1. file \in Files /\ Wanted \in Artifacts
      BY <1>1, WantedType DEF HomeTypes, FileType
    <3>2. file \in [Pieces -> 0 .. work] /\ Wanted.file \in [Pieces -> 0 .. work]
      BY <3>1 DEF Artifacts, Files
    <3>. QED BY <1>3, <3>2
  <2>2. Cause
    BY <1>1, <2>1, CauseOfMismatch
  <2>. QED BY <1>1, <1>3, <2>2, FailedKeepsRestore
<1>. QED BY <1>2, <1>3, VerifyEffect

LEMMA ResumeKeepsRestore ==
  ASSUME HomeTypes, RestoreInv, ResumeTakeovers
  PROVE  RestoreInv'
<1>1. op.stage = "resume" /\ op.stage \in Stages \cup Pieces /\ op.stage \notin Early
      /\ file' = file
  BY DEF ResumeTakeovers, Stages, Early
<1>2. CASE op' = NoOperation
  BY <1>2, NoRestore
<1>3. CASE op' = op /\ db' = db
  BY <1>1, <1>3, RestoreUntouched DEF Gated
<1>4. CASE Failed(db) /\ faults' = faults + 1
  BY <1>1, <1>4, CauseOfFault, FailedKeepsRestore
<1>5. CASE /\ \E t \in Targets : Managed(t) /\ ~Servable(t)
           /\ \E T \in SUBSET Targets : Failed([db EXCEPT !.drift = T])
           /\ faults' = faults
  <2>1. Cause
    BY <1>1, <1>5, CauseOfUnserved
  <2>2. PICK T \in SUBSET Targets : Failed([db EXCEPT !.drift = T])
    BY <1>5
  <2> DEFINE d == [db EXCEPT !.drift = T]
  <2>3. Failed(d)
    BY <2>2
  <2> HIDE DEF d
  <2>. QED BY <1>1, <2>1, <2>3, FailedKeepsRestore
<1>. QED BY <1>2, <1>3, <1>4, <1>5, ResumeEffect

(* The gated home is what the operation knows of it.                          *)
LEMMA RestoreKept ==
  ASSUME HomeTypes, RestoreInv, HomeNext
  PROVE  RestoreInv'
<1>1. db \in Databases
  BY DEF HomeTypes, DbType
<1>2. /\ "copy" \notin Pieces /\ "install" \notin Pieces /\ "shutdown" \notin Pieces
     /\ "copy" \in Early /\ "install" \in Early
  BY Apartness DEF Stages, Early
<1>3. CASE OpenDatabase
  BY <1>3, RestoreUntouched DEF OpenDatabase, Gated
<1>4. CASE MigrationStep
  <2>1. op' = NoOperation
    BY <1>4 DEF MigrationStep, HomeTypes, OpType
  <2>. QED BY <2>1, NoRestore
<1>5. CASE Start
  <2>1. op' = NoOperation
    BY <1>5 DEF Start, HomeTypes, OpType
  <2>. QED BY <2>1, NoRestore
<1>6. CASE Killed
  BY <1>6, NoRestore DEF Killed
<1>7. ASSUME NEW p \in Pieces, Change(p) PROVE RestoreInv'
  <2>1. op' = NoOperation
    BY <1>7 DEF Change, Free
  <2>. QED BY <2>1, NoRestore
<1>8. ASSUME NEW t \in Targets, Edit(t) PROVE RestoreInv'
  <2>1. CASE op = NoOperation
    BY <1>8, <2>1, NoRestore DEF Edit
  <2>2. CASE op # NoOperation
    BY <1>8, <2>2, EditKeepsRestore
  <2>. QED BY <2>1, <2>2
<1>9. ASSUME NEW t \in Targets, Reapply(t) PROVE RestoreInv'
  <2>1. op' = NoOperation
    BY <1>9 DEF Reapply, Free
  <2>. QED BY <2>1, NoRestore
<1>10. ASSUME NEW t \in Targets, BeginRequest(t) PROVE RestoreInv'
  BY <1>10, RestoreUntouched DEF BeginRequest, Gated
<1>11. CASE FinishRequest
  BY <1>11, RestoreUntouched DEF FinishRequest, Gated
<1>12. CASE RecordRequest
  <2>1. PICK plan \in queue : db' = Recorded(db, plan)
    BY <1>12 DEF RecordRequest
  <2>2. Gated(db') = Gated(db)
    BY <1>1, <2>1, RecordedType DEF HomeTypes, QueueType
  <2>. QED BY <1>12, <2>2, RestoreUntouched DEF RecordRequest, Gated
<1>13. ASSUME NEW l \in Logs, AppendLine(l) PROVE RestoreInv'
  BY <1>13, RestoreUntouched DEF AppendLine, Gated
<1>14. ASSUME NEW l \in Logs, Archive(l) PROVE RestoreInv'
  BY <1>14, RestoreUntouched DEF Archive, Gated
<1>15. CASE NextDay
  BY <1>15, RestoreUntouched DEF NextDay, Gated
<1>16. CASE ScanFiles
  BY <1>16, RestoreUntouched DEF ScanFiles, Gated
<1>17. CASE ImportScan
  <2>1. scan \in [Logs -> [path : Paths, lines : Nat]] /\ db' = RolledUp(Imported(db))
    BY <1>17 DEF ImportScan, HomeTypes, ScanType
  <2>2. Gated(db') = Gated(db)
    BY <1>1, <2>1, ImportedType, RolledUpType
  <2>. QED BY <1>17, <2>2, RestoreUntouched DEF ImportScan, Gated
<1>18. CASE ClearUsage
  <2>1. Gated(db') = Gated(db)
    BY <1>18, <1>1 DEF ClearUsage, Gated, Databases
  <2>. QED BY <1>18, <2>1, RestoreUntouched DEF ClearUsage, Gated
<1>19. ASSUME NEW days \in {1, Forever}, SetRetention(days) PROVE RestoreInv'
  <2> DEFINE e == [db EXCEPT !.ledger.retention = days]
  <2>1. e \in Databases
    BY <1>1, RetentionType
  <2>2. Gated(e) = Gated(db)
    BY <1>1 DEF Gated, Databases
  <2>3. db' = RolledUp(e)
    BY <1>19 DEF SetRetention
  <2> HIDE DEF e
  <2>4. Gated(db') = Gated(db)
    BY <2>1, <2>2, <2>3, RolledUpType
  <2>. QED BY <1>19, <2>4, RestoreUntouched DEF SetRetention, Gated
<1>20. ASSUME NEW prices \in FetchedCatalogs, ReplaceCatalog(prices) PROVE RestoreInv'
  <2>1. Gated(db') = Gated(db)
    BY <1>20, <1>1 DEF ReplaceCatalog, Gated, Databases
  <2>. QED BY <1>20, <2>1, RestoreUntouched DEF ReplaceCatalog, Gated
<1>21. CASE BeginBackup
  <2>1. op'.stage = "copy"
    BY <1>21 DEF BeginBackup, Started
  <2>. QED BY <1>2, <2>1 DEF RestoreInv, Early
<1>22. CASE CopyDatabase
  <2>1. op'.stage = "install" /\ op'.copy = [db |-> db, live |-> file] /\ db' = db
    BY <1>22, CopyEffect DEF CopyDatabase, HomeTypes, DbType, FileType
  <2>2. Gated(op.copy.db)' = Gated(db)'
    BY <2>1 DEF Gated
  <2>. QED BY <1>2, <2>1, <2>2 DEF RestoreInv, Early
<1>23. CASE InstallBackup
  <2>1. CASE op' = NoOperation
    BY <2>1, NoRestore
  <2>2. CASE /\ Reread /\ op'.stage = "shutdown" /\ op'.way = op.way
             /\ op'.before = Capture
    <3>1. op.way = "forward" /\ op.stage = "install" /\ file' = file /\ db' = db
      BY <1>23, InstallHolds DEF InstallBackup
    <3>2. /\ Capture.db = op.copy.db /\ Capture.file = file
      BY <2>2 DEF Capture, Artifact, Reread
    <3>3. Gated(op.copy.db) = Gated(db)
      BY <3>1 DEF RestoreInv
    <3>4. Gated(op.before.db)' = Gated(db)' /\ op'.before.file = file'
      BY <2>2, <3>1, <3>2, <3>3 DEF Gated
    <3>. QED BY <1>2, <2>2, <3>1, <3>4 DEF RestoreInv
  <2>. QED BY <1>23, <2>1, <2>2, InstallHolds
<1>24. CASE RefuseRestore
  BY <1>24, RestoreUntouched DEF RefuseRestore, Gated
<1>25. CASE BeginRestore
  <2>1. op'.stage = "copy"
    BY <1>25 DEF BeginRestore, Started
  <2>. QED BY <1>2, <2>1 DEF RestoreInv, Early
<1>26. CASE ShutdownModels
  BY <1>26, ShutdownKeepsRestore
<1>27. CASE ReservePorts
  BY <1>27, ReserveKeepsRestore
<1>28. CASE RestoreDatabase
  BY <1>28, DatabaseKeepsRestore
<1>29. CASE ApplyFile
  BY <1>29, ApplyKeepsRestore
<1>30. CASE VerifyFiles
  BY <1>30, VerifyKeepsRestore
<1>31. CASE ResumeTakeovers
  BY <1>31, ResumeKeepsRestore
<1>. QED
    BY <1>3, <1>4, <1>5, <1>6, <1>7, <1>8, <1>9, <1>10, <1>11, <1>12, <1>13, <1>14,
       <1>15, <1>16, <1>17, <1>18, <1>19, <1>20, <1>21, <1>22, <1>23, <1>24, <1>25,
       <1>26, <1>27, <1>28, <1>29, <1>30, <1>31
  DEF HomeNext, Service, Writers, Ledger, Recovery

-----------------------------------------------------------------------------
(* The invariant holds.                                                      *)
LEMMA HomeTypesKept ==
  ASSUME HomeTypes, HomeNext
  PROVE  HomeTypes'
<1>1. CASE Service
  BY <1>1, OpenDatabaseTypes, MigrationStepTypes, StartTypes, KilledTypes
  DEF Service
<1>2. CASE Writers
  BY <1>2, ChangeTypes, EditTypes, ReapplyTypes, BeginRequestTypes, FinishRequestTypes,
     RecordRequestTypes
  DEF Writers
<1>3. CASE Ledger
  BY <1>3, AppendLineTypes, ArchiveTypes, NextDayTypes, ScanFilesTypes, ImportScanTypes,
     ClearUsageTypes, SetRetentionTypes, ReplaceCatalogTypes
  DEF Ledger
<1>4. CASE Recovery
  BY <1>4, BeginBackupTypes, CopyDatabaseTypes, InstallBackupTypes, RefuseRestoreTypes,
     BeginRestoreTypes, ShutdownModelsTypes, ReservePortsTypes, RestoreDatabaseTypes,
     ApplyFileTypes, VerifyFilesTypes, ResumeTakeoversTypes
  DEF Recovery
<1>. QED BY <1>1, <1>2, <1>3, <1>4 DEF HomeNext

LEMMA HomeInitInv ==
  ASSUME HomeInit
  PROVE  HomeInv
<1>1. /\ work = 0 /\ 0 .. work = {0} /\ file = NoFiles /\ op = NoOperation /\ scan = NoScan
      /\ svc = "down" /\ running = {} /\ serving = {} /\ queue = {} /\ faults = 0
      /\ today = 0 /\ logs = [l \in Logs |-> [path |-> "sessions", days |-> <<>>]]
  BY DEF HomeInit
<1>2. NoFiles \in Files
  BY <1>1 DEF NoFiles, Files
<1>3. ASSUME NEW schema \in Nat
      PROVE  /\ NewDatabase(schema) \in Databases /\ NewDatabase(schema).schema = schema
             /\ NewDatabase(schema).ledger = EmptyLedger /\ KnowsPlans(NewDatabase(schema))
  <2>1. [p \in Pieces |-> 0] \in Files
    BY <1>1 DEF Files
  <2>2. NewDatabase(schema) \in Databases
    BY <2>1, EmptyLedgerType DEF NewDatabase, Databases
  <2>. QED BY <2>2 DEF NewDatabase, KnowsPlans
<1>4. OldSchema \in Nat /\ SchemaVersion \in Nat /\ SchemaVersion + 1 \in Nat
      /\ OldSchema <= SchemaVersion
  BY LimitsAssumption DEF SchemaVersion
<1>5. PICK schema \in {OldSchema, SchemaVersion} : db = NewDatabase(schema)
  BY DEF HomeInit
<1>6. /\ db \in Databases /\ Readable(db) /\ db.ledger = EmptyLedger /\ KnowsPlans(db)
  BY <1>3, <1>4, <1>5 DEF Readable
<1>7. ASSUME NEW a \in backups
      PROVE  /\ a \in Artifacts /\ a.file = a.live /\ a.db.ledger = EmptyLedger
             /\ KnowsPlans(a.db)
  <2>1. PICK other \in {OldSchema, SchemaVersion + 1} :
          a = Artifact(NewDatabase(other), NoFiles, NoFiles)
    BY DEF HomeInit
  <2> DEFINE d == NewDatabase(other)
  <2>2. d \in Databases /\ d.ledger = EmptyLedger /\ KnowsPlans(d)
    BY <1>3, <1>4
  <2>3. a = [db |-> d, file |-> NoFiles, live |-> NoFiles]
    BY <2>1 DEF Artifact
  <2> HIDE DEF d
  <2>. QED BY <1>2, <2>2, <2>3 DEF Artifacts
<1>8. HomeTypes
  <2>1. DbType /\ BackupsType
    BY <1>6, <1>7 DEF DbType, BackupsType
  <2>2. FileType
    BY <1>1, <1>2, LimitsAssumption DEF FileType
  <2>3. SvcType /\ QueueType /\ DayType /\ ScanType /\ OpType
    BY <1>1, LimitsAssumption DEF SvcType, QueueType, DayType, ScanType, OpType
  <2>4. LogsType
    BY <1>1, LimitsAssumption DEF LogsType, Paths
  <2>. QED BY <2>1, <2>2, <2>3, <2>4 DEF HomeTypes
<1>9. HeldDatabases = {db} \cup {a.db : a \in backups}
  BY <1>1 DEF HeldDatabases
<1>10. PlansInv
  BY <1>1, <1>6, <1>7, <1>9 DEF PlansInv
<1>11. LedgerInv
  <2>1. Counted(EmptyLedger) /\ Behind(EmptyLedger)
    BY <1>8, EmptyCounted DEF HomeTypes
  <2>. QED BY <1>1, <1>6, <1>7, <1>9, <2>1 DEF LedgerInv, ScanInv
<1>12. /\ op.stage = "idle" /\ "idle" \notin Emptied /\ "idle" \notin Pieces
  BY <1>1, Apartness DEF NoOperation, Emptied
<1>13. DrainInv /\ MomentInv /\ RestoreInv
  BY <1>7, <1>12 DEF DrainInv, MomentInv, RestoreInv
<1>. QED BY <1>8, <1>10, <1>11, <1>13 DEF HomeInv

LEMMA HomeInvKept ==
  ASSUME HomeInv, [HomeNext]_homeVars
  PROVE  HomeInv'
<1>1. CASE HomeNext
  <2>1. HomeTypes'
    BY <1>1, HomeTypesKept DEF HomeInv
  <2>2. PlansInv' /\ DrainInv' /\ MomentInv' /\ RestoreInv'
    BY <1>1, PlansKept, DrainKept, MomentKept, RestoreKept DEF HomeInv
  <2>3. LedgerInv'
    BY <1>1, <2>1, LedgersStayCounted DEF HomeInv
  <2>. QED BY <2>1, <2>2, <2>3 DEF HomeInv
<1>2. CASE UNCHANGED homeVars
  <2>1. WorkGoesOn
    BY <1>2 DEF homeVars, WorkGoesOn, HomeInv, HomeTypes, FileType
  <2>2. HomeTypes'
    BY <1>2, <2>1, TypesKept
    DEF homeVars, HomeInv, HomeTypes, SvcType, DayType, LogsType, ScanType
  <2>3. HeldDatabases' = HeldDatabases
    BY <1>2 DEF homeVars, HeldDatabases, HeldBy
  <2>4. PlansInv' /\ DrainInv' /\ MomentInv'
    BY <1>2, <2>3 DEF homeVars, HomeInv, PlansInv, DrainInv, MomentInv, NotAfter
  <2>5. LedgerInv'
    BY <1>2, <2>3, LedgersKept DEF homeVars, HomeInv
  <2>6. RestoreInv'
    BY <1>2, RestoreUntouched DEF homeVars, HomeInv, Gated
  <2>. QED BY <2>2, <2>4, <2>5, <2>6 DEF HomeInv
<1>. QED BY <1>1, <1>2

LEMMA HomeInvHolds == HomeSpec => []HomeInv
BY HomeInitInv, HomeInvKept, PTL DEF HomeSpec

(* create_locked (recovery_backup.rs): whatever the Operator, the Target CLIs  *)
(* and the recorders do meanwhile, a Recovery Backup holds the database and   *)
(* the files of one moment. The two reads of the files bound every edit, and  *)
(* a version that comes back would have had to fall.                          *)
THEOREM BackupsAreOneMoment == HomeSpec => []BackupIsOneMoment
<1>1. HomeInv => BackupIsOneMoment
  BY DEF HomeInv, MomentInv, BackupIsOneMoment
<1>. QED BY <1>1, HomeInvHolds, PTL

(* native_usage.rs and state/usage.rs: whatever is scanned, rolled up,        *)
(* cleared, migrated and restored in whichever order, every line behind an    *)
(* import cursor is counted, and at most once while its log was not archived. *)
THEOREM LinesStayCounted == HomeSpec => []LinesAreCounted
<1>1. ASSUME HomeInv, NEW line \in Lines
      PROVE  /\ (\E p \in Paths : line[2] <= db.ledger.cursor[line[1]][p]) => Count(line) >= 1
             /\ logs[line[1]].path = "sessions" => Count(line) <= 1
  <2>1. Counted(db.ledger) /\ Behind(db.ledger)
    BY <1>1, OwnLedger DEF HomeInv
  <2>2. line[1] \in Logs /\ line[2] \in Nat /\ line[2] >= 1
    BY LimitsAssumption DEF Lines
  <2>3. /\ Count(line) = CountIn(db.ledger, line) /\ Count(line) \in Nat
    BY <1>1, RecordsOf DEF Count, CountIn, HomeInv, HomeTypes, DbType
  <2>4. /\ CountIn(db.ledger, line) <= Passes(db.ledger, line)
        /\ (Passes(db.ledger, line) >= 1 => CountIn(db.ledger, line) >= 1)
    BY <2>1 DEF Counted
  <2>5. (\E p \in Paths : line[2] <= db.ledger.cursor[line[1]][p])
          => Passes(db.ledger, line) >= 1
    BY DEF Passes, Past, Paths
  <2>6. logs[line[1]].path = "sessions" => Passes(db.ledger, line) <= 1
    <3>1. logs[line[1]].path = "sessions" => ~Past(db.ledger, line, "archived")
      BY <2>1, <2>2 DEF Past, Behind
    <3>. QED BY <3>1 DEF Passes
  <2>7. Passes(db.ledger, line) \in Nat
    BY DEF Passes
  <2>. QED BY <2>3, <2>4, <2>5, <2>6, <2>7
<1>2. HomeInv => LinesAreCounted
  BY <1>1 DEF LinesAreCounted
<1>. QED BY <1>2, HomeInvHolds, PTL

(* request_records.rs with recovery_backup.rs: no completion of a request     *)
(* served before a restore is stored in the database the restore put in       *)
(* place, so every Request Record names a plan of its own database.           *)
THEOREM RecordsStayBelonging == HomeSpec => []RecordsBelong
<1>1. ASSUME HomeInv PROVE HomeTypeOK
  <2>1. /\ db \in Databases /\ Readable(db) /\ work \in 0 .. MaxWork /\ MaxWork \in Nat
        /\ MaxLines \in Nat
    BY <1>1, LimitsAssumption DEF HomeInv, HomeTypes, DbType, FileType
  <2>2. 0 .. work \subseteq Versions
    BY <2>1 DEF Versions
  <2>3. /\ db.schema \in OldSchema .. SchemaVersion /\ db.rev \in [Pieces -> Versions]
        /\ db.plans \subseteq Versions /\ db.drift \subseteq Targets
        /\ db.recovery \in BOOLEAN
        /\ db.records \subseteq [plan : Versions, day : 0 .. MaxDay]
    <3>1. [plan : 0 .. work, day : 0 .. MaxDay] \subseteq [plan : Versions, day : 0 .. MaxDay]
      BY <2>2
    <3>. QED BY <2>1, <2>2, <3>1, RecordsOf DEF Readable, Files
  <2>4. Counted(db.ledger) /\ Behind(db.ledger)
    BY <1>1, OwnLedger DEF HomeInv
  <2>5. /\ db.ledger.detail \subseteq Lines /\ db.ledger.rolled \in [Lines -> Nat]
        /\ db.ledger.cursor \in [Logs -> [Paths -> Nat]]
        /\ db.ledger.priced \subseteq db.ledger.detail
    BY <2>1, <2>4, RecordsOf DEF Counted
  <2>6. db.ledger.rolled \in [Lines -> 0 .. 2]
    <3>1. ASSUME NEW line \in Lines PROVE db.ledger.rolled[line] <= 2
      <4>1. CountIn(db.ledger, line) <= Passes(db.ledger, line)
        BY <2>4 DEF Counted
      <4>2. Passes(db.ledger, line) <= 2 /\ Passes(db.ledger, line) \in Nat
        BY DEF Passes
      <4>3. db.ledger.rolled[line] \in Nat
        BY <2>5
      <4>4. db.ledger.rolled[line] <= CountIn(db.ledger, line)
            /\ CountIn(db.ledger, line) \in Nat
        BY <4>3 DEF CountIn
      <4>. QED BY <4>1, <4>2, <4>3, <4>4
    <3>2. \A line \in Lines : db.ledger.rolled[line] \in Nat
      BY <2>5
    <3>3. \A line \in Lines : db.ledger.rolled[line] \in 0 .. 2
      BY <3>1, <3>2
    <3>. QED BY <2>5, <3>3
  <2>7. db.ledger.cursor \in [Logs -> [Paths -> 0 .. MaxLines]]
    <3>1. ASSUME NEW l \in Logs PROVE ReadOf(l) \in Nat /\ ReadOf(l) <= MaxLines
      BY <1>1, <2>1, ReadTypes
         DEF HomeInv, HomeTypes, LogsType, LedgerInv, ScanInv, ReadOf
    <3>2. \A l \in Logs, p \in Paths : db.ledger.cursor[l][p] \in 0 .. MaxLines
      BY <2>1, <2>4, <2>5, <3>1 DEF Behind
    <3>. QED BY <2>5, <3>2
  <2>8. /\ file \in [Pieces -> Versions] /\ serving \subseteq Versions /\ queue \subseteq Versions
    BY <1>1, <2>2 DEF HomeInv, HomeTypes, FileType, QueueType, Files
  <2>. QED BY <1>1, <2>1, <2>3, <2>5, <2>6, <2>7, <2>8
  DEF HomeTypeOK, HomeInv, HomeTypes, SvcType, DayType
<1>2. HomeInv => {r.plan : r \in db.records} \subseteq db.plans
  BY DEF HomeInv, PlansInv, HeldDatabases, KnowsPlans
<1>3. HomeInv => RecordsBelong
  BY <1>1, <1>2 DEF RecordsBelong
<1>. QED BY <1>3, HomeInvHolds, PTL

(* An ending for want of anything left to try has its causes.                 *)
LEMMA UnservableCount ==
  ASSUME NEW a, NEW b
  PROVE  Cardinality({i \in 1..2 : Unservable(<<a, b>>[i])}) = Unservables(a) + Unservables(b)
<1> DEFINE S == {i \in 1..2 : Unservable(<<a, b>>[i])}
<1>1. \A i : i \in S <=> (i = 1 /\ Unservable(a)) \/ (i = 2 /\ Unservable(b))
  <2>1. <<a, b>>[1] = a /\ <<a, b>>[2] = b
    OBVIOUS
  <2>. QED BY <2>1
<1> HIDE DEF S
<1>2. CASE Unservable(a) /\ Unservable(b)
  <2>1. S = {1} \cup {2} /\ 2 \notin {1}
    BY <1>1, <1>2
  <2>2. IsFiniteSet({1}) /\ Cardinality({1}) = 1
    BY FS_Singleton
  <2>3. Cardinality({1} \cup {2}) = 2
    BY <2>1, <2>2, FS_AddElement
  <2>. QED BY <1>2, <2>1, <2>3 DEF Unservables, S
<1>3. CASE Unservable(a) /\ ~Unservable(b)
  <2>1. S = {1}
    BY <1>1, <1>3
  <2>. QED BY <1>3, <2>1, FS_Singleton DEF Unservables, S
<1>4. CASE ~Unservable(a) /\ Unservable(b)
  <2>1. S = {2}
    BY <1>1, <1>4
  <2>2. Cardinality({2}) = 1
    BY FS_Singleton
  <2>. QED BY <1>4, <2>1, <2>2 DEF Unservables, S
<1>5. CASE ~Unservable(a) /\ ~Unservable(b)
  <2>1. S = {}
    BY <1>1, <1>5
  <2>. QED BY <1>5, <2>1, FS_EmptySet DEF Unservables, S
<1>. QED BY <1>2, <1>3, <1>4, <1>5

ToldHome ==
  /\ answer' = "restored" => HomeIs(op.wanted)
  /\ answer' = "failed" => HomeIs(op.before)
  /\ answer' = "required" =>
       Troubles + Cardinality({i \in 1..2 : Unservable(<<op.wanted, op.before>>[i])}) >= 2

LEMMA EndsRequired ==
  ASSUME HomeTypes, op.stage \in Stages \cup Pieces, op.stage \notin Early,
         NEW d, Failed(d), Cause, op' = NoOperation
  PROVE  ToldHome
<1>1. op.way = "back" /\ answer' = "required"
  BY DEF Failed, TurnsBack, SameOperation, GivenUp
<1>2. Troubles + (Unservables(op.wanted) + Unservables(op.before)) >= 2
  BY <1>1 DEF Cause
<1>. QED BY <1>1, <1>2, UnservableCount DEF ToldHome

LEMMA EndsAtHome ==
  ASSUME HomeTypes, RestoreInv, ResumeTakeovers, op' = NoOperation,
         \A t \in Targets : db.rev[t] # 0 => t \in running,
         answer' = IF op.way = "forward" THEN "restored" ELSE "failed",
         db' = db, running' = running
  PROVE  ToldHome
<1>1. op.stage = "resume" /\ file' = file
  BY DEF ResumeTakeovers
<1>2. Gated(Wanted.db) = Gated(db)
      /\ \A p \in Pieces \ op.edited : file[p] = Wanted.file[p]
  BY <1>1 DEF RestoreInv
<1>3. HomeIs(Wanted)
  BY <1>1, <1>2 DEF HomeIs, Gated
<1>4. Wanted = IF op.way = "forward" THEN op.wanted ELSE op.before
  BY DEF Wanted
<1>. QED BY <1>3, <1>4 DEF ToldHome

LEMMA AnswerTells ==
  ASSUME HomeTypes, RestoreInv, HomeNext, Ending
  PROVE  ToldHome
<1>1. op # NoOperation /\ op' = NoOperation /\ svc = "up" /\ svc' = "up"
  BY DEF Ending, Up
<1>2. CASE Service
  BY <1>1, <1>2 DEF Service, OpenDatabase, MigrationStep, Start, Killed
<1>3. CASE Writers
  <2>1. \A t \in Targets : ~Edit(t)
    BY <1>1, EditEffect DEF HomeTypes
  <2>2. CASE \E p \in Pieces : Change(p)
    BY <1>1, <2>2 DEF Change, Free
  <2>3. CASE \E t \in Targets : Reapply(t) \/ BeginRequest(t)
    BY <1>1, <2>3 DEF Reapply, BeginRequest
  <2>4. CASE FinishRequest \/ RecordRequest
    BY <1>1, <2>4 DEF FinishRequest, RecordRequest
  <2>. QED BY <1>3, <2>1, <2>2, <2>3, <2>4 DEF Writers
<1>4. CASE Ledger
  BY <1>1, <1>4 DEF Ledger, AppendLine, Archive, NextDay, ScanFiles, ImportScan, ClearUsage,
                    SetRetention, ReplaceCatalog
<1>5. CASE BeginBackup \/ RefuseRestore \/ BeginRestore
  BY <1>1, <1>5 DEF BeginBackup, RefuseRestore, BeginRestore, Free
<1>6. CASE CopyDatabase
  BY <1>1, <1>6, CopyEffect, NotIdle DEF HomeTypes, DbType, FileType
<1>7. CASE InstallBackup
  BY <1>1, <1>7, InstallHolds, NotIdle DEF ToldHome
<1>8. ASSUME RestoreSteps PROVE ToldHome
  <2>1. op.stage \in Stages \cup Pieces /\ op.stage \notin Early
    BY <1>8, RestoreStepsEffect
  <2>2. \A stage : ~Proceeds(stage) /\ ~TurnsBack(stage)
    BY <1>1 DEF Proceeds, TurnsBack, SameOperation
  <2>3. ASSUME NEW d, Failed(d), faults' = faults + 1 PROVE ToldHome
    BY <1>1, <2>1, <2>3, CauseOfFault, EndsRequired
  <2>4. CASE ShutdownModels
    <3>1. op.way = "back" /\ GivenUp(db) /\ faults' = faults + 1
      BY <2>2, <2>4, ShutdownEffect
    <3>. QED BY <2>3, <3>1 DEF Failed
  <2>5. CASE ReservePorts
    BY <2>2, <2>5, ReserveEffect
  <2>6. CASE RestoreDatabase
    BY <2>2, <2>3, <2>6, DatabaseEffect
  <2>7. CASE ApplyFile
    BY <2>2, <2>3, <2>7, ApplyEffect
  <2>8. CASE VerifyFiles
    <3>1. op.stage = "verify" /\ faults' = faults /\ file # Wanted.file /\ Failed(db)
      BY <2>2, <2>8, VerifyEffect
    <3>2. file \in [Pieces -> 0 .. work] /\ Wanted.file \in [Pieces -> 0 .. work]
      BY <2>1, WantedType DEF HomeTypes, FileType, Artifacts, Files
    <3>3. PICK p \in Pieces : file[p] # Wanted.file[p]
      BY <3>1, <3>2
    <3>4. Cause
      BY <3>1, <3>3, CauseOfMismatch
    <3>. QED BY <1>1, <2>1, <3>1, <3>4, EndsRequired
  <2>9. CASE ResumeTakeovers
    <3>1. CASE /\ \A t \in Targets : db.rev[t] # 0 => t \in running
               /\ answer' = IF op.way = "forward" THEN "restored" ELSE "failed"
               /\ db' = db /\ running' = running
      BY <1>1, <2>9, <3>1, EndsAtHome
    <3>2. CASE Failed(db) /\ faults' = faults + 1
      BY <2>3, <3>2
    <3>3. CASE /\ \E t \in Targets : Managed(t) /\ ~Servable(t)
               /\ \E T \in SUBSET Targets : Failed([db EXCEPT !.drift = T])
               /\ faults' = faults
      <4>1. op.stage = "resume"
        BY <2>9 DEF ResumeTakeovers
      <4>2. Cause
        BY <3>3, <4>1, CauseOfUnserved
      <4>3. PICK T \in SUBSET Targets : Failed([db EXCEPT !.drift = T])
        BY <3>3
      <4> DEFINE d == [db EXCEPT !.drift = T]
      <4>4. Failed(d)
        BY <4>3
      <4> HIDE DEF d
      <4>. QED BY <1>1, <2>1, <4>2, <4>4, EndsRequired
    <3>. QED BY <1>1, <2>9, <3>1, <3>2, <3>3, ResumeEffect
  <2>. QED BY <1>8, <2>4, <2>5, <2>6, <2>7, <2>8, <2>9 DEF RestoreSteps
<1>. QED
    BY <1>2, <1>3, <1>4, <1>5, <1>6, <1>7, <1>8 DEF HomeNext, Recovery, RestoreSteps

(* restore_backup and its rollback (recovery_backup.rs): what a restore       *)
(* answers is what it did to the home, and that recovery is required takes    *)
(* two things that went wrong, on any number of targets and with edits and    *)
(* failures at any of its steps.                                             *)
THEOREM AnswersTellHome == HomeSpec => AnswerTellsHome
<1>1. HomeInv /\ [HomeNext]_homeVars => [Ending => ToldHome]_homeVars
  BY AnswerTells DEF HomeInv
<1>. QED BY <1>1, HomeInvHolds, PTL DEF HomeSpec, AnswerTellsHome, ToldHome

=============================================================================
