--------------------------- MODULE ModelAdmission ---------------------------
(***************************************************************************)
(* The admission word of a model server: one atomic integer holds the      *)
(* reserved bit and, above it, the number of active requests.  Whoever     *)
(* stops the server reserves it, idle or draining, and waits on a Notify   *)
(* for the last request; a reservation that is dropped resumes admission.  *)
(* A server may be told to stop without one, too.  Each atomic access is a *)
(* step.                                                                   *)
(***************************************************************************)
EXTENDS Naturals, FiniteSets

CONSTANT Requests

ASSUME RequestsFinite == IsFiniteSet(Requests)

ReservedBit == 1
ActiveRequestIncrement == 2

VARIABLES
  state,      \* ModelAdmission.state
  permit,     \* the permit the Notify stores for the next waiter
  requests,   \* request -> where its handler is
  owner       \* where whoever reserves or stops the server is

vars == <<state, permit, requests, owner>>

Owners == {"running", "reserved", "draining", "checking", "awaiting", "waiting",
           "drained", "committed", "stopping", "stopped"}

Active == {r \in Requests : requests[r] = "active"}
Reserved == state % ActiveRequestIncrement = ReservedBit

TypeOK ==
  /\ state \in 0 .. (ActiveRequestIncrement * Cardinality(Requests) + ReservedBit)
  /\ permit \in BOOLEAN
  /\ requests \in [Requests -> {"idle", "arrived", "active"}]
  /\ owner \in Owners

Init ==
  /\ state = 0
  /\ permit = FALSE
  /\ requests = [r \in Requests |-> "idle"]
  /\ owner = "running"

-----------------------------------------------------------------------------
(* The first look at the bit, before anything else.  A server that was told *)
(* to stop accepts no connection and serves the ones it has.                *)
Arrive(r) ==
  /\ owner # "stopped"
  /\ requests[r] = "idle" /\ ~Reserved
  /\ requests' = [requests EXCEPT ![r] = "arrived"]
  /\ UNCHANGED <<state, permit, owner>>

(* Credential, plan or recording refused it, or the client left.            *)
Refuse(r) ==
  /\ requests[r] = "arrived"
  /\ requests' = [requests EXCEPT ![r] = "idle"]
  /\ UNCHANGED <<state, permit, owner>>

(* Slip: the bit was checked when the request arrived. *)
AdmitUnchecked(r) ==
  /\ requests[r] = "arrived"
  /\ state' = state + ActiveRequestIncrement
  /\ requests' = [requests EXCEPT ![r] = "active"]
  /\ UNCHANGED <<permit, owner>>

(* ActiveRequestGuard::try_begin: the compare-exchange that decides.        *)
Admit(r) ==
  /\ requests[r] = "arrived" /\ ~Reserved
  /\ state' = state + ActiveRequestIncrement
  /\ requests' = [requests EXCEPT ![r] = "active"]
  /\ UNCHANGED <<permit, owner>>

LastOfDraining == state = ReservedBit + ActiveRequestIncrement

(* notify_one wakes the waiter or stores its permit.                        *)
NotifyOne ==
  IF owner = "waiting"
  THEN owner' = "checking" /\ UNCHANGED permit
  ELSE permit' = TRUE /\ UNCHANGED owner

(* The guard is dropped with the response's body.                           *)
End(r) ==
  /\ requests[r] = "active"
  /\ state' = state - ActiveRequestIncrement
  /\ requests' = [requests EXCEPT ![r] = "idle"]
  /\ IF LastOfDraining THEN NotifyOne ELSE UNCHANGED <<permit, owner>>

-----------------------------------------------------------------------------
(* reserve_if_idle, for strategies that must find nothing to drain.         *)
TryReserveIdle ==
  /\ owner = "running" /\ state = 0
  /\ state' = ReservedBit
  /\ owner' = "reserved"
  /\ UNCHANGED <<permit, requests>>

(* reserve_draining, for disabling a takeover.                              *)
BeginDraining ==
  /\ owner = "running" /\ ~Reserved
  /\ state' = state + ReservedBit
  /\ owner' = "draining"
  /\ UNCHANGED <<permit, requests>>

(* The operation failed: the reservation is given back.                     *)
Resume ==
  /\ owner \in {"reserved", "draining"}
  /\ state' = state - ReservedBit
  /\ owner' = "running"
  /\ UNCHANGED <<permit, requests>>

WaitUntilDrained ==
  /\ owner = "draining"
  /\ owner' = "checking"
  /\ UNCHANGED <<state, permit, requests>>

Check ==
  /\ owner = "checking"
  /\ owner' = IF state = ReservedBit THEN "drained" ELSE "awaiting"
  /\ UNCHANGED <<state, permit, requests>>

(* Slip: a notification that comes before the waiter is not kept. *)
AwaitWithoutPermit ==
  /\ owner = "awaiting"
  /\ owner' = "waiting"
  /\ permit' = FALSE
  /\ UNCHANGED <<state, requests>>

Await ==
  /\ owner = "awaiting"
  /\ owner' = IF permit THEN "checking" ELSE "waiting"
  /\ permit' = FALSE
  /\ UNCHANGED <<state, requests>>

(* ModelDrainReservation::commit, or its drop when the word has changed:    *)
(* shutdown_runtime fails and drops the handle it has taken.                *)
Commit ==
  /\ owner = "drained"
  /\ IF state = ReservedBit
     THEN owner' = "committed" /\ UNCHANGED state
     ELSE owner' = "stopping" /\ state' = state - ReservedBit
  /\ UNCHANGED <<permit, requests>>

(* ModelServerHandle::shutdown and drop send the signal, with a reservation *)
(* or without one: the service exits, a backup is restored, a takeover is   *)
(* rolled back or handed to recovery.                                       *)
Shutdown ==
  /\ owner \in {"running", "reserved", "committed"}
  /\ owner' = "stopping"
  /\ UNCHANGED <<state, permit, requests>>

(* The graceful shutdown ends behind the last connection.                   *)
Stopped ==
  /\ owner = "stopping" /\ \A r \in Requests : requests[r] = "idle"
  /\ owner' = "stopped"
  /\ UNCHANGED <<state, permit, requests>>

(* The next activation binds a server with an admission word of its own.    *)
Bind ==
  /\ owner = "stopped"
  /\ owner' = "running"
  /\ state' = 0
  /\ permit' = FALSE
  /\ UNCHANGED requests

Own ==
  \/ TryReserveIdle \/ BeginDraining \/ Resume \/ WaitUntilDrained \/ Check
  \/ Await \/ Commit \/ Shutdown \/ Stopped \/ Bind

Next ==
  \/ \E r \in Requests : Arrive(r) \/ Refuse(r) \/ Admit(r) \/ End(r)
  \/ Own

Spec == Init /\ [][Next]_vars

(* Requests end, and a wait that was started is polled.                     *)
Fairness ==
  /\ \A r \in Requests : WF_vars(End(r)) /\ WF_vars(Refuse(r))
  /\ WF_vars(Check \/ Await \/ Commit)

FairSpec == Spec /\ Fairness

-----------------------------------------------------------------------------
Reserving == owner \in {"reserved", "draining", "checking", "awaiting", "waiting", "drained"}
Closed == owner \in {"committed", "stopped"} \/ (owner = "stopping" /\ Reserved)

(* The word holds the bit of the reservation and the count of the requests  *)
(* that are active, and nothing else.                                       *)
WordCounts ==
  /\ state = ActiveRequestIncrement * Cardinality(Active)
               + (IF Reserved THEN ReservedBit ELSE 0)
  /\ owner = "running" => ~Reserved
  /\ Reserving \/ owner = "committed" => Reserved
  /\ Closed \/ owner \in {"reserved", "drained"} => Active = {}

(* Nobody is admitted behind a reservation, one that is given back readmits *)
(* requests, and a server ends only when nothing is routed through it: at   *)
(* its reservation's commitment or, when it is told to stop without one,    *)
(* behind the requests it has and still gets (ModelDrainReservation,        *)
(* ModelServerHandle::shutdown).                                            *)
Gate == INSTANCE DrainGate WITH
  active <- Active,
  gate <- CASE Reserving -> "closing"
            [] Closed -> "closed"
            [] owner = "stopping" /\ ~Reserved -> "ending"
            [] OTHER -> "open"

ImplementsDrainGate == Gate!Spec

(* A drain that is waited for ends: the wakeup of the last request is not   *)
(* lost between the waiter's look at the word and its registration.         *)
DrainEnds == owner = "checking" ~> owner = "committed"
=============================================================================
