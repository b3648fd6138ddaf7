------------------------- MODULE ModelRequestsProofs -------------------------
(***************************************************************************)
(* For any finite set of requests: the admission word counts exactly the   *)
(* active requests, and with it the server is a DrainGate (ModelAdmission).*)
(*                                                                         *)
(* For any plans and any recorder: the handlers go through the model       *)
(* server as ModelAdmission says and so pass the DrainGate, no completion  *)
(* and no permit of the recorder is lost when the server stops, a client   *)
(* reads one answer - a native one is the stream of one attempt, a bridged *)
(* one a well-formed stream of messages - and the record of a request says *)
(* what its client saw (ModelRequests).                                    *)
(***************************************************************************)
EXTENDS ModelRequests, FiniteSetTheorems, TLAPS

Types ==
  /\ permit \in BOOLEAN
  /\ requests \in [Requests -> {"idle", "arrived", "active"}]
  /\ owner \in Owners

(* The word needs no bound of its own: WordCounts gives it.                 *)
StoppedIsIdle == owner = "stopped" => \A r \in Requests : requests[r] = "idle"

IInv == Types /\ WordCounts /\ StoppedIsIdle

(* The active requests are finitely many, and no more than there are.       *)
LEMMA ActiveFinite ==
  /\ IsFiniteSet(Active)
  /\ Cardinality(Active) \in Nat
  /\ Cardinality(Active) <= Cardinality(Requests)
  /\ Cardinality(Requests) \in Nat
  /\ Cardinality(Active) = 0 <=> Active = {}
<1>1. Active \in SUBSET Requests
  BY DEF Active
<1>2. IsFiniteSet(Active) /\ Cardinality(Active) <= Cardinality(Requests)
  BY <1>1, FS_Subset, RequestsFinite
<1>3. Cardinality(Active) \in Nat /\ Cardinality(Requests) \in Nat
  BY <1>2, FS_CardinalityType, RequestsFinite
<1> QED
  BY <1>2, <1>3, FS_EmptySet

(* An idle or arrived request stays outside the count, ...                  *)
LEMMA CountKept ==
  ASSUME Types, NEW r \in Requests, requests[r] # "active",
         NEW where \in {"idle", "arrived"},
         requests' = [requests EXCEPT ![r] = where]
  PROVE  Active' = Active
BY DEF Types, Active

(* ... one that becomes active adds one, ...                                *)
LEMMA CountUp ==
  ASSUME Types, NEW r \in Requests, requests[r] # "active",
         requests' = [requests EXCEPT ![r] = "active"]
  PROVE  /\ Active' = Active \union {r}
         /\ r \notin Active
         /\ Cardinality(Active') = Cardinality(Active) + 1
<1>1. Active' = Active \union {r} /\ r \notin Active
  BY DEF Types, Active
<1> QED
  BY <1>1, ActiveFinite, FS_AddElement

(* ... and one that ends takes one away.                                    *)
LEMMA CountDown ==
  ASSUME Types, NEW r \in Requests, requests[r] = "active",
         requests' = [requests EXCEPT ![r] = "idle"]
  PROVE  /\ Active' = Active \ {r}
         /\ r \in Active
         /\ Cardinality(Active') = Cardinality(Active) - 1
         /\ Cardinality(Active) \in Nat \ {0}
<1>1. Active' = Active \ {r} /\ r \in Active
  BY DEF Types, Active
<1>2. Cardinality(Active') = Cardinality(Active) - 1
  BY <1>1, ActiveFinite, FS_RemoveElement
<1>3. Cardinality(Active) # 0
  BY <1>1, ActiveFinite
<1> QED
  BY <1>1, <1>2, <1>3, ActiveFinite

(* The word without the bit is twice the count of the active requests.      *)
LEMMA WordIs ==
  ASSUME WordCounts
  PROVE  /\ state = 2 * Cardinality(Active) + (IF Reserved THEN 1 ELSE 0)
         /\ state = ReservedBit <=> (Reserved /\ Active = {})
         /\ state = 0 <=> (~Reserved /\ Active = {})
         /\ state \in Nat
<1>1. PICK n \in Nat : Cardinality(Active) = n
  BY ActiveFinite
<1>2. n = 0 <=> Active = {}
  BY <1>1, ActiveFinite
<1>3. state = 2 * n + (IF Reserved THEN 1 ELSE 0)
  BY <1>1 DEF WordCounts, ActiveRequestIncrement, ReservedBit
<1> QED
  BY <1>1, <1>2, <1>3 DEF ReservedBit

(* What a step makes of the word: a request more or less keeps the bit, ... *)
LEMMA Bit ==
  ASSUME NEW n \in Nat, NEW bit \in {0, 1}
  PROVE  /\ (2 * n + bit) % 2 = bit
         /\ (2 * n + bit + 2) % 2 = bit
         /\ n > 0 => (2 * n + bit - 2) % 2 = bit
OBVIOUS

LEMMA Counted ==
  ASSUME WordCounts, state' \in Int, NEW bit \in {0, 1},
         state' = 2 * Cardinality(Active') + bit, Cardinality(Active') \in Nat
  PROVE  /\ Reserved' <=> bit = 1
         /\ state' = ActiveRequestIncrement * Cardinality(Active')
                       + (IF Reserved' THEN ReservedBit ELSE 0)
<1>1. state' % 2 = bit
  BY Bit
<1>2. Reserved' <=> bit = 1
  BY <1>1 DEF Reserved, ReservedBit, ActiveRequestIncrement
<1> QED
  BY <1>2 DEF ReservedBit, ActiveRequestIncrement

LEMMA InitInv == Init => IInv
<1> SUFFICES ASSUME Init PROVE IInv
  OBVIOUS
<1>1. Active = {}
  BY DEF Init, Active
<1>2. Cardinality(Active) = 0
  BY <1>1, ActiveFinite
<1>3. ~Reserved
  BY DEF Init, Reserved, ReservedBit, ActiveRequestIncrement
<1>4. WordCounts
  BY <1>1, <1>2, <1>3
     DEF Init, WordCounts, Reserving, Closed, ActiveRequestIncrement, ReservedBit
<1>5. Types
  BY DEF Init, Types, Owners
<1> QED
  BY <1>4, <1>5 DEF IInv, StoppedIsIdle, Init

(* The parts of WordCounts about the owner.                                 *)
OwnerKeeps ==
  /\ owner = "running" => ~Reserved
  /\ Reserving \/ owner = "committed" => Reserved
  /\ Closed \/ owner \in {"reserved", "drained"} => Active = {}

(* A step of a request: the bit stays, the owner only wakes up.             *)
LEMMA RequestStep ==
  ASSUME IInv, Types', state' \in Int,
         Cardinality(Active') \in Nat,
         state' = 2 * Cardinality(Active') + (IF Reserved THEN 1 ELSE 0),
         owner' = owner \/ (owner = "waiting" /\ owner' = "checking"),
         Active' \subseteq Active \/ (~Reserved /\ owner' = owner), owner # "stopped"
  PROVE  IInv' /\ (Reserved' <=> Reserved)
<1>a. WordCounts /\ OwnerKeeps
  BY DEF IInv, WordCounts, OwnerKeeps
<1>1. PICK bit \in {0, 1} : bit = IF Reserved THEN 1 ELSE 0
  OBVIOUS
<1>2. /\ Reserved' <=> bit = 1
      /\ state' = ActiveRequestIncrement * Cardinality(Active')
                    + (IF Reserved' THEN ReservedBit ELSE 0)
  <2>1. state' = 2 * Cardinality(Active') + bit
    BY <1>1
  <2> QED
    BY <1>a, <2>1, Counted
<1>3. Reserved' <=> Reserved
  BY <1>1, <1>2
<1>4. OwnerKeeps'
  BY <1>a, <1>3 DEF OwnerKeeps, Reserving, Closed
<1> QED
  BY <1>2, <1>3, <1>4 DEF IInv, WordCounts, OwnerKeeps, StoppedIsIdle

(* A step of the owner: nobody moves, and the bit is set, cleared or stays. *)
LEMMA OwnerStepKeeps ==
  ASSUME IInv, Types', requests' = requests, NEW bit \in {0, 1},
         state' = 2 * Cardinality(Active) + bit,
         owner' = "running" => bit = 0,
         Reserving' \/ owner' = "committed" => bit = 1,
         owner' \in {"committed", "stopped", "reserved", "drained"} => Active = {},
         owner' = "stopping" /\ bit = 1 => Active = {},
         owner' = "stopped" => \A r \in Requests : requests[r] = "idle"
  PROVE  IInv' /\ (Reserved' <=> bit = 1) /\ Active' = Active
<1>1. Active' = Active
  BY DEF Active
<1>2. Cardinality(Active) \in Nat
  BY ActiveFinite
<1>3. WordCounts
  BY DEF IInv
<1>4. state' \in Int
  BY <1>2
<1>5. /\ Reserved' <=> bit = 1
      /\ state' = ActiveRequestIncrement * Cardinality(Active')
                    + (IF Reserved' THEN ReservedBit ELSE 0)
  BY <1>1, <1>2, <1>3, <1>4, Counted
<1>6. OwnerKeeps'
  BY <1>1, <1>5 DEF OwnerKeeps, Closed
<1> QED
  BY <1>1, <1>5, <1>6 DEF IInv, WordCounts, OwnerKeeps, StoppedIsIdle

LEMMA NextInv == IInv /\ [Next]_vars => IInv'
<1> SUFFICES ASSUME IInv, [Next]_vars PROVE IInv'
  OBVIOUS
<1>a. Types /\ WordCounts /\ OwnerKeeps /\ StoppedIsIdle
  BY DEF IInv, WordCounts, OwnerKeeps
<1>b. /\ Cardinality(Active) \in Nat
      /\ state = 2 * Cardinality(Active) + (IF Reserved THEN 1 ELSE 0)
      /\ state = ReservedBit <=> (Reserved /\ Active = {})
      /\ state = 0 <=> (~Reserved /\ Active = {})
      /\ state \in Nat
  BY <1>a, ActiveFinite, WordIs
<1>1. ASSUME NEW r \in Requests, Arrive(r) \/ Refuse(r) PROVE IInv'
  <2>1. Active' = Active
    BY <1>1, <1>a, CountKept DEF Arrive, Refuse
  <2>2. Types'
    BY <1>1, <1>a DEF Arrive, Refuse, Types
  <2>3. state' = state /\ owner' = owner /\ owner # "stopped"
    BY <1>1, <1>a DEF Arrive, Refuse, StoppedIsIdle
  <2> QED
    BY <1>b, <2>1, <2>2, <2>3, RequestStep
<1>3. ASSUME NEW r \in Requests, Admit(r) PROVE IInv'
  <2>1. Cardinality(Active') = Cardinality(Active) + 1
    BY <1>3, <1>a, CountUp DEF Admit
  <2>2. Types'
    BY <1>3, <1>a DEF Admit, Types
  <2>3. owner' = owner /\ ~Reserved /\ state' = state + 2 /\ owner # "stopped"
    <3>1. owner # "stopped"
      BY <1>3, <1>a DEF Admit, StoppedIsIdle
    <3> QED
      BY <1>3, <3>1 DEF Admit, ActiveRequestIncrement
  <2> QED
    BY <1>b, <2>1, <2>2, <2>3, RequestStep
<1>4. ASSUME NEW r \in Requests, End(r) PROVE IInv'
  <2>1. /\ Cardinality(Active') = Cardinality(Active) - 1 /\ Cardinality(Active) \in Nat \ {0}
        /\ Active' \subseteq Active
    BY <1>4, <1>a, CountDown DEF End
  <2>2. /\ owner' = owner \/ (owner = "waiting" /\ owner' = "checking")
        /\ owner # "stopped"
    BY <1>4, <1>a DEF End, NotifyOne, StoppedIsIdle
  <2>3. Types'
    BY <1>4, <1>a DEF End, NotifyOne, Types, Owners
  <2>4. state' = state - 2
    BY <1>4 DEF End, ActiveRequestIncrement
  <2> QED
    BY <1>b, <2>1, <2>2, <2>3, <2>4, RequestStep
<1>5. CASE TryReserveIdle
  <2>1. Types' /\ requests' = requests /\ state' = 2 * Cardinality(Active) + 1
    BY <1>5, <1>a, <1>b, ActiveFinite DEF TryReserveIdle, Types, Owners, ReservedBit
  <2>2. owner' = "reserved" /\ Active = {}
    BY <1>5, <1>b DEF TryReserveIdle
  <2> QED
    BY <2>1, <2>2, OwnerStepKeeps DEF Reserving
<1>6. CASE BeginDraining
  <2>1. Types' /\ requests' = requests /\ state' = 2 * Cardinality(Active) + 1
    BY <1>6, <1>a, <1>b DEF BeginDraining, Types, Owners, ReservedBit
  <2>2. owner' = "draining"
    BY <1>6 DEF BeginDraining
  <2> QED
    BY <2>1, <2>2, OwnerStepKeeps DEF Reserving
<1>7. CASE Resume
  <2>1. Types' /\ requests' = requests /\ state' = 2 * Cardinality(Active) + 0
    <3>1. Reserved
      BY <1>7, <1>a DEF Resume, OwnerKeeps, Reserving
    <3>2. PICK n \in Nat : n = Cardinality(Active)
      BY <1>b
    <3>3. state' = 2 * n + 1 - 1
      BY <1>7, <1>b, <3>1, <3>2 DEF Resume, ReservedBit
    <3>4. Types' /\ requests' = requests
      BY <1>7, <1>a DEF Resume, Types, Owners
    <3> QED
      BY <3>2, <3>3, <3>4
  <2>2. owner' = "running"
    BY <1>7 DEF Resume
  <2> QED
    BY <2>1, <2>2, OwnerStepKeeps DEF Reserving
<1>8. CASE WaitUntilDrained \/ Check \/ Await
  <2>1. Reserved /\ state' = state /\ requests' = requests
    BY <1>8, <1>a DEF WaitUntilDrained, Check, Await, OwnerKeeps, Reserving
  <2>2. owner' \in {"checking", "drained", "awaiting", "waiting"} /\ (owner' = "drained" => Active = {})
    BY <1>8, <1>b DEF WaitUntilDrained, Check, Await
  <2>3. Types'
    BY <1>8, <1>a DEF WaitUntilDrained, Check, Await, Types, Owners
  <2> QED
    BY <1>b, <2>1, <2>2, <2>3, OwnerStepKeeps
<1>11. CASE Commit
  <2>1. Reserved /\ Active = {} /\ state = ReservedBit
    BY <1>11, <1>a, <1>b DEF Commit, OwnerKeeps, Reserving
  <2>2. owner' = "committed" /\ state' = state /\ requests' = requests
    BY <1>11, <2>1 DEF Commit
  <2>3. Types'
    BY <1>11, <1>a, <2>2 DEF Commit, Types, Owners
  <2> QED
    BY <1>b, <2>1, <2>2, <2>3, OwnerStepKeeps
<1>12. CASE Shutdown
  <2>1. /\ owner' = "stopping" /\ state' = state /\ requests' = requests
        /\ Reserved => Active = {}
    BY <1>12, <1>a DEF Shutdown, OwnerKeeps, Closed
  <2>2. Types'
    BY <1>12, <1>a DEF Shutdown, Types, Owners
  <2>3. PICK bit \in {0, 1} : bit = IF Reserved THEN 1 ELSE 0
    OBVIOUS
  <2>4. ~Reserving'
    BY <2>1 DEF Reserving
  <2> QED
    BY <1>b, <2>1, <2>2, <2>3, <2>4, OwnerStepKeeps
<1>13. CASE Stopped
  <2>1. /\ owner' = "stopped" /\ state' = state /\ requests' = requests /\ Active = {}
        /\ \A r \in Requests : requests[r] = "idle"
    BY <1>13 DEF Stopped, Active
  <2>2. Types'
    BY <1>13, <1>a DEF Stopped, Types, Owners
  <2>3. PICK bit \in {0, 1} : bit = IF Reserved THEN 1 ELSE 0
    OBVIOUS
  <2>4. ~Reserving'
    BY <2>1 DEF Reserving
  <2> QED
    BY <1>b, <2>1, <2>2, <2>3, <2>4, OwnerStepKeeps
<1>14. CASE Bind
  <2>1. Active = {}
    BY <1>14, <1>a DEF Bind, OwnerKeeps, Closed
  <2>2. Types' /\ requests' = requests /\ state' = 2 * Cardinality(Active) + 0
    <3>1. Cardinality(Active) = 0
      BY <2>1, ActiveFinite
    <3>2. Types' /\ requests' = requests /\ state' = 0
      BY <1>14, <1>a DEF Bind, Types, Owners
    <3> QED
      BY <3>1, <3>2
  <2>3. owner' = "running"
    BY <1>14 DEF Bind
  <2> QED
    BY <2>2, <2>3, OwnerStepKeeps DEF Reserving
<1>15. CASE UNCHANGED vars
  BY <1>15 DEF vars, IInv, Types, WordCounts, Active, Reserved, Reserving, Closed,
     StoppedIsIdle
<1> QED
  BY <1>1, <1>3, <1>4, <1>5, <1>6, <1>7, <1>8, <1>11, <1>12, <1>13, <1>14, <1>15
     DEF Next, Own

THEOREM Invariance == Spec => []IInv
BY InitInv, NextInv, PTL DEF Spec

(* The word fits the requests there are: ModelAdmission's checked_add never *)
(* fails for lack of room as long as their count is representable.          *)
THEOREM TypeCorrect == Spec => []TypeOK
<1>1. ASSUME IInv PROVE TypeOK
  <2>1. PICK n \in Nat : Cardinality(Active) = n /\ n <= Cardinality(Requests)
    BY ActiveFinite
  <2>2. state \in 0 .. 2 * Cardinality(Requests) + 1
    BY <1>1, <2>1, WordIs, ActiveFinite DEF IInv
  <2> QED
    BY <1>1, <2>2 DEF IInv, Types, TypeOK, ActiveRequestIncrement, ReservedBit
<1> QED
  BY <1>1, Invariance, PTL

(* What the word says is what the handlers do, under any interleaving.      *)
THEOREM WordIsExact == Spec => []WordCounts
<1>1. IInv => WordCounts
  BY DEF IInv
<1> QED
  BY <1>1, Invariance, PTL

(* What the gate shows of the owner and of the word.                        *)
Shown ==
  CASE Reserving -> "closing"
    [] Closed -> "closed"
    [] owner = "stopping" /\ ~Reserved -> "ending"
    [] OTHER -> "open"

LEMMA ShownIs ==
  /\ Reserving => Shown = "closing"
  /\ Closed => Shown = "closed"
  /\ owner = "stopping" /\ ~Reserved => Shown = "ending"
  /\ owner = "running" => Shown = "open"
BY DEF Shown, Reserving, Closed

(* A step of the server is a step of the gate, or one it does not show.     *)
LEMMA StepsAreGateSteps ==
  ASSUME IInv, [Next]_vars
  PROVE  [Gate!Next]_(Gate!vars)
<1>a. Types /\ WordCounts /\ OwnerKeeps /\ IInv'
  BY NextInv DEF IInv, WordCounts, OwnerKeeps
<1>b. OwnerKeeps'
  BY <1>a DEF IInv, WordCounts, OwnerKeeps
<1>c. /\ state = ReservedBit <=> (Reserved /\ Active = {})
      /\ state = 0 <=> (~Reserved /\ Active = {})
  BY <1>a, WordIs
<1>d. Gate!vars = <<Shown, Active>>
  BY DEF Gate!vars, Shown
<1>e. Gate!vars' = <<Shown', Active'>>
  BY DEF Gate!vars, Shown
<1>f. owner' = owner /\ (Reserved' <=> Reserved) => Shown' = Shown
  BY DEF Shown, Reserving, Closed
<1>1. ASSUME NEW r \in Requests, Arrive(r) \/ Refuse(r) PROVE UNCHANGED Gate!vars
  <2>1. Active' = Active
    BY <1>1, <1>a, CountKept DEF Arrive, Refuse
  <2>2. owner' = owner /\ (Reserved' <=> Reserved)
    BY <1>1 DEF Arrive, Refuse, Reserved
  <2> QED
    BY <1>d, <1>e, <1>f, <2>1, <2>2
<1>2. ASSUME NEW r \in Requests, Admit(r) PROVE Gate!Enter(r)
  <2>1. Active' = Active \union {r} /\ r \notin Active
    BY <1>2, <1>a, CountUp DEF Admit
  <2>2. owner \in {"running", "stopping"} /\ ~Reserved /\ owner' = owner
    BY <1>2, <1>a, <2>1, <1>b DEF Admit, OwnerKeeps, Types, Owners, Reserving, Closed
  <2>3. ~Reserved'
    <3>1. PICK n \in Nat : state = 2 * n
      BY <1>a, <2>2, WordIs, ActiveFinite
    <3> QED
      BY <1>2, <3>1 DEF Admit, Reserved, ActiveRequestIncrement, ReservedBit
  <2>4. Shown \in {"open", "ending"} /\ Shown' = Shown
    BY <1>f, <2>2, <2>3, ShownIs
  <2> QED
    BY <2>1, <2>4 DEF Gate!Enter, Shown
<1>3. ASSUME NEW r \in Requests, End(r) PROVE Gate!Exit(r)
  <2>1. Active' = Active \ {r} /\ r \in Active
    BY <1>3, <1>a, CountDown DEF End
  <2>2. owner' = owner \/ (owner = "waiting" /\ owner' = "checking")
    BY <1>3 DEF End, NotifyOne
  <2>3. Reserved' <=> Reserved
    <3>1. PICK n \in Nat : state = 2 * n + (IF Reserved THEN 1 ELSE 0) /\ n # 0
      BY <1>a, <2>1, WordIs, ActiveFinite
    <3>2. state' = 2 * n + (IF Reserved THEN 1 ELSE 0) - 2
      BY <1>3, <3>1 DEF End, ActiveRequestIncrement
    <3>3. state' % 2 = IF Reserved THEN 1 ELSE 0
      BY <3>1, <3>2, Bit
    <3> QED
      BY <3>3 DEF Reserved, ReservedBit, ActiveRequestIncrement
  <2>4. Shown' = Shown
    <3>1. CASE owner' = owner
      BY <1>f, <2>3, <3>1
    <3>2. CASE owner = "waiting" /\ owner' = "checking"
      <4>1. Reserving /\ Reserving'
        BY <3>2 DEF Reserving
      <4> QED
        BY <4>1 DEF Shown
    <3> QED
      BY <2>2, <3>1, <3>2
  <2> QED
    BY <2>1, <2>4 DEF Gate!Exit, Shown
<1>4. ASSUME Own PROVE Active' = Active
  <2>1. requests' = requests
    BY <1>4 DEF Own, TryReserveIdle, BeginDraining, Resume, WaitUntilDrained, Check,
       Await, Commit, Shutdown, Stopped, Bind
  <2> QED
    BY <2>1 DEF Active
<1>5. CASE TryReserveIdle \/ BeginDraining
  <2>1. owner = "running" /\ owner' \in {"reserved", "draining"} /\ Active' = Active
    BY <1>4, <1>5 DEF Own, TryReserveIdle, BeginDraining
  <2>2. Shown = "open" /\ Shown' = "closing"
    <3>1. Shown' = "closing"
      BY <2>1 DEF Shown, Reserving, Closed
    <3>2. Shown = "open"
      BY <2>1, ShownIs
    <3> QED
      BY <3>1, <3>2
  <2> QED
    BY <2>1, <2>2 DEF Gate!Closing, Gate!Next, Shown
<1>6. CASE Resume
  <2>1. Reserving /\ owner' = "running" /\ Active' = Active
    BY <1>4, <1>6 DEF Own, Resume, Reserving
  <2>2. Shown = "closing" /\ Shown' = "open"
    BY <2>1, ShownIs DEF Shown, Reserving, Closed
  <2> QED
    BY <2>1, <2>2 DEF Gate!Reopen, Gate!Next, Shown
<1>7. CASE WaitUntilDrained \/ Check \/ Await
  <2>1. Reserving /\ Reserving' /\ Active' = Active
    BY <1>4, <1>7 DEF Own, WaitUntilDrained, Check, Await, Reserving
  <2>2. Shown' = Shown
    BY <2>1 DEF Shown
  <2> QED
    BY <1>d, <1>e, <2>1, <2>2
<1>8. CASE Commit
  <2>1. Reserving /\ Active = {} /\ owner' = "committed" /\ Active' = Active
    <3>1. owner = "drained" /\ Reserving
      BY <1>8 DEF Commit, Reserving
    <3> QED
      BY <1>4, <1>8, <1>a, <1>c, <3>1 DEF Own, Commit, OwnerKeeps
  <2>2. Shown = "closing" /\ Shown' = "closed"
    BY <2>1, ShownIs DEF Shown, Reserving, Closed
  <2> QED
    BY <2>1, <2>2 DEF Gate!Closed, Gate!Next, Shown
<1>9. CASE Shutdown
  <2>1. /\ owner \in {"running", "reserved", "committed"} /\ owner' = "stopping"
        /\ Active' = Active /\ (Reserved' <=> Reserved)
    BY <1>4, <1>9 DEF Own, Shutdown, Reserved
  <2>2. CASE owner = "running"
    <3>1. ~Reserved
      BY <1>a, <2>2 DEF OwnerKeeps
    <3>2. Shown = "open" /\ Shown' = "ending"
      BY <2>1, <2>2, <3>1, ShownIs DEF Shown, Reserving, Closed
    <3> QED
      BY <2>1, <3>2 DEF Gate!Ending, Gate!Next, Shown
  <2>3. CASE owner = "reserved"
    <3>1. Reserved /\ Active = {}
      BY <1>a, <2>3 DEF OwnerKeeps, Reserving
    <3>2. Shown = "closing" /\ Shown' = "closed"
      BY <2>1, <2>3, <3>1, ShownIs DEF Shown, Reserving, Closed
    <3> QED
      BY <2>1, <3>1, <3>2 DEF Gate!Closed, Gate!Next, Shown
  <2>4. CASE owner = "committed"
    <3>1. Reserved
      BY <1>a, <2>4 DEF OwnerKeeps
    <3>2. Shown = "closed" /\ Shown' = "closed"
      BY <2>1, <2>4, <3>1 DEF Shown, Reserving, Closed
    <3> QED
      BY <1>d, <1>e, <2>1, <3>2
  <2> QED
    BY <2>1, <2>2, <2>3, <2>4
<1>10. CASE Stopped
  <2>1. /\ owner = "stopping" /\ owner' = "stopped" /\ Active' = Active /\ Active = {}
    BY <1>4, <1>10 DEF Own, Stopped, Active
  <2>2. Shown' = "closed"
    BY <2>1 DEF Shown, Reserving, Closed
  <2>3. CASE Reserved
    <3>1. Shown = "closed"
      BY <2>1, <2>3, ShownIs DEF Closed
    <3> QED
      BY <1>d, <1>e, <2>1, <2>2, <3>1
  <2>4. CASE ~Reserved
    <3>1. Shown = "ending"
      BY <2>1, <2>4, ShownIs
    <3> QED
      BY <2>1, <2>2, <3>1 DEF Gate!Closed, Gate!Next, Shown
  <2> QED
    BY <2>3, <2>4
<1>11. CASE Bind
  <2>1. owner = "stopped" /\ owner' = "running" /\ Active' = Active
    BY <1>4, <1>11 DEF Own, Bind
  <2>2. Shown = "closed" /\ Shown' = "open"
    BY <2>1 DEF Shown, Reserving, Closed
  <2> QED
    BY <2>1, <2>2 DEF Gate!Replace, Gate!Next, Shown
<1>12. CASE UNCHANGED vars
  BY <1>12 DEF vars, Active, Gate!vars, Reserving, Closed, Reserved
<1> QED
  BY <1>1, <1>2, <1>3, <1>5, <1>6, <1>7, <1>8, <1>9, <1>10, <1>11, <1>12
     DEF Next, Own, Gate!Next

(* Nobody is admitted behind a reservation, one that is given back opens    *)
(* the server again, and whoever stops a server, with a reservation or      *)
(* without one, never ends it under a request: the admission word           *)
(* implements the gate.                                                     *)
THEOREM Implementation == Spec => ImplementsDrainGate
<1>1. Init => Gate!Init
  BY DEF Init, Gate!Init, Active, Reserving, Closed
<1>2. IInv /\ [Next]_vars => [Gate!Next]_(Gate!vars)
  BY StepsAreGateSteps
<1> QED
  BY <1>1, <1>2, Invariance, PTL DEF Spec, ImplementsDrainGate, Gate!Spec

-----------------------------------------------------------------------------
Fields ==
  {"stage", "member", "failures", "kept", "status", "semantic", "whole", "ended", "sent", "got",
   "prefix", "bridge", "out", "usage", "record"}

WorkShape == DOMAIN work = Requests /\ \A r \in Requests : DOMAIN work[r] = Fields

Holds == Admitted \cup {"reserved", "dropping"}

(* A request is active from its admission until its body is gone; what is   *)
(* reserved has arrived and is not admitted.                                *)
StagesAreActive ==
  \A r \in Requests :
    /\ Stage(r) \in Holds \cup {"none", "ending"}
    /\ Stage(r) \in Admitted \cup {"ending"} <=> requests[r] = "active"
    /\ Stage(r) = "reserved" => requests[r] = "arrived"

(* A permit is free, held by a recording, or bound to a completion.         *)
PermitsAreKept ==
  /\ slots \in Nat /\ queued \in Nat
  /\ slots + queued + Cardinality(Holding) = QueueCapacity

StoppedIsEmpty ==
  owner = "stopped" =>
    queued = 0 /\ slots = QueueCapacity /\ \A r \in Requests : requests[r] = "idle"

SInv == IInv /\ WorkShape /\ StagesAreActive /\ PermitsAreKept /\ StoppedIsEmpty

-----------------------------------------------------------------------------
(* The handler of r is at another stage, and every other where it was.      *)
Moves(r, stage) ==
  /\ DOMAIN work' = Requests /\ DOMAIN work'[r] = Fields
  /\ work'[r].stage = stage
  /\ \A q \in Requests \ {r} : work'[q] = work[q]

LEMMA Works ==
  ASSUME SInv, NEW r \in Requests, NEW w, Work(r, w), DOMAIN w = Fields
  PROVE  Moves(r, w.stage) /\ work'[r] = w
  BY DEF SInv, WorkShape, Work, Moves

LEMMA FreshShape == DOMAIN Fresh = Fields /\ Fresh.stage = "none"
  BY DEF Fresh, Fields

LEMMA HoldingFinite == IsFiniteSet(Holding) /\ Cardinality(Holding) \in Nat
  <1>1. Holding \in SUBSET Requests BY DEF Holding
  <1>. QED BY <1>1, FS_Subset, FS_CardinalityType, RequestsFinite

(* Who holds a permit, as its stage changes.                                *)
LEMMA HoldingMoves ==
  ASSUME NEW r \in Requests, NEW stage, Moves(r, stage)
  PROVE  /\ (Stage(r) \in Holds <=> stage \in Holds) => Holding' = Holding
         /\ Stage(r) \notin Holds /\ stage \in Holds => 
              Cardinality(Holding)' = Cardinality(Holding) + 1
         /\ Stage(r) \in Holds /\ stage \notin Holds => 
              Cardinality(Holding)' = Cardinality(Holding) - 1 
  <1>1. Stage(r)' = stage /\ \A q \in Requests \ {r} : Stage(q)' = Stage(q)
    BY DEF Moves, Stage
  <1>2. ASSUME Stage(r) \in Holds <=> stage \in Holds
        PROVE  Holding' = Holding
    BY <1>1, <1>2 DEF Holding, Holds
  <1>3. ASSUME Stage(r) \notin Holds, stage \in Holds
        PROVE  Cardinality(Holding)' = Cardinality(Holding) + 1
    <2>1. Holding' = Holding \cup {r} /\ r \notin Holding
      BY <1>1, <1>3 DEF Holding, Holds
    <2>. QED BY <2>1, HoldingFinite, FS_AddElement
  <1>4. ASSUME Stage(r) \in Holds, stage \notin Holds
        PROVE  Cardinality(Holding)' = Cardinality(Holding) - 1
    <2>1. Holding' = Holding \ {r} /\ r \in Holding
      BY <1>1, <1>4 DEF Holding, Holds
    <2>. QED BY <2>1, HoldingFinite, FS_RemoveElement
  <1>. QED BY <1>2, <1>3, <1>4

-----------------------------------------------------------------------------
(* What the handler's helpers make of its locals: they keep the fields, and *)
(* tell the stage.                                                          *)
LEMMA ToFields == ASSUME NEW w, NEW stage, DOMAIN w = Fields
  PROVE  DOMAIN To(w, stage) = Fields /\ To(w, stage).stage = stage
  BY DEF To, Fields

LEMMA TryNextFields == ASSUME NEW w, DOMAIN w = Fields
  PROVE  DOMAIN TryNext(w) = Fields /\ TryNext(w).stage = "routing"
  BY DEF TryNext, Fields

LEMMA RetryFields == ASSUME NEW w, DOMAIN w = Fields
  PROVE  DOMAIN Retry(w) = Fields /\ Retry(w).stage = "routing"
  BY DEF Retry, Fields

LEMMA StatusAnswerFields == ASSUME NEW r \in Requests, NEW m, WorkShape
  PROVE  /\ DOMAIN StatusAnswer(r, m) = Fields
         /\ StatusAnswer(r, m).stage = IF Plans[r][m] = "bridge" THEN "mapping" ELSE "answered"
  <1> DEFINE stage == IF Plans[r][m] = "bridge" THEN "mapping" ELSE "answered"
  <1>1. stage = IF Plans[r][m] = "bridge" THEN "mapping" ELSE "answered" OBVIOUS
  <1>2. StatusAnswer(r, m) = [work[r] EXCEPT !.stage = stage, !.member = m, !.status = "error",
                                             !.failures = {}, !.kept = 0]
    BY DEF StatusAnswer
  <1> HIDE DEF stage
  <1>. QED BY <1>1, <1>2 DEF WorkShape, Fields

LEMMA CommittedFields == ASSUME NEW r, NEW w, DOMAIN w = Fields
  PROVE  DOMAIN Committed(r, w) = Fields /\ Committed(r, w).stage = "answered"
  BY DEF Committed, Fields

LEMMA CommittedFailureFields == ASSUME NEW r, NEW w, DOMAIN w = Fields
  PROVE  DOMAIN CommittedFailure(r, w) = Fields /\ CommittedFailure(r, w).stage = "answered"
  BY CommittedFields DEF CommittedFailure, Fields

LEMMA ClassifiedFields == ASSUME NEW r, NEW w, NEW e, DOMAIN w = Fields
  PROVE  /\ DOMAIN Classified(r, w, e) = Fields
         /\ Classified(r, w, e).stage \in {"routing", "answered"}
  BY RetryFields, CommittedFields, CommittedFailureFields DEF Classified

LEMMA BufferedFields == ASSUME NEW r \in Requests, NEW e, WorkShape
  PROVE  DOMAIN Buffered(r, e) = Fields /\ Buffered(r, e).stage = Stage(r)
  BY DEF Buffered, WorkShape, Fields, Stage

LEMMA ObservingFields == ASSUME NEW w, NEW e, NEW told, DOMAIN w = Fields
  PROVE  DOMAIN Observing(w, e, told) = Fields /\ Observing(w, e, told).stage = w.stage
  BY DEF Observing, Fields

(* A step within the handler or the body of an admitted request.            *)
StaysAdmitted(r) ==
  /\ Stage(r) \in Admitted /\ UNCHANGED <<vars, queued, slots>>
  /\ \E stage \in Admitted : Moves(r, stage)

LEMMA HandlingStays ==
  ASSUME SInv, NEW r \in Requests, NEW w, Handling(r, w), Stage(r) \in Admitted,
         DOMAIN w = Fields, w.stage \in Admitted
  PROVE  StaysAdmitted(r)
  BY Works DEF Handling, StaysAdmitted

LEMMA ConvertingStays ==
  ASSUME SInv, NEW r \in Requests, NEW w, NEW k, Converting(r, w, k), Stage(r) \in Admitted,
         DOMAIN w = Fields, w.stage \in Admitted
  PROVE  StaysAdmitted(r)
  <1> DEFINE v == [w EXCEPT !.bridge = k.bridge, !.out = k.out]
  <1>1. DOMAIN v = Fields /\ v.stage = w.stage BY DEF Fields
  <1>2. Handling(r, v) BY DEF Converting
  <1> HIDE DEF v
  <1>. QED BY <1>1, <1>2, HandlingStays

LEMMA ForwardStays ==
  ASSUME SInv, NEW r \in Requests, NEW w, NEW e, Forward(r, w, e), Stage(r) \in Admitted,
         DOMAIN w = Fields, w.stage \in Admitted
  PROVE  StaysAdmitted(r)
  <1>0. PICK told \in BOOLEAN :
          IF Kind(r) = "bridge"
          THEN Converting(r, Observing(w, e, told), ProcessEvent(w.bridge, e))
          ELSE Handling(r, [Observing(w, e, told) EXCEPT !.got = Append(@, e)])
    BY DEF Forward
  <1> DEFINE o == Observing(w, e, told)
  <1>1. DOMAIN o = Fields /\ o.stage \in Admitted BY ObservingFields
  <1>2. CASE Kind(r) = "bridge"
    <2>1. Converting(r, o, ProcessEvent(w.bridge, e)) BY <1>0, <1>2
    <2> HIDE DEF o
    <2>. QED BY <1>1, <2>1, ConvertingStays
  <1>3. CASE Kind(r) # "bridge"
    <2>1. Handling(r, [o EXCEPT !.got = Append(@, e)]) BY <1>0, <1>3
    <2> HIDE DEF o
    <2>2. DOMAIN [o EXCEPT !.got = Append(@, e)] = Fields /\ [o EXCEPT !.got = Append(@, e)].stage = o.stage
      BY <1>1 DEF Fields
    <2>. QED BY <1>1, <2>1, <2>2, HandlingStays
  <1>. QED BY <1>2, <1>3

(* Routing, priming and passing on stay within the admitted stages or end   *)
(* in a record.                                                             *)
LEMMA RouteMoves ==
  ASSUME SInv, NEW r \in Requests, Route(r)
  PROVE  Stage(r) \in Admitted /\ (StaysAdmitted(r) \/ \E outcome : Recorded(r, outcome))
  <1>. DEFINE Goal == Stage(r) \in Admitted /\ (StaysAdmitted(r) \/ \E outcome : Recorded(r, outcome))
  <1>1. DOMAIN work[r] = Fields /\ WorkShape BY DEF SInv, WorkShape
  <1>2. CASE RefuseBody(r) \/ Terminate(r)
    BY <1>2 DEF RefuseBody, Terminate, Admitted
  <1>3. CASE ReadBody(r) \/ Send(r)
    BY <1>1, <1>3, ToFields, HandlingStays DEF ReadBody, Send, Admitted
  <1>4. CASE PassOver(r)
    BY <1>1, <1>4, TryNextFields, HandlingStays DEF PassOver, Admitted
  <1>5. CASE FailTransport(r)
    <2>1. DOMAIN [work[r] EXCEPT !.failures = @ \union {"transport"}] = Fields
      BY <1>1 DEF Fields
    <2>. QED BY <1>5, <2>1, TryNextFields, HandlingStays DEF FailTransport, Admitted
  <1>6. CASE RespondRetryable(r)
    <2>1. DOMAIN [work[r] EXCEPT !.kept = work[r].member] = Fields BY <1>1 DEF Fields
    <2>2. Stage(r) = "sent" BY <1>6 DEF RespondRetryable
    <2>3. CASE LastMember(r)
      BY <1>1, <1>6, <2>2, <2>3, StatusAnswerFields, HandlingStays
         DEF RespondRetryable, Admitted
    <2>4. CASE ~LastMember(r)
      BY <1>6, <2>1, <2>2, <2>4, TryNextFields, HandlingStays
         DEF RespondRetryable, Admitted
    <2>. QED BY <2>3, <2>4
  <1>7. CASE RespondError(r)
    BY <1>1, <1>7, StatusAnswerFields, HandlingStays DEF RespondError, Admitted
  <1>8. CASE Exhaust(r)
    BY <1>1, <1>8, StatusAnswerFields, HandlingStays DEF Exhaust, Admitted
  <1>9. CASE MapNonSuccess(r)
    <2> DEFINE w == [work[r] EXCEPT !.stage = "answered", !.prefix = <<E("failed")>>, !.ended = TRUE]
    <2>1. DOMAIN w = Fields /\ w.stage = "answered" BY <1>1 DEF Fields
    <2>2. Handling(r, w) /\ Stage(r) = "mapping" BY <1>9 DEF MapNonSuccess
    <2> HIDE DEF w
    <2>. QED BY <2>1, <2>2, HandlingStays DEF Admitted
  <1>10. CASE RespondUnusable(r)
    BY <1>1, <1>10, RetryFields, HandlingStays DEF RespondUnusable, Admitted
  <1>11. ASSUME NEW whole \in BOOLEAN, RespondSuccess(r, whole) PROVE Goal
    <2> DEFINE w == [work[r] EXCEPT !.stage = "priming", !.status = "ok", !.whole = whole]
    <2>1. DOMAIN w = Fields /\ w.stage = "priming" BY <1>1 DEF Fields
    <2>2. Handling(r, w) /\ Stage(r) = "sent" BY <1>11 DEF RespondSuccess
    <2> HIDE DEF w
    <2>. QED BY <2>1, <2>2, HandlingStays DEF Admitted
  <1>. QED BY <1>2, <1>3, <1>4, <1>5, <1>6, <1>7, <1>8, <1>9, <1>10, <1>11 DEF Route

LEMMA PrimeMoves == ASSUME SInv, NEW r \in Requests, Prime(r) PROVE StaysAdmitted(r)
  <1>1. DOMAIN work[r] = Fields /\ WorkShape BY DEF SInv, WorkShape
  <1>2. ASSUME NEW e \in BridgeEvents, PrimeEvent(r, e) PROVE StaysAdmitted(r)
    <2>1. Stage(r) = "priming" BY <1>2 DEF PrimeEvent
    <2>2. DOMAIN Buffered(r, e) = Fields /\ Buffered(r, e).stage = "priming" 
      BY <1>1, <2>1, BufferedFields
    <2>. QED
        BY <1>2, <2>1, <2>2, ClassifiedFields, HandlingStays DEF PrimeEvent, Admitted
  <1>3. ASSUME NEW e \in BridgeEvents, Collect(r, e) PROVE StaysAdmitted(r)
    BY <1>1, <1>3, BufferedFields, HandlingStays DEF Collect, Admitted
  <1>4. CASE PrimeEnd(r)
    <2>1. Stage(r) = "priming" BY <1>4 DEF PrimeEnd
    <2>2. DOMAIN [work[r] EXCEPT !.ended = TRUE] = Fields BY <1>1 DEF Fields
    <2>3. PICK w : Handling(r, w) /\ (w = Retry(work[r]) \/ \E e : w = Classified(r, [work[r] EXCEPT !.ended = TRUE], e))
      BY <1>4 DEF PrimeEnd
    <2>. QED
        BY <1>1, <2>1, <2>2, <2>3, RetryFields, ClassifiedFields, HandlingStays
           DEF Admitted
  <1>5. CASE PrimeBreak(r)
    BY <1>1, <1>5, RetryFields, HandlingStays DEF PrimeBreak, Admitted
  <1>6. CASE PrimeLimit(r)
    BY <1>1, <1>6, CommittedFields, HandlingStays DEF PrimeLimit, Admitted
  <1>. QED BY <1>2, <1>3, <1>4, <1>5, <1>6 DEF Prime

LEMMA PollMoves ==
  ASSUME SInv, NEW r \in Requests, Poll(r)
  PROVE  Stage(r) \in Admitted /\ (StaysAdmitted(r) \/ \E outcome : Recorded(r, outcome))
  <1>1. DOMAIN work[r] = Fields BY DEF SInv, WorkShape
  <1>2. Stage(r) = "answered" /\ "answered" \in Admitted
    BY DEF Poll, PollPrefix, PollOutput, PollUpstream, EndUpstream, FailBridge, PollEnd,
           PollError, Polled, Admitted
  <1>3. CASE PollPrefix(r)
    <2>1. DOMAIN [work[r] EXCEPT !.prefix = Tail(@)] = Fields
          /\ [work[r] EXCEPT !.prefix = Tail(@)].stage = "answered"
      BY <1>1, <1>2 DEF Fields, Stage
    <2>. QED BY <1>2, <1>3, <2>1, ForwardStays DEF PollPrefix
  <1>4. ASSUME NEW e \in BridgeEvents, PollUpstream(r, e) PROVE StaysAdmitted(r)
    <2> DEFINE w == [work[r] EXCEPT !.sent = IF Kind(r) = "native" THEN Append(@, e) ELSE @]
    <2>1. DOMAIN w = Fields /\ w.stage = "answered" BY <1>1, <1>2 DEF Fields, Stage
    <2>2. Forward(r, w, e) BY <1>4 DEF PollUpstream
    <2> HIDE DEF w
    <2>. QED BY <1>2, <2>1, <2>2, ForwardStays
  <1>5. CASE EndUpstream(r)
    <2>1. DOMAIN [work[r] EXCEPT !.ended = TRUE] = Fields
          /\ [work[r] EXCEPT !.ended = TRUE].stage = "answered"
      BY <1>1, <1>2 DEF Fields, Stage
    <2>. QED BY <1>2, <1>5, <2>1, HandlingStays DEF EndUpstream
  <1>6. CASE FailBridge(r)
    BY <1>1, <1>2, <1>6, ConvertingStays DEF FailBridge, Stage
  <1>8. CASE PollOutput(r)
    <2> DEFINE w == [work[r] EXCEPT !.out = Tail(@)]
    <2>1. Work(r, w) /\ UNCHANGED <<vars, queued, slots>> BY <1>8 DEF PollOutput
    <2>2. DOMAIN w = Fields /\ w.stage = "answered" BY <1>1, <1>2 DEF Fields, Stage
    <2> HIDE DEF w
    <2>3. Moves(r, "answered") BY <2>1, <2>2, Works
    <2>. QED BY <1>2, <2>1, <2>3 DEF StaysAdmitted
  <1>7. CASE PollEnd(r) \/ PollError(r)
    BY <1>2, <1>7 DEF PollEnd, PollError
  <1>. QED BY <1>2, <1>3, <1>4, <1>5, <1>6, <1>7, <1>8 DEF Poll

-----------------------------------------------------------------------------
(* What every step of a request is to the admission word and the recorder.  *)
Same == UNCHANGED <<vars, queued, slots>>

(* What a request does at the gate and at the recorder.                     *)
LEMMA ReserveDoes ==
  ASSUME SInv, NEW r \in Requests, Reserve(r)
  PROVE  /\ requests[r] = "arrived" /\ Stage(r) = "none" /\ UNCHANGED <<vars, queued>>
         /\ slots > 0 /\ slots' = slots - 1 /\ Moves(r, "reserved")
  BY ToFields, Works DEF Reserve, SInv, WorkShape

LEMMA AdmitReservedDoes ==
  ASSUME SInv, NEW r \in Requests, AdmitReserved(r)
  PROVE  /\ Stage(r) = "reserved" /\ Admit(r) /\ UNCHANGED <<queued, slots>>
         /\ Moves(r, "reading")
  BY ToFields, Works DEF AdmitReserved, SInv, WorkShape

LEMMA UnadmittedDoes ==
  ASSUME SInv, NEW r \in Requests, CompleteUnadmitted(r) \/ LeaveUnadmitted(r)
  PROVE  /\ Stage(r) = "reserved" /\ Refuse(r) /\ Moves(r, "none")
         /\ \/ queued' = queued + 1 /\ slots' = slots
            \/ queued' = queued /\ slots' = slots + 1
  BY FreshShape, Works DEF CompleteUnadmitted, LeaveUnadmitted

LEMMA RecordedDoes ==
  ASSUME SInv, NEW r \in Requests, NEW outcome, Recorded(r, outcome)
  PROVE  UNCHANGED <<vars, slots>> /\ queued' = queued + 1 /\ Moves(r, "ending")
  <1> DEFINE w == [Fresh EXCEPT !.stage = "ending", !.record = outcome, !.usage = work[r].usage]
  <1>1. DOMAIN w = Fields /\ w.stage = "ending" BY FreshShape DEF Fields
  <1>2. Work(r, w) /\ UNCHANGED <<vars, slots>> /\ queued' = queued + 1 BY DEF Recorded
  <1> HIDE DEF w
  <1>. QED BY <1>1, <1>2, Works

LEMMA LeaveDoes ==
  ASSUME SInv, NEW r \in Requests, Leave(r)
  PROVE  \/ Stage(r) = "answered" /\ \E outcome : Recorded(r, outcome)
         \/ /\ Stage(r) \in Admitted /\ End(r) /\ Moves(r, "dropping") /\ UNCHANGED <<queued, slots>>
         \/ /\ Stage(r) = "dropping" /\ Moves(r, "none") /\ UNCHANGED <<vars, queued>>
            /\ slots' = slots + 1
         \/ /\ Stage(r) = "ending" /\ End(r) /\ Moves(r, "none") /\ UNCHANGED <<queued, slots>>
  BY FreshShape, ToFields, Works
     DEF Leave, LeaveBody, LeaveHandler, DropRecording, DropGuard

LEMMA HandleDoes ==
  ASSUME SInv, NEW r \in Requests, Handle(r)
  PROVE  \/ StaysAdmitted(r)
         \/ /\ Stage(r) \in Admitted /\ \E outcome : Recorded(r, outcome)
         \/ /\ Stage(r) \in Admitted /\ End(r) /\ Moves(r, "dropping") /\ UNCHANGED <<queued, slots>>
         \/ /\ Stage(r) = "dropping" /\ Moves(r, "none") /\ UNCHANGED <<vars, queued>>
            /\ slots' = slots + 1
         \/ /\ Stage(r) = "ending" /\ End(r) /\ Moves(r, "none") /\ UNCHANGED <<queued, slots>>
  BY LeaveDoes, RouteMoves, PollMoves, PrimeMoves DEF Handle, Admitted

(* The handlers go through the model server as its admission word says.     *)
LEMMA StepsAreAdmissionSteps == ASSUME SInv, [RequestsNext]_allVars PROVE [Next]_vars
  <1>1. ASSUME NEW r \in Requests, Enter(r) PROVE [Next]_vars
    BY <1>1, ReserveDoes, AdmitReservedDoes, UnadmittedDoes
       DEF Enter, ArriveFresh, TurnAway, Next
  <1>2. ASSUME NEW r \in Requests, Handle(r) PROVE [Next]_vars
    BY <1>2, HandleDoes, RecordedDoes DEF StaysAdmitted, Next
  <1>3. CASE Store BY <1>3 DEF Store
  <1>4. CASE StopServer BY <1>4 DEF StopServer, Next, Own
  <1>5. CASE OwnerStep BY <1>5 DEF OwnerStep, Next, Own
  <1>6. CASE UNCHANGED allVars BY <1>6 DEF allVars
  <1>. QED BY <1>1, <1>2, <1>3, <1>4, <1>5, <1>6 DEF RequestsNext

LEMMA RequestsInitHolds == RequestsInit => SInv
  <1>. SUFFICES ASSUME RequestsInit PROVE SInv OBVIOUS
  <1>1. IInv BY InitInv DEF RequestsInit
  <1>2. WorkShape /\ \A r \in Requests : Stage(r) = "none"
    BY FreshShape DEF RequestsInit, WorkShape, Stage
  <1>3. Holding = {} BY <1>2 DEF Holding, Admitted
  <1>4. PermitsAreKept
    BY <1>3, FS_EmptySet, RequestsAssumption DEF RequestsInit, PermitsAreKept
  <1>5. StagesAreActive
    BY <1>2 DEF RequestsInit, Init, StagesAreActive, Admitted
  <1>6. StoppedIsEmpty BY DEF RequestsInit, Init, StoppedIsEmpty
  <1>. QED BY <1>1, <1>2, <1>4, <1>5, <1>6 DEF SInv

(* A step of the handlers of a request, with what it does to the recorder.  *)
LEMMA MovedKeeps ==
  ASSUME SInv, NEW r \in Requests, NEW stage, Moves(r, stage),
         stage \in Holds \cup {"none", "ending"},
         \/ UNCHANGED vars
         \/ Admit(r) \/ Refuse(r) \/ End(r),
         stage \in Admitted \cup {"ending"} <=> requests'[r] = "active",
         stage = "reserved" => requests'[r] = "arrived",
         requests[r] # "idle" \/ Stage(r) = "dropping",
         slots' \in Nat, queued' \in Nat,
         LET before == IF Stage(r) \in Holds THEN 1 ELSE 0
             after == IF stage \in Holds THEN 1 ELSE 0
         IN  slots' + queued' + after = slots + queued + before
  PROVE  WorkShape' /\ StagesAreActive' /\ PermitsAreKept' /\ StoppedIsEmpty'
  <1>1. \A q \in Requests \ {r} : requests'[q] = requests[q] /\ Stage(q)' = Stage(q)
    BY DEF SInv, IInv, Types, Admit, Refuse, End, Moves, Stage, vars
  <1>2. Stage(r)' = stage BY DEF Moves, Stage
  <1>3. WorkShape' BY DEF SInv, WorkShape, Moves
  <1>4. StagesAreActive' BY <1>1, <1>2 DEF SInv, StagesAreActive
  <1>5. PermitsAreKept'
    BY HoldingMoves, HoldingFinite DEF SInv, PermitsAreKept
  <1>6. StoppedIsEmpty'
    <2>1. owner = "stopped" => \A q \in Requests : requests[q] = "idle" /\ Holding = {}
      BY HoldingFinite, FS_EmptySet, RequestsAssumption
         DEF SInv, StoppedIsEmpty, PermitsAreKept
    <2>2. owner # "stopped" BY <2>1 DEF Holding
    <2>3. owner' # "stopped" BY <2>2 DEF vars, Admit, Refuse, End, NotifyOne
    <2>. QED BY <2>3 DEF StoppedIsEmpty
  <1>. QED BY <1>3, <1>4, <1>5, <1>6

LEMMA RequestsNextHolds == ASSUME SInv, [RequestsNext]_allVars PROVE SInv'
  <1>. DEFINE Rest == WorkShape' /\ StagesAreActive' /\ PermitsAreKept' /\ StoppedIsEmpty'
  <1>1. IInv' BY StepsAreAdmissionSteps, NextInv DEF SInv
  <1>2. slots \in Nat /\ queued \in Nat BY DEF SInv, PermitsAreKept
  <1>3. ASSUME UNCHANGED work PROVE WorkShape' /\ Holding' = Holding
    BY <1>3 DEF SInv, WorkShape, Holding, Stage
  <1>4. ASSUME NEW r \in Requests, Enter(r) PROVE Rest
    <2>1. CASE ArriveFresh(r) \/ TurnAway(r)
      <3>1. UNCHANGED <<work, queued, slots, owner>> /\ owner # "stopped"
        BY <2>1
           DEF ArriveFresh, TurnAway, Arrive, Refuse, streamVars, SInv, StoppedIsEmpty
      <3>2. StagesAreActive'
        BY <2>1, <3>1
           DEF ArriveFresh, TurnAway, Arrive, Refuse, SInv, IInv, Types,
               StagesAreActive, Stage, Admitted
      <3>. QED BY <1>3, <3>1, <3>2 DEF SInv, PermitsAreKept, StoppedIsEmpty
    <2>2. CASE Reserve(r)
      BY <1>2, <2>2, ReserveDoes, MovedKeeps DEF Holds, Admitted, vars
    <2>3. CASE AdmitReserved(r)
      <3>1. requests'[r] = "active" /\ requests[r] = "arrived"
        BY <2>3, AdmitReservedDoes DEF Admit, SInv, IInv, Types
      <3>. QED BY <1>2, <2>3, <3>1, AdmitReservedDoes, MovedKeeps DEF Holds, Admitted
    <2>4. CASE CompleteUnadmitted(r) \/ LeaveUnadmitted(r)
      <3>1. requests'[r] = "idle" /\ requests[r] = "arrived"
        BY <2>4, UnadmittedDoes DEF Refuse, SInv, IInv, Types
      <3>. QED BY <1>2, <2>4, <3>1, UnadmittedDoes, MovedKeeps DEF Holds, Admitted
    <2>. QED BY <1>4, <2>1, <2>2, <2>3, <2>4 DEF Enter
  <1>5. ASSUME NEW r \in Requests, Handle(r) PROVE Rest
    <2>0. Stage(r) \in Admitted \cup {"ending"} => requests[r] = "active"
      BY DEF SInv, StagesAreActive
    <2>1. CASE StaysAdmitted(r)
      <3>1. PICK stage \in Admitted : Moves(r, stage) BY <2>1 DEF StaysAdmitted
      <3>2. UNCHANGED vars /\ requests' = requests /\ UNCHANGED <<queued, slots>>
          BY <2>1 DEF StaysAdmitted, vars
      <3>. QED
          BY <1>2, <2>0, <2>1, <3>1, <3>2, MovedKeeps DEF StaysAdmitted, Holds, Admitted
    <2>2. ASSUME NEW outcome, Stage(r) \in Admitted, Recorded(r, outcome) PROVE Rest
      <3>1. requests' = requests BY <2>2 DEF Recorded, vars
      <3>. QED BY <1>2, <2>0, <2>2, <3>1, RecordedDoes, MovedKeeps DEF Holds, Admitted
    <2>3. CASE Stage(r) \in Admitted /\ End(r) /\ Moves(r, "dropping") /\ UNCHANGED <<queued, slots>>
      <3>1. requests'[r] = "idle" BY <2>3 DEF End, SInv, IInv, Types
      <3>. QED BY <1>2, <2>0, <2>3, <3>1, MovedKeeps DEF Holds, Admitted
    <2>4. CASE /\ Stage(r) = "dropping" /\ Moves(r, "none") /\ UNCHANGED <<vars, queued>>
               /\ slots' = slots + 1
      <3>1. requests'[r] # "active" BY <2>4 DEF vars, SInv, StagesAreActive, Admitted
      <3>. QED BY <1>2, <2>4, <3>1, MovedKeeps DEF Holds, Admitted
    <2>5. CASE Stage(r) = "ending" /\ End(r) /\ Moves(r, "none") /\ UNCHANGED <<queued, slots>>
      <3>1. requests'[r] = "idle" BY <2>5 DEF End, SInv, IInv, Types
      <3>. QED BY <1>2, <2>0, <2>5, <3>1, MovedKeeps DEF Holds, Admitted
    <2>. QED BY <1>5, <2>1, <2>2, <2>3, <2>4, <2>5, HandleDoes
  <1>6. ASSUME work' = work, requests' = requests, slots' \in Nat, queued' \in Nat,
               slots' + queued' = slots + queued, StoppedIsEmpty'
        PROVE  Rest
    <2>1. StagesAreActive' BY <1>6 DEF SInv, StagesAreActive, Stage
    <2>2. PermitsAreKept' BY <1>2, <1>3, <1>6, HoldingFinite DEF SInv, PermitsAreKept
    <2>. QED BY <1>3, <1>6, <2>1, <2>2
  <1>7. CASE Store
    <2>1. /\ work' = work /\ requests' = requests /\ owner' = owner
          /\ slots' \in Nat /\ queued' \in Nat /\ slots' + queued' = slots + queued
      BY <1>2, <1>7 DEF Store, vars
    <2>2. owner # "stopped" BY <1>7 DEF Store, SInv, StoppedIsEmpty
    <2>3. StoppedIsEmpty' BY <2>1, <2>2 DEF StoppedIsEmpty
    <2>. QED BY <1>1, <1>6, <2>1, <2>3 DEF SInv
  <1>8. CASE StopServer
    <2>1. /\ work' = work /\ requests' = requests /\ slots' = slots /\ queued' = queued
          /\ queued = 0 /\ slots = QueueCapacity /\ \A r \in Requests : requests[r] = "idle"
      BY <1>8 DEF StopServer, Stopped, streamVars
    <2>2. StoppedIsEmpty' BY <2>1 DEF StoppedIsEmpty
    <2>. QED BY <1>1, <1>2, <1>6, <2>1, <2>2 DEF SInv
  <1>9. CASE OwnerStep
    <2>1. /\ work' = work /\ requests' = requests /\ slots' = slots /\ queued' = queued
          /\ owner' # "stopped"
      BY <1>9
         DEF OwnerStep, streamVars, TryReserveIdle, BeginDraining, Resume,
             WaitUntilDrained, Check, Await, Commit, Shutdown, Bind
    <2>2. StoppedIsEmpty' BY <2>1 DEF StoppedIsEmpty
    <2>. QED BY <1>1, <1>2, <1>6, <2>1, <2>2 DEF SInv
  <1>10. CASE UNCHANGED allVars
    <2>1. /\ work' = work /\ requests' = requests /\ slots' = slots /\ queued' = queued
          /\ owner' = owner
      BY <1>10 DEF allVars, vars, streamVars
    <2>2. StoppedIsEmpty' BY <2>1 DEF SInv, StoppedIsEmpty
    <2>. QED BY <1>1, <1>2, <1>6, <2>1, <2>2 DEF SInv
  <1>. QED BY <1>1, <1>4, <1>5, <1>7, <1>8, <1>9, <1>10 DEF RequestsNext, SInv

(* A server that is drained has every completion of a request it admitted   *)
(* in its recorder, one that is stopped has stored them all, and no permit  *)
(* is lost: whatever the plans, the responses and the recorder's capacity.  *)
THEOREM RecordsStay == RequestsSpec => []RecordsSurviveStop
  <1>1. SInv => RecordsSurviveStop
    BY DEF SInv, IInv, WordCounts, Closed, Active, StagesAreActive, PermitsAreKept,
           StoppedIsEmpty, RecordsSurviveStop
  <1>. QED BY <1>1, RequestsInitHolds, RequestsNextHolds, PTL DEF RequestsSpec

(* The handlers, with their bodies and records, pass the same gate: nobody  *)
(* is admitted behind a reservation, and no server ends under a request,    *)
(* reserved or only told to.                                                *)
THEOREM RequestsImplementGate == RequestsSpec => ImplementsDrainGate
  <1>1. RequestsInit => Init BY DEF RequestsInit
  <1>2. SInv /\ [RequestsNext]_allVars => [Next]_vars BY StepsAreAdmissionSteps
  <1>3. RequestsSpec => Spec
    BY <1>1, <1>2, RequestsInitHolds, RequestsNextHolds, PTL DEF RequestsSpec, Spec
  <1>. QED BY <1>3, Implementation

-----------------------------------------------------------------------------
(* A native client reads one attempt.  Until a response is looked at the    *)
(* handler holds nothing of any; while it is primed nothing is passed on;   *)
(* and what has been passed on and what is kept are what was sent.          *)
Streamed == {"priming", "answered"}

Aligned(r, w) ==
  /\ w.got \in Seq(BridgeEvents) /\ w.prefix \in Seq(BridgeEvents) /\ w.sent \in Seq(BridgeEvents)
  /\ w.stage \notin Streamed => w.got = <<>> /\ w.prefix = <<>> /\ w.sent = <<>>
  /\ w.stage = "priming" => w.got = <<>>
  /\ w.stage = "mapping" => Plans[r][w.member] = "bridge"
  /\ w.stage \in Streamed /\ Plans[r][w.member] = "native" => w.got \o w.prefix = w.sent

AInv == SInv /\ \A r \in Requests : Aligned(r, work[r])

LEMMA EventsAreEvents ==
  /\ \A e \in BridgeEvents : <<e>> \in Seq(BridgeEvents)
  /\ E("failed") \in BridgeEvents /\ E("garbage") \in BridgeEvents
  /\ <<>> \in Seq(BridgeEvents) /\ <<>> \o <<>> = <<>>
  BY DEF BridgeEvents, E

(* What the updates of a request's work keep of that.                       *)
LEMMA FreshAligned ==
  ASSUME NEW r \in Requests, NEW stage \in {"none", "ending", "dropping"}, NEW outcome, NEW usage
  PROVE  /\ Aligned(r, Fresh) /\ Aligned(r, To(Fresh, stage))
         /\ Aligned(r, [Fresh EXCEPT !.stage = "ending", !.record = outcome, !.usage = usage])
  BY DEF Aligned, Fresh, To, Streamed

LEMMA TryNextAligned ==
  ASSUME NEW r \in Requests, NEW w, DOMAIN w = Fields,
         w.got = <<>>, w.prefix = <<>>, w.sent = <<>>
  PROVE  Aligned(r, TryNext(w))
  <1> DEFINE t == TryNext(w)
  <1>1. t.stage = "routing" /\ t.got = <<>> /\ t.prefix = <<>> /\ t.sent = <<>>
    BY DEF TryNext, Fields
  <1> HIDE DEF t
  <1>2. Aligned(r, t) BY <1>1, EventsAreEvents DEF Aligned, Streamed
  <1>. QED BY <1>2 DEF t

LEMMA RetryAligned ==
  ASSUME NEW r \in Requests, NEW w, DOMAIN w = Fields, w.got = <<>>
  PROVE  Aligned(r, Retry(w))
  <1> DEFINE t == Retry(w)
  <1>1. t.stage = "routing" /\ t.got = <<>> /\ t.prefix = <<>> /\ t.sent = <<>>
    BY DEF Retry, Fields
  <1> HIDE DEF t
  <1>2. Aligned(r, t) BY <1>1, EventsAreEvents DEF Aligned, Streamed
  <1>. QED BY <1>2 DEF t

LEMMA StatusAnswerAligned ==
  ASSUME NEW r \in Requests, NEW m, WorkShape, Aligned(r, work[r]), Stage(r) \notin Streamed
  PROVE  Aligned(r, StatusAnswer(r, m))
  <1> DEFINE w == StatusAnswer(r, m)
  <1>1. /\ w.got = work[r].got /\ w.prefix = work[r].prefix /\ w.sent = work[r].sent
        /\ w.member = m
    BY DEF StatusAnswer, WorkShape, Fields
  <1>2. w.stage = IF Plans[r][m] = "bridge" THEN "mapping" ELSE "answered"
    BY StatusAnswerFields
  <1>3. w.got = <<>> /\ w.prefix = <<>> /\ w.sent = <<>> BY <1>1 DEF Aligned, Stage
  <1> HIDE DEF w
  <1>4. Aligned(r, w) BY <1>1, <1>2, <1>3, EventsAreEvents DEF Aligned, Streamed
  <1>. QED BY <1>4 DEF w

(* The event that is looked at while priming is kept as it was sent.        *)
LEMMA BufferedAligned ==
  ASSUME NEW r \in Requests, NEW e \in BridgeEvents, WorkShape, Aligned(r, work[r]),
         Stage(r) = "priming"
  PROVE  Aligned(r, Buffered(r, e)) /\ Buffered(r, e).got = <<>> 
         /\ Buffered(r, e).member = work[r].member
  <1> DEFINE w == Buffered(r, e)
  <1>1. /\ w.got = work[r].got /\ w.member = work[r].member /\ w.stage = work[r].stage
        /\ w.prefix = Append(work[r].prefix, e)
        /\ w.sent = IF Kind(r) = "native" THEN Append(work[r].sent, e) ELSE work[r].sent
    BY DEF Buffered, WorkShape, Fields
  <1>2. work[r].got = <<>> BY DEF Aligned, Stage
  <1>3. w.prefix \in Seq(BridgeEvents) /\ w.sent \in Seq(BridgeEvents)
    BY <1>1 DEF Aligned
  <1>4. Kind(r) = "native" => <<>> \o w.prefix = w.sent
    BY <1>1, <1>2 DEF Aligned, Kind, Stage, Streamed
  <1>5. w.stage = "priming" /\ w.got = <<>> BY <1>1, <1>2 DEF Stage
  <1>6. Plans[r][w.member] = Kind(r) BY <1>1 DEF Kind
  <1> HIDE DEF w
  <1>7. Aligned(r, w) BY <1>3, <1>4, <1>5, <1>6, EventsAreEvents DEF Aligned, Streamed
  <1>. QED BY <1>1, <1>5, <1>7 DEF w

LEMMA CommittedAligned ==
  ASSUME NEW r \in Requests, NEW w, DOMAIN w = Fields, Aligned(r, w), w.stage = "priming",
         w.member = work[r].member
  PROVE  Aligned(r, Committed(r, w)) /\ Aligned(r, CommittedFailure(r, w))
  <1> DEFINE c == Committed(r, w)
             f == CommittedFailure(r, w)
  <1>1. /\ c.stage = "answered" /\ c.got = w.got /\ c.sent = w.sent /\ c.member = w.member
        /\ c.prefix = IF w.whole /\ Kind(r) = "bridge" THEN <<E("garbage")>> ELSE w.prefix
        /\ DOMAIN c = Fields
    BY DEF Committed, Fields
  <1>2. Aligned(r, c)
    <2> HIDE DEF c
    <2>. QED BY <1>1, EventsAreEvents DEF Aligned, Kind, Streamed
  <1>3. /\ f.stage = c.stage /\ f.got = c.got /\ f.sent = c.sent /\ f.member = c.member
        /\ f.prefix = c.prefix
    <2>1. f = [c EXCEPT !.semantic = TRUE] BY DEF CommittedFailure
    <2> HIDE DEF c, f
    <2>. QED BY <1>1, <2>1 DEF Fields
  <1>4. Aligned(r, f)
    <2> HIDE DEF c, f
    <2>. QED BY <1>2, <1>3 DEF Aligned
  <1>. QED BY <1>2, <1>4

LEMMA ClassifiedAligned ==
  ASSUME NEW r \in Requests, NEW w, NEW e, DOMAIN w = Fields, Aligned(r, w), w.stage = "priming",
         w.member = work[r].member
  PROVE  Aligned(r, Classified(r, w, e))
  <1>1. w.got = <<>> BY DEF Aligned
  <1>2. Classified(r, w, e) \in {Retry(w), Committed(r, w), CommittedFailure(r, w)}
    BY DEF Classified
  <1>. QED BY <1>1, <1>2, RetryAligned, CommittedAligned

LEMMA HandlingIs ==
  ASSUME SInv, NEW r \in Requests, NEW w, Handling(r, w)
  PROVE  work'[r] = w
  BY DEF SInv, WorkShape, Handling, Work

LEMMA RecordedAligned ==
  ASSUME SInv, NEW r \in Requests, NEW outcome, Recorded(r, outcome)
  PROVE  Aligned(r, work'[r])
  <1> DEFINE w == [Fresh EXCEPT !.stage = "ending", !.record = outcome, !.usage = work[r].usage]
  <1>1. Aligned(r, w) BY FreshAligned
  <1>2. Work(r, w) BY DEF Recorded
  <1> HIDE DEF w
  <1>3. work'[r] = w BY <1>2 DEF SInv, WorkShape, Work
  <1>. QED BY <1>1, <1>3

(* What the handlers and the bodies keep of it.                             *)
LEMMA RouteAligned == ASSUME AInv, NEW r \in Requests, Route(r) PROVE Aligned(r, work'[r])
  <1>1. SInv /\ DOMAIN work[r] = Fields /\ WorkShape /\ Aligned(r, work[r])
    BY DEF AInv, SInv, WorkShape
  <1>2. CASE RefuseBody(r) \/ Terminate(r)
    BY <1>1, <1>2, RecordedAligned DEF RefuseBody, Terminate
  <1>3. Stage(r) \notin Streamed =>
          work[r].got = <<>> /\ work[r].prefix = <<>> /\ work[r].sent = <<>>
    BY <1>1 DEF Aligned, Stage
  <1>4. CASE ReadBody(r) \/ Send(r)
    <2>1. PICK stage \in {"routing", "sent"} : Handling(r, To(work[r], stage)) /\ Stage(r) \notin Streamed
      BY <1>4 DEF ReadBody, Send, Streamed
    <2> DEFINE w == To(work[r], stage)
    <2>2. w.stage = stage /\ w.got = work[r].got /\ w.prefix = work[r].prefix /\ w.sent = work[r].sent
      BY <1>1 DEF To, Fields
    <2>3. work'[r] = w BY <1>1, <2>1, HandlingIs
    <2> HIDE DEF w
    <2>. QED BY <1>3, <2>1, <2>2, <2>3, EventsAreEvents DEF Aligned, Streamed
  <1>5. CASE PassOver(r)
    BY <1>1, <1>3, <1>5, HandlingIs, TryNextAligned DEF PassOver, Streamed
  <1>6. CASE FailTransport(r)
    <2> DEFINE w == [work[r] EXCEPT !.failures = @ \union {"transport"}]
    <2>1. /\ DOMAIN w = Fields /\ w.got = work[r].got /\ w.prefix = work[r].prefix
          /\ w.sent = work[r].sent
      BY <1>1 DEF Fields
    <2>2. Handling(r, TryNext(w)) /\ Stage(r) = "sent" BY <1>6 DEF FailTransport
    <2> HIDE DEF w
    <2>. QED BY <1>1, <1>3, <2>1, <2>2, HandlingIs, TryNextAligned DEF Streamed
  <1>7. CASE RespondRetryable(r)
    <2> DEFINE w == [work[r] EXCEPT !.kept = work[r].member]
    <2>1. /\ DOMAIN w = Fields /\ w.got = work[r].got /\ w.prefix = work[r].prefix
          /\ w.sent = work[r].sent
      BY <1>1 DEF Fields
    <2>2. \/ Handling(r, TryNext(w))
          \/ Handling(r, StatusAnswer(r, work[r].member))
      BY <1>7 DEF RespondRetryable
    <2>3. Stage(r) = "sent" BY <1>7 DEF RespondRetryable
    <2> HIDE DEF w
    <2>. QED
        BY <1>1, <1>3, <2>1, <2>2, <2>3, HandlingIs, TryNextAligned, StatusAnswerAligned
           DEF Streamed
  <1>8. CASE RespondError(r)
    BY <1>1, <1>8, HandlingIs, StatusAnswerAligned DEF RespondError, Streamed
  <1>9. CASE Exhaust(r)
    BY <1>1, <1>9, HandlingIs, StatusAnswerAligned, RecordedAligned
       DEF Exhaust, Streamed
  <1>10. CASE MapNonSuccess(r)
    <2> DEFINE w == [work[r] EXCEPT !.stage = "answered", !.prefix = <<E("failed")>>, !.ended = TRUE]
    <2>1. /\ w.stage = "answered" /\ w.got = work[r].got /\ w.prefix = <<E("failed")>>
          /\ w.sent = work[r].sent /\ w.member = work[r].member
      BY <1>1 DEF Fields
    <2>2. Handling(r, w) /\ Stage(r) = "mapping" BY <1>10 DEF MapNonSuccess
    <2>3. work'[r] = w BY <1>1, <2>2, HandlingIs
    <2> HIDE DEF w
    <2>. QED BY <1>1, <2>1, <2>2, <2>3, EventsAreEvents DEF Aligned, Streamed, Stage
  <1>11. CASE RespondUnusable(r)
    BY <1>1, <1>3, <1>11, HandlingIs, RetryAligned DEF RespondUnusable, Streamed
  <1>12. ASSUME NEW whole \in BOOLEAN, RespondSuccess(r, whole) PROVE Aligned(r, work'[r])
    <2> DEFINE w == [work[r] EXCEPT !.stage = "priming", !.status = "ok", !.whole = whole]
    <2>1. /\ w.stage = "priming" /\ w.got = work[r].got /\ w.prefix = work[r].prefix
          /\ w.sent = work[r].sent
      BY <1>1 DEF Fields
    <2>2. Handling(r, w) /\ Stage(r) = "sent" BY <1>12 DEF RespondSuccess
    <2>3. work'[r] = w BY <1>1, <2>2, HandlingIs
    <2> HIDE DEF w
    <2>. QED BY <1>3, <2>1, <2>2, <2>3, EventsAreEvents DEF Aligned, Streamed
  <1>. QED BY <1>2, <1>4, <1>5, <1>6, <1>7, <1>8, <1>9, <1>10, <1>11, <1>12 DEF Route

LEMMA PrimeAligned == ASSUME AInv, NEW r \in Requests, Prime(r) PROVE Aligned(r, work'[r])
  <1>1. SInv /\ DOMAIN work[r] = Fields /\ WorkShape /\ Aligned(r, work[r])
    BY DEF AInv, SInv, WorkShape
  <1>2. Stage(r) = "priming" /\ work[r].stage = "priming" /\ work[r].got = <<>>
    BY <1>1
       DEF Prime, PrimeEvent, Collect, PrimeEnd, PrimeBreak, PrimeLimit, Aligned, Stage
  <1>3. ASSUME NEW e \in BridgeEvents, PrimeEvent(r, e) \/ Collect(r, e)
        PROVE  Aligned(r, work'[r])
    <2>1. /\ Aligned(r, Buffered(r, e)) /\ DOMAIN Buffered(r, e) = Fields
          /\ Buffered(r, e).stage = "priming" /\ Buffered(r, e).member = work[r].member
      BY <1>1, <1>2, BufferedAligned, BufferedFields
    <2>2. Aligned(r, Classified(r, Buffered(r, e), e)) BY <2>1, ClassifiedAligned
    <2>. QED BY <1>1, <1>3, <2>1, <2>2, HandlingIs DEF PrimeEvent, Collect
  <1>4. CASE PrimeEnd(r)
    <2> DEFINE w == [work[r] EXCEPT !.ended = TRUE]
    <2>1. /\ DOMAIN w = Fields /\ w.stage = "priming" /\ w.got = work[r].got
          /\ w.prefix = work[r].prefix /\ w.sent = work[r].sent /\ w.member = work[r].member
      BY <1>1, <1>2 DEF Fields
    <2>2. \/ \E e : Handling(r, Classified(r, w, e))
          \/ Handling(r, Retry(work[r]))
      BY <1>4 DEF PrimeEnd
    <2> HIDE DEF w
    <2>3. Aligned(r, w) BY <1>1, <1>2, <2>1 DEF Aligned
    <2>. QED
        BY <1>1, <1>2, <2>1, <2>2, <2>3, HandlingIs, ClassifiedAligned, RetryAligned
  <1>5. CASE PrimeBreak(r)
    BY <1>1, <1>2, <1>5, HandlingIs, RetryAligned DEF PrimeBreak
  <1>6. CASE PrimeLimit(r)
    BY <1>1, <1>2, <1>6, HandlingIs, CommittedAligned DEF PrimeLimit
  <1>. QED BY <1>3, <1>4, <1>5, <1>6 DEF Prime

(* Passing an event on moves it from what is kept to what was read.         *)
LEMMA PassingOn ==
  ASSUME NEW S, NEW g \in Seq(S), NEW p \in Seq(S), p # <<>>
  PROVE  /\ Head(p) \in S /\ Tail(p) \in Seq(S)
         /\ Append(g, Head(p)) \o Tail(p) = g \o p
  OBVIOUS

LEMMA PassingThrough ==
  ASSUME NEW S, NEW g \in Seq(S), NEW e \in S
  PROVE  Append(g, e) \in Seq(S) /\ Append(g, e) \o <<>> = Append(g, e) /\ g \o <<>> = g
  OBVIOUS

(* Nothing is claimed of a body that the bridge converts.                   *)
LEMMA ConvertingAligned ==
  ASSUME SInv, NEW r \in Requests, NEW w, NEW converted, Converting(r, w, converted),
         Kind(r) = "bridge", DOMAIN w = Fields, Aligned(r, w), w.stage = "answered",
         w.member = work[r].member
  PROVE  Aligned(r, work'[r])
  <1> DEFINE c == [w EXCEPT !.bridge = converted.bridge, !.out = converted.out]
  <1>1. /\ c.stage = w.stage /\ c.got = w.got /\ c.prefix = w.prefix /\ c.sent = w.sent
        /\ c.member = w.member
    BY DEF Fields
  <1>2. work'[r] = c BY HandlingIs DEF Converting
  <1> HIDE DEF c
  <1>. QED BY <1>1, <1>2 DEF Aligned

(* An event is passed on; prefix and sent are what they are behind it.      *)
LEMMA ForwardAligned ==
  ASSUME SInv, NEW r \in Requests, NEW w, NEW e \in BridgeEvents, Forward(r, w, e),
         DOMAIN w = Fields, w.stage = "answered", w.member = work[r].member,
         w.got \in Seq(BridgeEvents), w.prefix \in Seq(BridgeEvents), w.sent \in Seq(BridgeEvents),
         Kind(r) = "native" => Append(w.got, e) \o w.prefix = w.sent
  PROVE  Aligned(r, work'[r])
  <1>0. PICK told \in BOOLEAN :
          IF Kind(r) = "bridge"
          THEN Converting(r, Observing(w, e, told), ProcessEvent(w.bridge, e))
          ELSE Handling(r, [Observing(w, e, told) EXCEPT !.got = Append(@, e)])
    BY DEF Forward
  <1> DEFINE o == Observing(w, e, told)
  <1>1. /\ o.stage = "answered" /\ o.got = w.got /\ o.prefix = w.prefix /\ o.sent = w.sent
        /\ o.member = w.member /\ DOMAIN o = Fields
    BY DEF Observing, Fields
  <1>2. CASE Kind(r) = "bridge"
    <2>1. Converting(r, o, ProcessEvent(w.bridge, e)) BY <1>0, <1>2
    <2> HIDE DEF o
    <2>2. Aligned(r, o) BY <1>1, <1>2 DEF Aligned, Streamed, Kind
    <2>. QED BY <1>1, <1>2, <2>1, <2>2, ConvertingAligned
  <1>3. CASE Kind(r) # "bridge"
    <2> DEFINE f == [o EXCEPT !.got = Append(@, e)]
    <2>1. Handling(r, f) BY <1>0, <1>3
    <2> HIDE DEF o
    <2>2. /\ f.stage = "answered" /\ f.got = Append(w.got, e) /\ f.prefix = w.prefix
          /\ f.sent = w.sent /\ f.member = work[r].member
      BY <1>1 DEF Fields
    <2>3. work'[r] = f BY <2>1, HandlingIs
    <2> HIDE DEF f
    <2>4. Append(w.got, e) \in Seq(BridgeEvents) BY PassingThrough
    <2>. QED BY <2>2, <2>3, <2>4 DEF Aligned, Streamed, Kind
  <1>. QED BY <1>2, <1>3

LEMMA PollAligned == ASSUME AInv, NEW r \in Requests, Poll(r) PROVE Aligned(r, work'[r])
  <1>1. SInv /\ DOMAIN work[r] = Fields /\ WorkShape /\ Aligned(r, work[r])
    BY DEF AInv, SInv, WorkShape
  <1>2. Stage(r) = "answered" /\ work[r].stage = "answered"
    BY DEF Poll, PollPrefix, PollOutput, PollUpstream, EndUpstream, FailBridge, PollEnd,
           PollError, Polled, Stage
  <1>3. /\ work[r].got \in Seq(BridgeEvents) /\ work[r].prefix \in Seq(BridgeEvents)
        /\ work[r].sent \in Seq(BridgeEvents)
        /\ Kind(r) = "native" => work[r].got \o work[r].prefix = work[r].sent
    BY <1>1, <1>2 DEF Aligned, Streamed, Kind
  <1>4. CASE PollPrefix(r)
    <2> DEFINE w == [work[r] EXCEPT !.prefix = Tail(@)]
    <2>1. /\ DOMAIN w = Fields /\ w.stage = "answered" /\ w.got = work[r].got
          /\ w.prefix = Tail(work[r].prefix) /\ w.sent = work[r].sent /\ w.member = work[r].member
      BY <1>1, <1>2 DEF Fields
    <2>2. Forward(r, w, Head(work[r].prefix)) /\ work[r].prefix # <<>>
        BY <1>4 DEF PollPrefix
    <2> HIDE DEF w
    <2>3. /\ Head(work[r].prefix) \in BridgeEvents /\ w.prefix \in Seq(BridgeEvents)
          /\ Append(w.got, Head(work[r].prefix)) \o w.prefix = work[r].got \o work[r].prefix
      <3> DEFINE g == work[r].got
                 p == work[r].prefix
      <3>1. g \in Seq(BridgeEvents) /\ p \in Seq(BridgeEvents) /\ p # <<>> BY <1>3, <2>2
      <3> HIDE DEF g, p
      <3>2. Head(p) \in BridgeEvents /\ Tail(p) \in Seq(BridgeEvents) /\ Append(g, Head(p)) \o Tail(p) = g \o p
        BY <3>1, PassingOn
      <3>. QED BY <2>1, <3>2 DEF g, p
    <2>. QED BY <1>1, <1>3, <2>1, <2>2, <2>3, ForwardAligned
  <1>5. ASSUME NEW e \in BridgeEvents, PollUpstream(r, e) PROVE Aligned(r, work'[r])
    <2> DEFINE w == [work[r] EXCEPT !.sent = IF Kind(r) = "native" THEN Append(@, e) ELSE @]
    <2>1. /\ DOMAIN w = Fields /\ w.stage = "answered" /\ w.got = work[r].got
          /\ w.prefix = work[r].prefix /\ w.member = work[r].member
          /\ w.sent = IF Kind(r) = "native" THEN Append(work[r].sent, e) ELSE work[r].sent
      BY <1>1, <1>2 DEF Fields
    <2>2. Forward(r, w, e) /\ work[r].prefix = <<>> BY <1>5 DEF PollUpstream
    <2> HIDE DEF w
    <2>3. /\ w.sent \in Seq(BridgeEvents)
          /\ Kind(r) = "native" => Append(w.got, e) \o w.prefix = w.sent
      BY <1>3, <2>1, <2>2, PassingThrough
    <2>. QED BY <1>1, <1>3, <2>1, <2>2, <2>3, ForwardAligned
  <1>6. CASE EndUpstream(r)
    <2> DEFINE w == [work[r] EXCEPT !.ended = TRUE]
    <2>1. /\ w.stage = "answered" /\ w.got = work[r].got /\ w.prefix = work[r].prefix
          /\ w.sent = work[r].sent /\ w.member = work[r].member
      BY <1>1, <1>2 DEF Fields
    <2>2. Handling(r, w) BY <1>6 DEF EndUpstream
    <2>3. work'[r] = w BY <1>1, <2>2, HandlingIs
    <2> HIDE DEF w
    <2>. QED BY <1>1, <1>2, <2>1, <2>3 DEF Aligned
  <1>7. CASE FailBridge(r)
    BY <1>1, <1>2, <1>7, ConvertingAligned DEF FailBridge
  <1>8. CASE PollEnd(r) \/ PollError(r)
    BY <1>1, <1>8, RecordedAligned DEF PollEnd, PollError
  <1>9. CASE PollOutput(r)
    <2> DEFINE w == [work[r] EXCEPT !.out = Tail(@)]
    <2>1. /\ w.stage = "answered" /\ w.got = work[r].got /\ w.prefix = work[r].prefix
          /\ w.sent = work[r].sent /\ w.member = work[r].member
      BY <1>1, <1>2 DEF Fields
    <2>2. Work(r, w) BY <1>9 DEF PollOutput
    <2>3. work'[r] = w BY <1>1, <2>2 DEF Work, WorkShape
    <2> HIDE DEF w
    <2>. QED BY <1>1, <1>2, <2>1, <2>3 DEF Aligned
  <1>. QED BY <1>4, <1>5, <1>6, <1>7, <1>8, <1>9 DEF Poll

LEMMA EnterAligned == ASSUME AInv, NEW r \in Requests, Enter(r) PROVE Aligned(r, work'[r])
  <1>1. SInv /\ DOMAIN work[r] = Fields /\ r \in DOMAIN work /\ Aligned(r, work[r])
    BY DEF AInv, SInv, WorkShape
  <1>2. CASE ArriveFresh(r) \/ TurnAway(r)
    BY <1>1, <1>2 DEF ArriveFresh, TurnAway, streamVars
  <1>3. CASE CompleteUnadmitted(r) \/ LeaveUnadmitted(r)
    BY <1>1, <1>3, FreshAligned DEF CompleteUnadmitted, LeaveUnadmitted, Work
  <1>4. CASE Reserve(r) \/ AdmitReserved(r)
    <2>1. PICK stage \in {"reserved", "reading"} : Work(r, To(work[r], stage))
      BY <1>4 DEF Reserve, AdmitReserved
    <2>2. Stage(r) \notin Streamed BY <1>4 DEF Reserve, AdmitReserved, Streamed
    <2> DEFINE w == To(work[r], stage)
    <2>3. w.stage = stage /\ w.got = work[r].got /\ w.prefix = work[r].prefix /\ w.sent = work[r].sent
      BY <1>1 DEF To, Fields
    <2>4. work'[r] = w BY <1>1, <2>1 DEF Work
    <2> HIDE DEF w
    <2>. QED BY <1>1, <2>2, <2>3, <2>4, EventsAreEvents DEF Aligned, Streamed, Stage
  <1>. QED BY <1>2, <1>3, <1>4 DEF Enter

LEMMA LeaveAligned == ASSUME AInv, NEW r \in Requests, Leave(r) PROVE Aligned(r, work'[r])
  <1>1. SInv /\ r \in DOMAIN work BY DEF AInv, SInv, WorkShape
  <1>2. CASE LeaveBody(r) BY <1>1, <1>2, RecordedAligned DEF LeaveBody
  <1>3. CASE LeaveHandler(r) \/ DropRecording(r) \/ DropGuard(r)
    BY <1>1, <1>3, FreshAligned DEF LeaveHandler, DropRecording, DropGuard, Work
  <1>. QED BY <1>2, <1>3 DEF Leave

LEMMA NextAligned == ASSUME AInv, [RequestsNext]_allVars PROVE AInv'
  <1>1. SInv /\ SInv' BY RequestsNextHolds DEF AInv
  <1>2. CASE work' = work BY <1>1, <1>2 DEF AInv
  <1>3. ASSUME NEW r \in Requests, Enter(r) \/ Handle(r) PROVE AInv'
    <2>1. Aligned(r, work'[r])
      BY <1>3, EnterAligned, RouteAligned, PrimeAligned, PollAligned, LeaveAligned
         DEF Handle
    <2>2. \A q \in Requests \ {r} : work'[q] = work[q]
      BY <1>1, <1>3, ReserveDoes, AdmitReservedDoes, UnadmittedDoes, HandleDoes,
         RecordedDoes
         DEF Enter, ArriveFresh, TurnAway, streamVars, StaysAdmitted, Moves
    <2>. QED BY <1>1, <2>1, <2>2 DEF AInv
  <1>4. Store \/ StopServer \/ OwnerStep \/ UNCHANGED allVars => work' = work
    BY DEF Store, StopServer, OwnerStep, streamVars, allVars
  <1>. QED BY <1>2, <1>3, <1>4 DEF RequestsNext

(* A client of a native member gets what that member sent, from its first   *)
(* event on, and nothing of the attempts that were given up before it.      *)
THEOREM AnswersAreOneAttempt == RequestsSpec => []AnswerIsOneAttempt
  <1>1. RequestsInit => AInv
    BY RequestsInitHolds, FreshAligned DEF RequestsInit, AInv
  <1>2. AInv => AnswerIsOneAttempt
    BY DEF AInv, Aligned, AnswerIsOneAttempt, Streamed, Kind, Stage
  <1>. QED BY <1>1, <1>2, NextAligned, PTL DEF RequestsSpec

-----------------------------------------------------------------------------
(* What a client has read that reads w and then what is still queued.       *)
ReadAll(w, out) ==
  LET read[n \in 0 .. Len(out)] == IF n = 0 THEN w ELSE Read(read[n - 1], out[n])
  IN  read[Len(out)]

(* At most three events are written for one that arrives.                   *)
LEMMA ReadAllIs ==
  ASSUME NEW w, NEW out, Len(out) \in {0, 1, 2, 3}
  PROVE  /\ Len(out) = 0 => ReadAll(w, out) = w
         /\ Len(out) = 1 => ReadAll(w, out) = Read(w, out[1])
         /\ Len(out) = 2 => ReadAll(w, out) = Read(Read(w, out[1]), out[2])
         /\ Len(out) = 3 => ReadAll(w, out) = Read(Read(Read(w, out[1]), out[2]), out[3])
  <1> DEFINE one == Read(w, out[1])
             two == Read(one, out[2])
             three == Read(two, out[3])
             at(n) == CASE n = 0 -> w [] n = 1 -> one [] n = 2 -> two [] n = 3 -> three
             told == [n \in 0 .. Len(out) |-> at(n)]
             Rec(f) == f = [n \in 0 .. Len(out) |-> IF n = 0 THEN w ELSE Read(f[n - 1], out[n])]
             read == CHOOSE f : Rec(f)
  <1>1. ReadAll(w, out) = read[Len(out)] BY DEF ReadAll
  <1>2. Rec(told)
    <2>1. told[0] = w OBVIOUS
    <2>2. Len(out) >= 1 => told[1] = Read(told[0], out[1]) OBVIOUS
    <2>3. Len(out) >= 2 => told[2] = Read(told[1], out[2]) OBVIOUS
    <2>4. Len(out) >= 3 => told[3] = Read(told[2], out[3]) OBVIOUS
    <2>5. \A n \in 0 .. Len(out) : told[n] = IF n = 0 THEN w ELSE Read(told[n - 1], out[n])
      <3> HIDE DEF told
      <3>. QED BY <2>1, <2>2, <2>3, <2>4
    <2>6. told = [n \in 0 .. Len(out) |-> told[n]]
      <3> HIDE DEF at
      <3>. QED OBVIOUS
    <2> HIDE DEF told
    <2>. QED BY <2>5, <2>6
  <1>3. Rec(read)
    <2> HIDE DEF Rec, told
    <2>. QED BY <1>2
  <1> HIDE DEF read
  <1>4. \A n \in 0 .. Len(out) : read[n] = IF n = 0 THEN w ELSE Read(read[n - 1], out[n])
    BY <1>3
  <1> HIDE DEF Rec
  <1>. QED BY <1>1, <1>4

LEMMA ReadNothing == ASSUME NEW w PROVE ReadAll(w, <<>>) = w
  <1>1. Len(<<>>) = 0 OBVIOUS
  <1>. QED BY <1>1, ReadAllIs

LEMMA ReadOne == ASSUME NEW w, NEW a PROVE ReadAll(w, <<a>>) = Read(w, a)
  <1>1. Len(<<a>>) = 1 /\ <<a>>[1] = a OBVIOUS
  <1>2. ReadAll(w, <<a>>) = Read(w, <<a>>[1]) BY <1>1, ReadAllIs
  <1>. QED BY <1>1, <1>2

LEMMA ReadTwo ==
  ASSUME NEW w, NEW a, NEW b
  PROVE  ReadAll(w, <<a, b>>) = Read(Read(w, a), b)
  <1>1. Len(<<a, b>>) = 2 /\ <<a, b>>[1] = a /\ <<a, b>>[2] = b OBVIOUS
  <1>2. ReadAll(w, <<a, b>>) = Read(Read(w, <<a, b>>[1]), <<a, b>>[2])
    BY <1>1, ReadAllIs
  <1>. QED BY <1>1, <1>2

LEMMA ReadThree ==
  ASSUME NEW w, NEW a, NEW b, NEW c
  PROVE  ReadAll(w, <<a, b, c>>) = Read(Read(Read(w, a), b), c)
  <1>1. /\ Len(<<a, b, c>>) = 3
        /\ <<a, b, c>>[1] = a /\ <<a, b, c>>[2] = b /\ <<a, b, c>>[3] = c
    OBVIOUS
  <1>2. ReadAll(w, <<a, b, c>>)
          = Read(Read(Read(w, <<a, b, c>>[1]), <<a, b, c>>[2]), <<a, b, c>>[3])
    BY <1>1, ReadAllIs
  <1>. QED BY <1>1, <1>2

LEMMA Fewest ==
  ASSUME NEW x
  PROVE  SetToSeq({}) = <<>> /\ SetToSeq({x}) = <<x>>
  <1>1. Cardinality({}) = 0 /\ Cardinality({x}) = 1 BY FS_EmptySet, FS_Singleton
  <1>2. SetToSeq({}) = <<>>
    <2>1. <<>> \in [1 .. 0 -> {}] /\ IsInjective(<<>>) BY DEF IsInjective
    <2>2. \A f \in [1 .. 0 -> {}] : f = <<>> OBVIOUS
    <2>. QED BY <1>1, <2>1, <2>2 DEF SetToSeq
  <1>3. SetToSeq({x}) = <<x>>
    <2>1. <<x>> \in [1 .. 1 -> {x}] /\ IsInjective(<<x>>) BY DEF IsInjective
    <2>2. \A f \in [1 .. 1 -> {x}] : f = <<x>> OBVIOUS
    <2>. QED BY <1>1, <2>1, <2>2 DEF SetToSeq
  <1>. QED BY <1>2, <1>3
-----------------------------------------------------------------------------
(* The bridge and the reader of what it writes.  While a message is open,   *)
(* the blocks its reader has open are those the bridge keeps, each under an *)
(* index of its own that was given out; a reasoning block that is not open  *)
(* yet has an index nobody was told.                                        *)
Names == [index : Nat, block : {"text", "tool_use", "thinking"}]
Wires == [phase : {"silent", "open", "told", "stopped", "errored", "garbled"},
          open : SUBSET Names, used : SUBSET Names]

Bridges ==
  [started : BOOLEAN, next_index : Nat, text : SUBSET Nat,
   tools : SUBSET [item : Items, index : Nat, had_delta : BOOLEAN],
   reasoning : SUBSET [item : Items, index : Nat, open : BOOLEAN],
   has_tool_use : BOOLEAN, terminated : BOOLEAN]

Named(i, block) == [index |-> i, block |-> block]

Blocks(c) ==
  {Named(i, "text") : i \in c.text}
    \union {Named(b.index, "tool_use") : b \in c.tools}
    \union {Named(b.index, "thinking") : b \in {x \in c.reasoning : x.open}}

IndexesAreOwn(c) ==
  /\ \A i, j \in c.text : i = j
  /\ \A a, b \in c.tools : a.item = b.item \/ a.index = b.index => a = b
  /\ \A a, b \in c.reasoning : a.item = b.item \/ a.index = b.index => a = b
  /\ \A i \in c.text : /\ i < c.next_index
                       /\ \A b \in c.tools \union c.reasoning : b.index # i
  /\ \A a \in c.tools : a.index < c.next_index /\ \A b \in c.reasoning : b.index # a.index
  /\ \A b \in c.reasoning : b.index < c.next_index

IndexesAreTold(c, used) ==
  /\ \A b \in used : /\ b.index < c.next_index
                     /\ \A x \in c.reasoning : ~x.open => x.index # b.index
  /\ c.has_tool_use => \E b \in used : b.block = "tool_use"

Open(c, v) ==
  /\ v.phase = "open" /\ v.open = Blocks(c)
  /\ IndexesAreOwn(c) /\ IndexesAreTold(c, v.used)

Reads(c, v) ==
  /\ c \in Bridges /\ v \in Wires
  /\ c.terminated => v.phase \in {"stopped", "errored"}
  /\ c.started /\ ~c.terminated => Open(c, v)
  /\ ~c.started /\ ~c.terminated => c = FreshBridge /\ v = FreshWire

(* A response that was committed for its failure shows it: the failure is   *)
(* the last of what is kept, behind events of the lifecycle.                *)
Doomed(prefix) ==
  /\ prefix # <<>> /\ prefix[Len(prefix)].kind \in {"failed", "garbage"}
  /\ \A i \in 1 .. Len(prefix) - 1 : Lifecycle(prefix[i])

Looked == {"sent", "priming", "mapping", "answered"}

(* What is queued for one event, and a reader's fields.                     *)
Short(out) == \E a, b, c : out \in {<<>>, <<a>>, <<a, b>>, <<a, b, c>>}
Wired(v) == DOMAIN v = {"phase", "open", "used"}

(* A request's locals and its reader, who has still to read what is queued. *)
Faithful(r, w, v) ==
  LET seen == ReadAll(v, w.out) IN
  /\ Reads(w.bridge, seen) /\ Short(w.out) /\ Wired(v)
  /\ (w.stage = "answered" /\ Plans[r][w.member] = "bridge")
       \/ (w.bridge = FreshBridge /\ v = FreshWire /\ w.out = <<>>)
  /\ w.member \in Nat \ {0} /\ w.kept \in 0 .. Len(Plans[r])
  /\ w.stage \in Looked => w.member <= Len(Plans[r])
  /\ w.stage = "priming" =>
       /\ w.status = "ok"
       /\ w.whole \/ \A i \in DOMAIN w.prefix : Lifecycle(w.prefix[i])
  /\ w.stage = "mapping" => w.status = "error"
  /\ w.stage # "answered" => ~w.semantic
  /\ w.stage \notin {"answered", "ending"} => ~w.usage
  /\ w.stage = "answered" =>
       /\ w.status \in {"ok", "error"}
       /\ w.usage =>
            /\ w.status = "ok"
            /\ IF Plans[r][w.member] = "bridge" THEN w.bridge.started \/ w.bridge.terminated
               ELSE \E i \in DOMAIN w.got : TellsUsage(w.got[i])
       /\ Plans[r][w.member] = "bridge" => w.got = <<>>
       /\ w.semantic =>
            /\ Plans[r][w.member] = "bridge"
            /\ w.bridge.terminated => seen.phase = "errored"
            /\ ~w.bridge.terminated => Doomed(w.prefix)

(* What a reader makes of each kind of event, where it is legal.            *)
LEMMA OutIs ==
  ASSUME NEW type, NEW i, NEW block
  PROVE  /\ Out(type, i, block).type = type /\ Out(type, i, block).index = i
         /\ Out(type, i, block).block = block
  BY DEF Out

LEMMA ReadShape ==
  ASSUME NEW v \in Wires, NEW o
  PROVE  /\ Read(v, o).phase = PhaseAfter(v, o)
         /\ o.type = "content_block_start" =>
              /\ Read(v, o).used = v.used \union {Named(o.index, o.block)}
              /\ Read(v, o).open = v.open \union {Named(o.index, o.block)}
         /\ o.type # "content_block_start" => Read(v, o).used = v.used
         /\ o.type = "content_block_stop" => Read(v, o).open = {b \in v.open : b.index # o.index}
         /\ o.type \notin {"content_block_start", "content_block_stop"} => Read(v, o).open = v.open
         /\ Read(v, o) = [phase |-> Read(v, o).phase, open |-> Read(v, o).open,
                          used |-> Read(v, o).used]
  <1> DEFINE block == Named(o.index, o.block)
             open == CASE o.type = "content_block_start" -> v.open \union {block}
                       [] o.type = "content_block_stop" -> {b \in v.open : b.index # o.index}
                       [] OTHER -> v.open
             used == IF o.type = "content_block_start" THEN v.used \union {block} ELSE v.used
             phase == PhaseAfter(v, o)
  <1>1. /\ o.type = "content_block_start" => open = v.open \union {block}
        /\ o.type = "content_block_stop" => open = {b \in v.open : b.index # o.index}
        /\ o.type \notin {"content_block_start", "content_block_stop"} => open = v.open
    OBVIOUS
  <1>2. /\ o.type = "content_block_start" => used = v.used \union {block}
        /\ o.type # "content_block_start" => used = v.used
    OBVIOUS
  <1>3. Read(v, o) = [v EXCEPT !.phase = phase, !.open = open, !.used = used]
    BY DEF Read, Named
  <1> HIDE DEF open, used, phase
  <1>4. Read(v, o) = [phase |-> phase, open |-> open, used |-> used]
    BY <1>3 DEF Wires
  <1>5. phase = PhaseAfter(v, o) BY DEF phase
  <1>. QED BY <1>1, <1>2, <1>4, <1>5

LEMMA ReadStart ==
  ASSUME NEW v \in Wires, v.phase = "open", NEW i \in Nat,
         NEW block \in {"text", "tool_use", "thinking"},
         \A b \in v.used : b.index # i,
         block = "tool_use" => \A b \in v.open : b.block # "text"
  PROVE  LET n == Read(v, BlockStart(i, block)) IN
         /\ n \in Wires /\ n.phase = "open"
         /\ n.open = v.open \union {Named(i, block)} /\ n.used = v.used \union {Named(i, block)}
  <1> DEFINE o == BlockStart(i, block)
             n == Read(v, o)
  <1>0. o = Out("content_block_start", i, block) BY DEF BlockStart
  <1> HIDE DEF o
  <1>1. o.type = "content_block_start" /\ o.index = i /\ o.block = block
    BY <1>0, OutIs
  <1>2. Legal(v, o) BY <1>1 DEF Legal
  <1>3. PhaseAfter(v, o) = "open" BY <1>1, <1>2 DEF PhaseAfter
  <1>4. /\ n.phase = "open" /\ n.open = v.open \union {Named(i, block)}
        /\ n.used = v.used \union {Named(i, block)}
        /\ n = [phase |-> n.phase, open |-> n.open, used |-> n.used]
    BY <1>1, <1>3, ReadShape
  <1>5. Named(i, block) \in Names BY DEF Named, Names
  <1> HIDE DEF n
  <1>6. n \in Wires BY <1>4, <1>5 DEF Wires
  <1>. QED BY <1>4, <1>6 DEF n, o

LEMMA ReadDelta ==
  ASSUME NEW v \in Wires, v.phase = "open", NEW i, NEW block, Named(i, block) \in v.open
  PROVE  Read(v, BlockDelta(i, block)) = v
  <1> DEFINE o == BlockDelta(i, block)
             n == Read(v, o)
  <1>0. o = Out("content_block_delta", i, block) BY DEF BlockDelta
  <1> HIDE DEF o
  <1>1. o.type = "content_block_delta" /\ o.index = i /\ o.block = block
    BY <1>0, OutIs
  <1>2. Legal(v, o) BY <1>1 DEF Legal, Named
  <1>3. PhaseAfter(v, o) = "open" BY <1>1, <1>2 DEF PhaseAfter
  <1>4. /\ n.phase = v.phase /\ n.open = v.open /\ n.used = v.used
        /\ n = [phase |-> n.phase, open |-> n.open, used |-> n.used]
    BY <1>1, <1>3, ReadShape
  <1>5. v = [phase |-> v.phase, open |-> v.open, used |-> v.used] BY DEF Wires
  <1> HIDE DEF n
  <1>6. n = v BY <1>4, <1>5
  <1>. QED BY <1>6 DEF n, o

LEMMA ReadStop ==
  ASSUME NEW v \in Wires, v.phase = "open", NEW i, \E b \in v.open : b.index = i
  PROVE  LET n == Read(v, BlockStop(i)) IN
         /\ n \in Wires /\ n.phase = "open"
         /\ n.open = {b \in v.open : b.index # i} /\ n.used = v.used
  <1> DEFINE o == BlockStop(i)
             n == Read(v, o)
  <1>0. o = Out("content_block_stop", i, "any") BY DEF BlockStop
  <1> HIDE DEF o
  <1>1. o.type = "content_block_stop" /\ o.index = i /\ o.block = "any"
    BY <1>0, OutIs
  <1>2. Legal(v, o) BY <1>1 DEF Legal
  <1>3. PhaseAfter(v, o) = "open" BY <1>1, <1>2 DEF PhaseAfter
  <1>4. /\ n.phase = "open" /\ n.open = {b \in v.open : b.index # i} /\ n.used = v.used
        /\ n = [phase |-> n.phase, open |-> n.open, used |-> n.used]
    BY <1>1, <1>3, ReadShape
  <1> HIDE DEF n
  <1>6. n \in Wires BY <1>4 DEF Wires
  <1>. QED BY <1>4, <1>6 DEF n, o

(* The first and the last events of a message, and an error.                *)
LEMMA ReadEnds ==
  ASSUME NEW v \in Wires
  PROVE  /\ v.phase = "silent" =>
              LET n == Read(v, Out("message_start", 0, "none")) IN
              n \in Wires /\ n.phase = "open" /\ n.open = v.open /\ n.used = v.used
         /\ v.phase \in {"silent", "open"} =>
              Read(v, ErrorEvent) \in Wires /\ Read(v, ErrorEvent).phase = "errored"
         /\ v.phase = "told" =>
              LET n == Read(v, Out("message_stop", 0, "none")) IN
              n \in Wires /\ n.phase = "stopped"
  <1> DEFINE begin == Out("message_start", 0, "none")
             stop == Out("message_stop", 0, "none")
             error == ErrorEvent
  <1>0. error = Out("error", 0, "none") BY DEF ErrorEvent
  <1>1. /\ begin.type = "message_start" /\ stop.type = "message_stop" /\ error.type = "error"
    BY <1>0, OutIs
  <1>2. /\ v.phase = "silent" => Legal(v, begin)
        /\ v.phase \in {"silent", "open"} => Legal(v, error)
        /\ v.phase = "told" => Legal(v, stop)
    <2> HIDE DEF begin, error, stop
    <2>. QED BY <1>1 DEF Legal
  <1>3. /\ v.phase = "silent" => PhaseAfter(v, begin) = "open"
        /\ v.phase \in {"silent", "open"} => PhaseAfter(v, error) = "errored"
        /\ v.phase = "told" => PhaseAfter(v, stop) = "stopped"
    <2> HIDE DEF begin, error, stop
    <2>. QED BY <1>1, <1>2 DEF PhaseAfter
  <1>4. \A o \in {begin, error, stop} :
          /\ Read(v, o).phase = PhaseAfter(v, o)
          /\ Read(v, o).open = v.open /\ Read(v, o).used = v.used
          /\ Read(v, o) = [phase |-> Read(v, o).phase, open |-> Read(v, o).open,
                           used |-> Read(v, o).used]
    BY <1>1, ReadShape
  <1> HIDE DEF begin, error, stop
  <1>5. \A o \in {begin, error, stop} :
          PhaseAfter(v, o) \in {"open", "errored", "stopped"} => Read(v, o) \in Wires
    BY <1>4 DEF Wires
  <1>6. v.phase = "silent" =>
          Read(v, begin) \in Wires /\ Read(v, begin).phase = "open"
            /\ Read(v, begin).open = v.open /\ Read(v, begin).used = v.used
    BY <1>3, <1>4, <1>5
  <1>7. v.phase \in {"silent", "open"} =>
          Read(v, error) \in Wires /\ Read(v, error).phase = "errored"
    BY <1>3, <1>4, <1>5
  <1>8. v.phase = "told" => Read(v, stop) \in Wires /\ Read(v, stop).phase = "stopped"
    BY <1>3, <1>4, <1>5
  <1>. QED BY <1>6, <1>7, <1>8 DEF begin, error, stop

LEMMA ReadTold ==
  ASSUME NEW v \in Wires, v.phase = "open", v.open = {}, NEW reason,
         reason = "tool_use" => \E b \in v.used : b.block = "tool_use"
  PROVE  LET n == Read(v, Out("message_delta", 0, reason)) IN n \in Wires /\ n.phase = "told"
  <1> DEFINE o == Out("message_delta", 0, reason)
             n == Read(v, o)
  <1>0. o = Out("message_delta", 0, reason) OBVIOUS
  <1> HIDE DEF o
  <1>1. o.type = "message_delta" /\ o.index = 0 /\ o.block = reason
    BY <1>0, OutIs
  <1>2. Legal(v, o) BY <1>1 DEF Legal
  <1>3. PhaseAfter(v, o) = "told" BY <1>1, <1>2 DEF PhaseAfter
  <1>4. /\ n.phase = "told" /\ n.open = v.open /\ n.used = v.used
        /\ n = [phase |-> n.phase, open |-> n.open, used |-> n.used]
    BY <1>1, <1>3, ReadShape
  <1> HIDE DEF n
  <1>6. n \in Wires BY <1>4 DEF Wires
  <1>. QED BY <1>4, <1>6 DEF n, o

(* The text block that is open is stopped.                                  *)
Quiet(c) == [c EXCEPT !.text = {}]

LEMMA StopTextIs ==
  ASSUME NEW c, \A i, j \in c.text : i = j
  PROVE  \/ c.text = {} /\ StopText(c) = <<>>
         \/ \E i : c.text = {i} /\ StopText(c) = <<BlockStop(i)>>
  <1>1. CASE c.text = {}
    <2>1. {BlockStop(i) : i \in c.text} = {} BY <1>1
    <2>. QED BY <1>1, <2>1, Fewest DEF StopText
  <1>2. CASE c.text # {}
    <2>1. PICK i : i \in c.text BY <1>2
    <2>2. c.text = {i} BY <2>1
    <2>3. {BlockStop(j) : j \in c.text} = {BlockStop(i)} BY <2>2
    <2>. QED BY <2>2, <2>3, Fewest DEF StopText
  <1>. QED BY <1>1, <1>2

(* What is written behind the stop of the text is read behind it.           *)
LEMMA SameSequences ==
  ASSUME NEW S, NEW s \in Seq(S), NEW t \in Seq(S), Len(s) = Len(t),
         \A i \in 1 .. Len(s) : s[i] = t[i]
  PROVE  s = t
  OBVIOUS

LEMMA Concatenations ==
  /\ <<>> \o <<>> = <<>>
  /\ \A a : Append(<<>>, a) = <<a>> /\ <<>> \o <<a>> = <<a>> /\ <<a>> \o <<>> = <<a>>
  /\ \A a, b : /\ Append(<<a>>, b) = <<a, b>> /\ <<a>> \o <<b>> = <<a, b>>
               /\ <<>> \o <<a, b>> = <<a, b>>
  /\ \A x, a, b : <<x>> \o <<a, b>> = <<x, a, b>> /\ <<x, a>> \o <<b>> = <<x, a, b>>
  <1>1. <<>> \o <<>> = <<>> OBVIOUS
  <1>2. ASSUME NEW a
        PROVE  Append(<<>>, a) = <<a>> /\ <<>> \o <<a>> = <<a>> /\ <<a>> \o <<>> = <<a>>
    OBVIOUS
  <1>3. ASSUME NEW a, NEW b
        PROVE  /\ Append(<<a>>, b) = <<a, b>> /\ <<a>> \o <<b>> = <<a, b>>
               /\ <<>> \o <<a, b>> = <<a, b>>
    <2> DEFINE S == {a, b}
    <2>1. <<a>> \in Seq(S) /\ <<b>> \in Seq(S) /\ <<a, b>> \in Seq(S) /\ Len(<<a, b>>) = 2
      OBVIOUS
    <2>2. Append(<<a>>, b) = <<a, b>>
      <3>1. Append(<<a>>, b) \in Seq(S) /\ Len(Append(<<a>>, b)) = 2 OBVIOUS
      <3>2. \A i \in 1 .. 2 : Append(<<a>>, b)[i] = <<a, b>>[i] OBVIOUS
      <3> HIDE DEF S
      <3>. QED BY <2>1, <3>1, <3>2, SameSequences
    <2>3. <<a>> \o <<b>> = <<a, b>>
      <3>1. <<a>> \o <<b>> \in Seq(S) /\ Len(<<a>> \o <<b>>) = 2 OBVIOUS
      <3>2. \A i \in 1 .. 2 : (<<a>> \o <<b>>)[i] = <<a, b>>[i] OBVIOUS
      <3> HIDE DEF S
      <3>. QED BY <2>1, <3>1, <3>2, SameSequences
    <2>4. <<>> \o <<a, b>> = <<a, b>> OBVIOUS
    <2>. QED BY <2>2, <2>3, <2>4
  <1>4. ASSUME NEW x, NEW a, NEW b
        PROVE  <<x>> \o <<a, b>> = <<x, a, b>> /\ <<x, a>> \o <<b>> = <<x, a, b>>
    <2> DEFINE S == {x, a, b}
    <2>0. /\ <<x>> \in Seq(S) /\ <<b>> \in Seq(S) /\ <<a, b>> \in Seq(S)
          /\ <<x, a>> \in Seq(S) /\ <<x, a, b>> \in Seq(S)
          /\ Len(<<x>>) = 1 /\ Len(<<b>>) = 1 /\ Len(<<a, b>>) = 2
          /\ Len(<<x, a>>) = 2 /\ Len(<<x, a, b>>) = 3
      OBVIOUS
    <2>5. <<x>> \o <<a, b>> = <<x, a, b>>
      <3>1. <<x>> \o <<a, b>> \in Seq(S) /\ Len(<<x>> \o <<a, b>>) = 3 OBVIOUS
      <3>2. \A i \in 1 .. 3 : (<<x>> \o <<a, b>>)[i] = <<x, a, b>>[i] OBVIOUS
      <3> HIDE DEF S
      <3>. QED BY <2>0, <3>1, <3>2, SameSequences
    <2>8. <<x, a>> \o <<b>> = <<x, a, b>>
      <3>1. <<x, a>> \o <<b>> \in Seq(S) /\ Len(<<x, a>> \o <<b>>) = 3 OBVIOUS
      <3>2. \A i \in 1 .. 3 : (<<x, a>> \o <<b>>)[i] = <<x, a, b>>[i] OBVIOUS
      <3> HIDE DEF S
      <3>. QED BY <2>0, <3>1, <3>2, SameSequences
    <2>. QED BY <2>5, <2>8
  <1>5. \A a, b : /\ Append(<<a>>, b) = <<a, b>> /\ <<a>> \o <<b>> = <<a, b>>
                  /\ <<>> \o <<a, b>> = <<a, b>>
    BY <1>3
  <1>6. \A x, a, b : <<x>> \o <<a, b>> = <<x, a, b>> /\ <<x, a>> \o <<b>> = <<x, a, b>>
    BY <1>4
  <1>. QED BY <1>1, <1>2, <1>5, <1>6

Behind(c, v, a, b) ==
  LET u == ReadAll(v, StopText(c)) IN
  /\ ReadAll(v, Append(StopText(c), a)) = Read(u, a)
  /\ ReadAll(v, StopText(c) \o <<a, b>>) = Read(Read(u, a), b)
  /\ ReadAll(v, StopText(c) \o <<>> \o <<b>>) = Read(u, b)
  /\ ReadAll(v, StopText(c) \o <<a>> \o <<b>>) = Read(Read(u, a), b)

LEMMA BehindText ==
  ASSUME NEW c, \A i, j \in c.text : i = j, NEW v, NEW a, NEW b
  PROVE  Behind(c, v, a, b)
  <1>1. CASE StopText(c) = <<>>
    <2>1. Append(<<>>, a) = <<a>> /\ <<>> \o <<>> = <<>> /\ <<>> \o <<b>> = <<b>>
      BY Concatenations
    <2>2. <<>> \o <<a>> = <<a>> BY Concatenations
    <2>3. <<>> \o <<a, b>> = <<a, b>> /\ <<a>> \o <<b>> = <<a, b>> BY Concatenations
    <2>4. ReadAll(v, <<>>) = v BY ReadNothing
    <2>5. ReadAll(v, <<a>>) = Read(v, a) /\ ReadAll(v, <<b>>) = Read(v, b) BY ReadOne
    <2>6. ReadAll(v, <<a, b>>) = Read(Read(v, a), b) BY ReadTwo
    <2>. QED BY <1>1, <2>1, <2>2, <2>3, <2>4, <2>5, <2>6 DEF Behind
  <1>2. ASSUME NEW i, StopText(c) = <<BlockStop(i)>> PROVE Behind(c, v, a, b)
    <2> DEFINE x == BlockStop(i)
    <2>0. StopText(c) = <<x>> BY <1>2
    <2> HIDE DEF x
    <2>1. Append(<<x>>, a) = <<x, a>> /\ <<x>> \o <<>> = <<x>> /\ <<x>> \o <<b>> = <<x, b>>
      BY Concatenations
    <2>2. <<x>> \o <<a>> = <<x, a>> BY Concatenations
    <2>3. <<x>> \o <<a, b>> = <<x, a, b>> /\ <<x, a>> \o <<b>> = <<x, a, b>>
      BY Concatenations
    <2>4. ReadAll(v, <<x>>) = Read(v, x) BY ReadOne
    <2>5. ReadAll(v, <<x, a>>) = Read(Read(v, x), a) BY ReadTwo
    <2>6. ReadAll(v, <<x, b>>) = Read(Read(v, x), b) BY ReadTwo
    <2>7. ReadAll(v, <<x, a, b>>) = Read(Read(Read(v, x), a), b) BY ReadThree
    <2>. QED BY <2>0, <2>1, <2>2, <2>3, <2>4, <2>5, <2>6, <2>7 DEF Behind
  <1>. QED BY <1>1, <1>2, StopTextIs

LEMMA QuietReads ==
  ASSUME NEW c, NEW v, Reads(c, v), c.started, ~c.terminated
  PROVE  LET u == ReadAll(v, StopText(c)) IN
         /\ Reads(Quiet(c), u) /\ u.phase = "open" /\ Quiet(c).text = {}
         /\ Quiet(c).started /\ ~Quiet(c).terminated
         /\ u.open = Blocks(Quiet(c))
  <1> DEFINE q == Quiet(c)
             u == ReadAll(v, StopText(c))
  <1>0. Open(c, v) /\ c \in Bridges /\ v \in Wires BY DEF Reads
  <1>1. /\ q \in Bridges /\ q.text = {} /\ q.tools = c.tools /\ q.reasoning = c.reasoning
        /\ q.next_index = c.next_index /\ q.has_tool_use = c.has_tool_use
        /\ q.started = c.started /\ q.terminated = c.terminated
    BY <1>0 DEF Quiet, Bridges
  <1> HIDE DEF q
  <1>2. IndexesAreOwn(q) BY <1>0, <1>1 DEF Open, IndexesAreOwn
  <1>3. ASSUME c.text = {}, StopText(c) = <<>>
        PROVE  Reads(q, u) /\ u.phase = "open" /\ u.open = Blocks(q)
    <2>1. ReadAll(v, <<>>) = v BY ReadNothing
    <2>2. u = v BY <1>3, <2>1
    <2>3. Blocks(q) = Blocks(c) BY <1>1, <1>3 DEF Blocks
    <2>4. Open(q, u) BY <1>0, <1>1, <1>2, <2>2, <2>3 DEF Open, IndexesAreTold
    <2>. QED BY <1>0, <1>1, <2>2, <2>4 DEF Reads, Open
  <1>4. ASSUME NEW i, c.text = {i}, StopText(c) = <<BlockStop(i)>>
        PROVE  Reads(q, u) /\ u.phase = "open" /\ u.open = Blocks(q)
    <2>0. \A x : ReadAll(v, <<x>>) = Read(v, x) BY ReadOne
    <2>1. u = Read(v, BlockStop(i)) BY <1>4, <2>0
    <2>2. Named(i, "text") \in v.open /\ Named(i, "text").index = i
      BY <1>0, <1>4 DEF Open, Blocks, Named
    <2>3. /\ u \in Wires /\ u.phase = "open"
          /\ u.open = {b \in v.open : b.index # i} /\ u.used = v.used
      BY <1>0, <2>1, <2>2, ReadStop DEF Open
    <2>4. {b \in Blocks(c) : b.index # i} = Blocks(q)
      BY <1>0, <1>1, <1>4 DEF Open, Blocks, Named, IndexesAreOwn
    <2> HIDE DEF u
    <2>5. Open(q, u) BY <1>0, <1>1, <1>2, <2>3, <2>4 DEF Open, IndexesAreTold
    <2>. QED BY <1>0, <1>1, <2>3, <2>5 DEF Reads, Open
  <1>5. \A i, j \in c.text : i = j BY <1>0 DEF Open, IndexesAreOwn
  <1>6. Reads(q, u) /\ u.phase = "open" /\ u.open = Blocks(q)
    BY <1>3, <1>4, <1>5, StopTextIs
  <1>. QED BY <1>1, <1>6 DEF q

(* An event that makes the bridge fail ends what is read with an error.     *)
Terminated(c) == [c EXCEPT !.terminated = TRUE]

LEMMA ErrorReads ==
  ASSUME NEW c, NEW v, Reads(c, v), ~c.terminated
  PROVE  LET u == Read(v, ErrorEvent) IN
         Reads(Terminated(c), u) /\ u.phase = "errored" /\ Terminated(c).terminated
  <1>1. v \in Wires /\ v.phase \in {"silent", "open"}
    BY DEF Reads, Open, FreshWire
  <1>2. Terminated(c) \in Bridges /\ Terminated(c).terminated
    BY DEF Reads, Terminated, Bridges
  <1>. QED BY <1>1, <1>2, ReadEnds DEF Reads

(* An event leaves at most three to be read, and polling one of them leaves *)
(* the others.                                                              *)
LEMMA Shorts ==
  /\ Short(<<>>) /\ \A a : Short(<<a>>)
  /\ \A a, b : Short(<<a, b>>) /\ \A c : Short(<<a, b, c>>)
  BY DEF Short

LEMMA PollsOne ==
  ASSUME NEW v, NEW out, Short(out), out # <<>>
  PROVE  Short(Tail(out)) /\ ReadAll(Read(v, Head(out)), Tail(out)) = ReadAll(v, out)
  <1>1. ASSUME NEW a, out = <<a>>
        PROVE  Short(Tail(out)) /\ ReadAll(Read(v, Head(out)), Tail(out)) = ReadAll(v, out)
    <2>1. Head(<<a>>) = a /\ Tail(<<a>>) = <<>> OBVIOUS
    <2>2. ReadAll(Read(v, a), <<>>) = Read(v, a) BY ReadNothing
    <2>. QED BY <1>1, <2>1, <2>2, ReadOne, Shorts
  <1>2. ASSUME NEW a, NEW b, out = <<a, b>>
        PROVE  Short(Tail(out)) /\ ReadAll(Read(v, Head(out)), Tail(out)) = ReadAll(v, out)
    <2>1. Head(<<a, b>>) = a /\ Tail(<<a, b>>) = <<b>> OBVIOUS
    <2>2. ReadAll(Read(v, a), <<b>>) = Read(Read(v, a), b) BY ReadOne
    <2>3. ReadAll(v, <<a, b>>) = Read(Read(v, a), b) BY ReadTwo
    <2>. QED BY <1>2, <2>1, <2>2, <2>3, Shorts
  <1>3. ASSUME NEW a, NEW b, NEW c, out = <<a, b, c>>
        PROVE  Short(Tail(out)) /\ ReadAll(Read(v, Head(out)), Tail(out)) = ReadAll(v, out)
    <2>1. Head(<<a, b, c>>) = a /\ Tail(<<a, b, c>>) = <<b, c>> OBVIOUS
    <2>2. ReadAll(Read(v, a), <<b, c>>) = Read(Read(Read(v, a), b), c) BY ReadTwo
    <2>3. ReadAll(v, <<a, b, c>>) = Read(Read(Read(v, a), b), c) BY ReadThree
    <2>. QED BY <1>3, <2>1, <2>2, <2>3, Shorts
  <1>4. \E a, b, c : out \in {<<a>>, <<a, b>>, <<a, b, c>>} BY DEF Short
  <1>. QED BY <1>1, <1>2, <1>3, <1>4

(* A reader stays garbled, and one that has read something has not read     *)
(* nothing.                                                                 *)
LEMMA ReadOn ==
  ASSUME NEW v, Wired(v), NEW o
  PROVE  /\ Wired(Read(v, o))
         /\ v.phase = "garbled" => Read(v, o).phase = "garbled"
         /\ v.phase # "silent" => Read(v, o).phase # "silent"
  <1>1. Wired(Read(v, o)) /\ Read(v, o).phase = PhaseAfter(v, o) BY DEF Read, Wired
  <1>2. v.phase = "garbled" => ~Legal(v, o) BY DEF Legal
  <1>3. v.phase # "silent" => PhaseAfter(v, o) # "silent" BY DEF PhaseAfter
  <1>. QED BY <1>1, <1>2, <1>3 DEF PhaseAfter

LEMMA ReadAllOn ==
  ASSUME NEW v, Wired(v), NEW out, Short(out)
  PROVE  /\ v.phase = "garbled" => ReadAll(v, out).phase = "garbled"
         /\ v.phase # "silent" => ReadAll(v, out).phase # "silent"
  <1> DEFINE On(u) == /\ Wired(u)
                      /\ v.phase = "garbled" => u.phase = "garbled"
                      /\ v.phase # "silent" => u.phase # "silent"
  <1>1. On(v) OBVIOUS
  <1>2. ASSUME NEW u, NEW o, On(u) PROVE On(Read(u, o))
    BY <1>2, ReadOn
  <1> HIDE DEF On
  <1>3. out = <<>> => On(ReadAll(v, out)) BY <1>1, ReadNothing
  <1>4. ASSUME NEW a, out = <<a>> PROVE On(ReadAll(v, out))
    BY <1>1, <1>2, <1>4, ReadOne
  <1>5. ASSUME NEW a, NEW b, out = <<a, b>> PROVE On(ReadAll(v, out))
    BY <1>1, <1>2, <1>5, ReadTwo
  <1>6. ASSUME NEW a, NEW b, NEW c, out = <<a, b, c>> PROVE On(ReadAll(v, out))
    BY <1>1, <1>2, <1>6, ReadThree
  <1>7. On(ReadAll(v, out)) BY <1>3, <1>4, <1>5, <1>6 DEF Short
  <1>. QED BY <1>7 DEF On

(* What is written behind the stop of the text.                             *)
LEMMA ShortBehindText ==
  ASSUME NEW c, \A i, j \in c.text : i = j, NEW a, NEW b
  PROVE  /\ Short(StopText(c)) /\ Short(Append(StopText(c), a))
         /\ Short(StopText(c) \o <<a, b>>) /\ Short(StopText(c) \o <<>> \o <<b>>)
         /\ Short(StopText(c) \o <<a>> \o <<b>>)
  <1> DEFINE Goal == /\ Short(StopText(c)) /\ Short(Append(StopText(c), a))
                     /\ Short(StopText(c) \o <<a, b>>) /\ Short(StopText(c) \o <<>> \o <<b>>)
                     /\ Short(StopText(c) \o <<a>> \o <<b>>)
  <1>1. CASE StopText(c) = <<>>
    <2>1. Append(<<>>, a) = <<a>> /\ <<>> \o <<>> = <<>> /\ <<>> \o <<b>> = <<b>>
      BY Concatenations
    <2>2. <<>> \o <<a>> = <<a>> BY Concatenations
    <2>3. <<>> \o <<a, b>> = <<a, b>> /\ <<a>> \o <<b>> = <<a, b>> BY Concatenations
    <2>. QED BY <1>1, <2>1, <2>2, <2>3, Shorts
  <1>2. ASSUME NEW x, StopText(c) = <<x>> PROVE Goal
    <2>1. Append(<<x>>, a) = <<x, a>> /\ <<x>> \o <<>> = <<x>> /\ <<x>> \o <<b>> = <<x, b>>
      BY Concatenations
    <2>2. <<x>> \o <<a>> = <<x, a>> BY Concatenations
    <2>3. <<x>> \o <<a, b>> = <<x, a, b>> /\ <<x, a>> \o <<b>> = <<x, a, b>>
      BY Concatenations
    <2>. QED BY <1>2, <2>1, <2>2, <2>3, Shorts
  <1>. QED BY <1>1, <1>2, StopTextIs

(* What the bridge and its reader are behind an event.                      *)
Goes(v, k) == Reads(k.bridge, ReadAll(v, k.out))

LEMMA FailGoes ==
  ASSUME NEW c, NEW v, Reads(c, v), ~c.terminated
  PROVE  /\ Goes(v, Fail(c, <<>>)) /\ Fail(c, <<>>).bridge.terminated
         /\ ReadAll(v, Fail(c, <<>>).out).phase = "errored"
         /\ c.started => Goes(v, Fail(c, StopText(c))) /\ Fail(c, StopText(c)).bridge.terminated
  <1>1. \A out : Fail(c, out).bridge = Terminated(c) /\ Fail(c, out).out = Append(out, ErrorEvent)
    BY DEF Fail, Converted, Terminated
  <1>2. /\ Reads(Terminated(c), Read(v, ErrorEvent)) /\ Read(v, ErrorEvent).phase = "errored"
        /\ Terminated(c).terminated
    BY ErrorReads
  <1>3. ReadAll(v, Append(<<>>, ErrorEvent)) = Read(v, ErrorEvent)
    <2>1. \A x : ReadAll(v, <<x>>) = Read(v, x) BY ReadOne
    <2>2. \A x : Append(<<>>, x) = <<x>> BY Concatenations
    <2>. QED BY <2>1, <2>2
  <1>4. ASSUME c.started PROVE Goes(v, Fail(c, StopText(c)))
    <2> DEFINE u == ReadAll(v, StopText(c))
    <2>1. Reads(Quiet(c), u) /\ u.phase = "open" /\ Reads(c, v) BY <1>4, QuietReads
    <2>2. \A i, j \in c.text : i = j BY <1>4 DEF Reads, Open, IndexesAreOwn
    <2>3. ReadAll(v, Append(StopText(c), ErrorEvent)) = Read(u, ErrorEvent)
      <3>1. Behind(c, v, ErrorEvent, ErrorEvent) BY <2>2, BehindText
      <3>. QED BY <3>1 DEF Behind
    <2> HIDE DEF u
    <2>4. Read(u, ErrorEvent) \in Wires /\ Read(u, ErrorEvent).phase = "errored"
      BY <2>1, ReadEnds DEF Reads
    <2>5. Terminated(c) \in Bridges BY <2>1 DEF Reads, Terminated, Bridges
    <2>. QED BY <1>1, <1>2, <2>3, <2>4, <2>5 DEF Goes, Reads
  <1>. QED BY <1>1, <1>2, <1>3, <1>4 DEF Goes

LEMMA ConvertedIs ==
  ASSUME NEW c, NEW out
  PROVE  Converted(c, out).bridge = c /\ Converted(c, out).out = out
  BY DEF Converted

(* Nothing is written, ...                                                  *)
LEMMA SilentGoes ==
  ASSUME NEW c, NEW v, Reads(c, v)
  PROVE  Goes(v, Converted(c, <<>>))
  <1>1. ReadAll(v, <<>>) = v BY ReadNothing
  <1>. QED BY <1>1, ConvertedIs DEF Goes

(* ... or the message begins.                                               *)
LEMMA StartMessageGoes ==
  ASSUME NEW c, NEW v, Reads(c, v), ~c.terminated
  PROVE  /\ Goes(v, StartMessage(c))
         /\ StartMessage(c).bridge.terminated =>
              ReadAll(v, StartMessage(c).out).phase = "errored"
  <1>1. CASE c.started BY <1>1, FailGoes DEF StartMessage
  <1>2. CASE ~c.started
    <2> DEFINE d == [c EXCEPT !.started = TRUE]
               o == Out("message_start", 0, "none")
               u == Read(v, o)
    <2>1. c = FreshBridge /\ v = FreshWire /\ c \in Bridges /\ v \in Wires
      BY <1>2 DEF Reads
    <2>2. v.phase = "silent" /\ v.open = {} /\ v.used = {} BY <2>1 DEF FreshWire
    <2>3. /\ d \in Bridges /\ d.text = {} /\ d.tools = {} /\ d.reasoning = {} /\ d.started
          /\ ~d.has_tool_use /\ ~d.terminated
      BY <2>1 DEF FreshBridge, Bridges
    <2>4. StartMessage(c) = Converted(d, <<o>>) BY <1>2 DEF StartMessage
    <2>5. \A x : ReadAll(v, <<x>>) = Read(v, x) BY ReadOne
    <2>6. u \in Wires /\ u.phase = "open" /\ u.open = {} /\ u.used = {}
      BY <2>1, <2>2, ReadEnds
    <2> HIDE DEF d, u
    <2>7. Open(d, u) BY <2>3, <2>6 DEF Open, Blocks, IndexesAreOwn, IndexesAreTold
    <2>8. Reads(d, u) BY <2>3, <2>6, <2>7 DEF Reads
    <2>9. ReadAll(v, <<o>>) = u BY <2>5 DEF u
    <2> HIDE DEF o
    <2>. QED BY <2>3, <2>4, <2>8, <2>9, ConvertedIs DEF Goes
  <1>. QED BY <1>1, <1>2

LEMMA StartTextGoes ==
  ASSUME NEW c, NEW v, Reads(c, v), c.started, ~c.terminated
  PROVE  Goes(v, StartText(c))
  <1>1. CASE c.text # {} BY <1>1, SilentGoes DEF StartText
  <1>2. CASE c.text = {}
    <2> DEFINE n == c.next_index
               d == [c EXCEPT !.text = {n}, !.next_index = n + 1]
               u == Read(v, BlockStart(n, "text"))
    <2>1. c \in Bridges /\ v \in Wires /\ Open(c, v) /\ n \in Nat
      BY DEF Reads, Bridges
    <2>2. v.phase = "open" /\ \A b \in v.used : b.index # n
      BY <2>1 DEF Open, IndexesAreTold, Wires, Names
    <2>3. /\ u \in Wires /\ u.phase = "open" /\ u.open = v.open \union {Named(n, "text")}
          /\ u.used = v.used \union {Named(n, "text")}
      BY <2>1, <2>2, ReadStart
    <2>4. /\ d \in Bridges /\ d.text = {n} /\ d.tools = c.tools /\ d.reasoning = c.reasoning
          /\ d.started /\ d.has_tool_use = c.has_tool_use /\ ~d.terminated
          /\ d.next_index = n + 1
      <3>1. c.next_index = n /\ {n} \in SUBSET Nat /\ n + 1 \in Nat BY <2>1
      <3> DEFINE text == {n}
                 next == n + 1
      <3>2. d = [c EXCEPT !.text = text, !.next_index = next] OBVIOUS
      <3>3. text \in SUBSET Nat /\ next \in Nat BY <3>1
      <3> HIDE DEF text, next, n, d
      <3>4. /\ d \in Bridges /\ d.text = text /\ d.tools = c.tools
            /\ d.reasoning = c.reasoning /\ d.started = c.started
            /\ d.has_tool_use = c.has_tool_use /\ d.terminated = c.terminated
            /\ d.next_index = next
        BY <2>1, <3>2, <3>3 DEF Bridges
      <3>. QED BY <3>4 DEF text, next
    <2>5. StartText(c) = Converted(d, <<BlockStart(n, "text")>>) BY <1>2 DEF StartText
    <2>6. \A x : ReadAll(v, <<x>>) = Read(v, x) BY ReadOne
    <2> HIDE DEF d, u
    <2>7. IndexesAreOwn(d) BY <2>1, <2>4 DEF Open, IndexesAreOwn, Bridges
    <2>8. IndexesAreTold(d, u.used)
      BY <2>1, <2>3, <2>4
         DEF Open, IndexesAreOwn, IndexesAreTold, Bridges, Named, Wires, Names
    <2>9. Blocks(d) = Blocks(c) \union {Named(n, "text")}
      BY <1>2, <2>4 DEF Blocks
    <2>10. Reads(d, u) BY <2>1, <2>3, <2>4, <2>7, <2>8, <2>9 DEF Reads, Open
    <2>11. ReadAll(v, <<BlockStart(n, "text")>>) = u BY <2>6 DEF u
    <2>. QED BY <2>5, <2>10, <2>11, ConvertedIs DEF Goes
  <1>. QED BY <1>1, <1>2

LEMMA TextGoes ==
  ASSUME NEW c, NEW v, Reads(c, v), ~c.terminated
  PROVE  Goes(v, TextDelta(c)) /\ Goes(v, TextDone(c))
  <1>1. CASE c.text = {} BY <1>1, FailGoes DEF TextDelta, TextDone
  <1>2. CASE c.text # {}
    <2>0. c.started BY <1>2 DEF Reads, FreshBridge
    <2>1. Goes(v, TextDone(c))
      <3>1. TextDone(c) = Converted(Quiet(c), StopText(c)) BY <1>2 DEF TextDone, Quiet
      <3>. QED BY <2>0, <3>1, QuietReads, ConvertedIs DEF Goes
    <2>2. Goes(v, TextDelta(c))
      <3>1. PICK i : i \in c.text BY <1>2
      <3>2. Open(c, v) /\ v \in Wires BY <2>0 DEF Reads
      <3>3. c.text = {i} BY <3>1, <3>2 DEF Open, IndexesAreOwn
      <3> DEFINE o == BlockDelta(i, "text")
      <3>4. {BlockDelta(j, "text") : j \in c.text} = {o} BY <3>3
      <3>5. TextDelta(c) = Converted(c, SetToSeq({BlockDelta(j, "text") : j \in c.text}))
        BY <1>2 DEF TextDelta
      <3>6. Named(i, "text") \in v.open BY <3>1, <3>2 DEF Open, Blocks
      <3>7. Read(v, o) = v BY <3>2, <3>6, ReadDelta DEF Open
      <3>8. \A x : ReadAll(v, <<x>>) = Read(v, x) BY ReadOne
      <3> HIDE DEF o
      <3>9. TextDelta(c) = Converted(c, <<o>>) BY <3>4, <3>5, Fewest
      <3>. QED BY <3>7, <3>8, <3>9, ConvertedIs DEF Goes
    <2>. QED BY <2>1, <2>2
  <1>. QED BY <1>1, <1>2

(* Tool blocks.                                                             *)
LEMMA StartToolGoes ==
  ASSUME NEW c, NEW v, Reads(c, v), c.started, ~c.terminated, NEW item \in Items
  PROVE  Goes(v, StartTool(c, item))
  <1>1. CASE Of(c.tools, item) # {} BY <1>1, FailGoes DEF StartTool
  <1>2. CASE Of(c.tools, item) = {}
    <2> DEFINE n == c.next_index
               next == n + 1
               t == [item |-> item, index |-> n, had_delta |-> FALSE]
               tools == c.tools \union {t}
               d == [c EXCEPT !.text = {}, !.next_index = next, !.has_tool_use = TRUE,
                              !.tools = tools]
               q == Quiet(c)
               u == ReadAll(v, StopText(c))
               o == BlockStart(n, "tool_use")
               x == Read(u, o)
    <2>1. /\ c \in Bridges /\ Open(c, v) /\ n \in Nat /\ c.next_index = n
          /\ \A b \in c.tools : b.item # item
      BY <1>2 DEF Reads, Bridges, Of
    <2>2. /\ t.item = item /\ t.index = n /\ t \in [item : Items, index : Nat, had_delta : BOOLEAN]
          /\ next \in Nat /\ next = n + 1
      BY <2>1
    <2>3. StartTool(c, item) = Converted(d, Append(StopText(c), o))
      BY <1>2 DEF StartTool
    <2>4. ReadAll(v, Append(StopText(c), o)) = x
      <3> HIDE DEF o
      <3>1. \A i, j \in c.text : i = j BY <2>1 DEF Open, IndexesAreOwn
      <3>2. Behind(c, v, o, o) BY <3>1, BehindText
      <3>. QED BY <3>2 DEF Behind
    <2>5. /\ q \in Bridges /\ q.text = {} /\ q.tools = c.tools /\ q.reasoning = c.reasoning
          /\ q.next_index = c.next_index /\ q.has_tool_use = c.has_tool_use
      BY <2>1 DEF Quiet, Bridges
    <2>6. Reads(q, u) /\ u.phase = "open" /\ u.open = Blocks(q) /\ Open(q, u) /\ u \in Wires
      BY QuietReads DEF Reads
    <2> HIDE DEF t, next
    <2>7. tools = c.tools \union {t} /\ tools \in SUBSET [item : Items, index : Nat, had_delta : BOOLEAN]
      BY <2>1, <2>2 DEF Bridges
    <2> HIDE DEF tools, n
    <2>8. /\ d \in Bridges /\ d.text = {} /\ d.tools = tools /\ d.reasoning = c.reasoning
          /\ d.started /\ d.has_tool_use /\ ~d.terminated /\ d.next_index = next
      BY <2>1, <2>2, <2>7 DEF Bridges
    <2> HIDE DEF q, u, d
    <2>9. /\ \A b \in u.used : b.index # n
          /\ \A b \in u.open : b.block # "text"
      BY <2>1, <2>5, <2>6 DEF Open, IndexesAreTold, Wires, Names, Blocks, Named
    <2>10. /\ x \in Wires /\ x.phase = "open" /\ x.open = u.open \union {Named(n, "tool_use")}
           /\ x.used = u.used \union {Named(n, "tool_use")}
      BY <2>1, <2>6, <2>9, ReadStart
    <2> HIDE DEF x
    <2>11. IndexesAreOwn(d)
      BY <2>1, <2>2, <2>7, <2>8 DEF Open, IndexesAreOwn, Bridges
    <2>12. IndexesAreTold(d, x.used)
      <3>1. \A b \in u.used : /\ b.index < n /\ b.index \in Nat
                             /\ \A y \in c.reasoning : ~y.open => y.index # b.index
        BY <2>1, <2>5, <2>6 DEF Open, IndexesAreTold, Wires, Names
      <3>2. \A y \in c.reasoning : y.index # n
        BY <2>1 DEF Open, IndexesAreOwn, Bridges
      <3>3. Named(n, "tool_use").index = n /\ Named(n, "tool_use").block = "tool_use"
        BY DEF Named
      <3>. QED BY <2>1, <2>2, <2>8, <2>10, <3>1, <3>2, <3>3 DEF IndexesAreTold
    <2>13. Blocks(d) = Blocks(q) \union {Named(n, "tool_use")}
      BY <2>2, <2>5, <2>7, <2>8 DEF Blocks
    <2>14. Reads(d, x) BY <2>6, <2>8, <2>10, <2>11, <2>12, <2>13 DEF Reads, Open
    <2>. QED BY <2>3, <2>4, <2>14, ConvertedIs DEF Goes
  <1>. QED BY <1>1, <1>2

LEMMA ToolDeltaGoes ==
  ASSUME NEW c, NEW v, Reads(c, v), c.started, ~c.terminated, NEW item \in Items
  PROVE  Goes(v, ToolDelta(c, item))
  <1>1. CASE Of(c.tools, item) = {} BY <1>1, FailGoes DEF ToolDelta
  <1>2. CASE Of(c.tools, item) # {}
    <2> DEFINE tool == CHOOSE b \in Of(c.tools, item) : TRUE
               t == [tool EXCEPT !.had_delta = TRUE]
               tools == Others(c.tools, item) \union {t}
               d == [c EXCEPT !.tools = tools]
               o == BlockDelta(tool.index, "tool_use")
    <2>1. c \in Bridges /\ v \in Wires /\ Open(c, v) BY DEF Reads
    <2>2. tool \in c.tools /\ tool.item = item BY <1>2 DEF Of
    <2>3. ToolDelta(c, item) = Converted(d, <<o>>) BY <1>2 DEF ToolDelta
    <2> HIDE DEF tool
    <2>4. /\ t.item = item /\ t.index = tool.index
          /\ t \in [item : Items, index : Nat, had_delta : BOOLEAN]
      BY <2>1, <2>2 DEF Bridges
    <2> HIDE DEF t
    <2>5. /\ tools = {b \in c.tools : b.item # item} \union {t}
          /\ tools \in SUBSET [item : Items, index : Nat, had_delta : BOOLEAN]
      BY <2>1, <2>4 DEF Bridges, Others
    <2> HIDE DEF tools
    <2>6. /\ d \in Bridges /\ d.text = c.text /\ d.tools = tools /\ d.reasoning = c.reasoning
          /\ d.started = c.started /\ d.has_tool_use = c.has_tool_use
          /\ d.terminated = c.terminated /\ d.next_index = c.next_index
      BY <2>1, <2>5 DEF Bridges
    <2> HIDE DEF d
    <2>7. Named(tool.index, "tool_use") \in v.open
      BY <2>1, <2>2 DEF Open, Blocks
    <2>8. Read(v, o) = v BY <2>1, <2>7, ReadDelta DEF Open
    <2>9. \A y : ReadAll(v, <<y>>) = Read(v, y) BY ReadOne
    <2>10. IndexesAreOwn(d)
      BY <2>1, <2>2, <2>4, <2>5, <2>6 DEF Open, IndexesAreOwn
    <2>11. IndexesAreTold(d, v.used) BY <2>1, <2>6 DEF Open, IndexesAreTold
    <2>12. Blocks(d) = Blocks(c)
      <3>1. {Named(b.index, "tool_use") : b \in d.tools} = {Named(b.index, "tool_use") : b \in c.tools}
        BY <2>1, <2>2, <2>4, <2>5, <2>6 DEF Open, IndexesAreOwn
      <3>. QED BY <2>6, <3>1 DEF Blocks
    <2>13. Reads(d, v) BY <2>1, <2>6, <2>10, <2>11, <2>12 DEF Reads, Open
    <2> HIDE DEF o
    <2>. QED BY <2>3, <2>8, <2>9, <2>13, ConvertedIs DEF Goes
  <1>. QED BY <1>1, <1>2

LEMMA StopToolGoes ==
  ASSUME NEW c, NEW v, Reads(c, v), ~c.terminated, NEW item \in Items
  PROVE  Goes(v, StopTool(c, item))
  <1>1. CASE Of(c.tools, item) = {} BY <1>1, FailGoes DEF StopTool
  <1>2. CASE Of(c.tools, item) # {}
    <2> DEFINE tool == CHOOSE b \in Of(c.tools, item) : TRUE
               tools == Others(c.tools, item)
               d == [c EXCEPT !.tools = tools]
               o == BlockDelta(tool.index, "tool_use")
               p == BlockStop(tool.index)
               out == (IF tool.had_delta THEN <<>> ELSE <<o>>) \o <<p>>
               u == Read(v, p)
    <2>0. c.started BY <1>2 DEF Reads, FreshBridge, Of
    <2>1. c \in Bridges /\ v \in Wires /\ Open(c, v) BY <2>0 DEF Reads
    <2>2. tool \in c.tools /\ tool.item = item BY <1>2 DEF Of
    <2>3. StopTool(c, item) = Converted(d, out) BY <1>2 DEF StopTool
    <2> HIDE DEF tool
    <2>5. /\ tools = {b \in c.tools : b.item # item}
          /\ tools \in SUBSET [item : Items, index : Nat, had_delta : BOOLEAN]
      BY <2>1 DEF Bridges, Others
    <2> HIDE DEF tools
    <2>6. /\ d \in Bridges /\ d.text = c.text /\ d.tools = tools /\ d.reasoning = c.reasoning
          /\ d.started = c.started /\ d.has_tool_use = c.has_tool_use
          /\ d.terminated = c.terminated /\ d.next_index = c.next_index
      BY <2>1, <2>5 DEF Bridges
    <2> HIDE DEF d
    <2>7. Named(tool.index, "tool_use") \in v.open /\ Named(tool.index, "tool_use").index = tool.index
      BY <2>1, <2>2 DEF Open, Blocks, Named
    <2>8. Read(v, o) = v BY <2>1, <2>7, ReadDelta DEF Open
    <2>9. /\ u \in Wires /\ u.phase = "open" /\ u.open = {b \in v.open : b.index # tool.index}
          /\ u.used = v.used
      BY <2>1, <2>7, ReadStop DEF Open
    <2> HIDE DEF u, o, p
    <2>4. ReadAll(v, out) = u
      <3>1. /\ \A x : ReadAll(v, <<x>>) = Read(v, x)
            /\ \A x, y : ReadAll(v, <<x, y>>) = Read(Read(v, x), y)
        BY ReadOne, ReadTwo
      <3>2. <<>> \o <<p>> = <<p>> /\ <<o>> \o <<p>> = <<o, p>> BY Concatenations
      <3>3. Read(v, p) = u BY DEF u
      <3>4. CASE tool.had_delta
        <4>1. out = <<p>> BY <3>2, <3>4
        <4> HIDE DEF out
        <4>. QED BY <3>1, <3>3, <4>1
      <3>5. CASE ~tool.had_delta
        <4>1. out = <<o, p>> BY <3>2, <3>5
        <4>2. ReadAll(v, <<o, p>>) = Read(Read(v, o), p) BY <3>1
        <4> HIDE DEF out
        <4>. QED BY <2>8, <3>3, <4>1, <4>2
      <3>. QED BY <3>4, <3>5
    <2> HIDE DEF out
    <2>10. IndexesAreOwn(d) BY <2>1, <2>5, <2>6 DEF Open, IndexesAreOwn
    <2>11. IndexesAreTold(d, u.used) BY <2>1, <2>6, <2>9 DEF Open, IndexesAreTold
    <2>12. Blocks(d) = {b \in Blocks(c) : b.index # tool.index}
      <3>1. \A i, block : Named(i, block).index = i BY DEF Named
      <3>2. \A b \in c.tools : b.index = tool.index <=> b = tool
        BY <2>1, <2>2 DEF Open, IndexesAreOwn
      <3>3. \A b \in c.tools : b.item = item <=> b = tool
        BY <2>1, <2>2 DEF Open, IndexesAreOwn
      <3>4. \A i \in c.text : i # tool.index
        BY <2>1, <2>2 DEF Open, IndexesAreOwn
      <3>5. \A b \in c.reasoning : b.index # tool.index
        BY <2>1, <2>2 DEF Open, IndexesAreOwn
      <3>6. \A b : b \in tools <=> b \in c.tools /\ b.index # tool.index
        BY <2>5, <3>2, <3>3
      <3>7. \A a : a \in Blocks(d) <=> a \in Blocks(c) /\ a.index # tool.index
        <4>1. \A a : a \in {Named(i, "text") : i \in d.text}
                       <=> a \in {Named(i, "text") : i \in c.text} /\ a.index # tool.index
          BY <2>6, <3>1, <3>4
        <4>2. \A a : a \in {Named(b.index, "tool_use") : b \in d.tools}
                       <=> a \in {Named(b.index, "tool_use") : b \in c.tools}
                             /\ a.index # tool.index
          BY <2>6, <3>1, <3>6
        <4>3. \A a : a \in {Named(b.index, "thinking") : b \in {x \in d.reasoning : x.open}}
                       <=> a \in {Named(b.index, "thinking") : b \in {x \in c.reasoning : x.open}}
                             /\ a.index # tool.index
          BY <2>6, <3>1, <3>5
        <4>. QED BY <4>1, <4>2, <4>3 DEF Blocks
      <3> DEFINE B == {b \in Blocks(c) : b.index # tool.index}
      <3>8. \A a : a \in B <=> a \in Blocks(c) /\ a.index # tool.index OBVIOUS
      <3> HIDE DEF B
      <3>9. Blocks(d) = B BY <3>7, <3>8
      <3>. QED BY <3>9 DEF B
    <2>13. Reads(d, u)
      <3>1. v.open = Blocks(c) BY <2>1 DEF Open
      <3>2. u.open = Blocks(d) BY <2>9, <2>12, <3>1
      <3>3. Open(d, u) BY <2>9, <2>10, <2>11, <3>2 DEF Open
      <3>. QED BY <2>0, <2>6, <2>9, <3>3 DEF Reads
    <2>. QED BY <2>3, <2>4, <2>13, ConvertedIs DEF Goes
  <1>. QED BY <1>1, <1>2

(* Reasoning blocks.                                                        *)
LEMMA StartReasoningGoes ==
  ASSUME NEW c, NEW v, Reads(c, v), c.started, ~c.terminated, NEW item \in Items
  PROVE  Goes(v, StartReasoning(c, item))
  <1>1. CASE Of(c.reasoning, item) # {} BY <1>1, FailGoes DEF StartReasoning
  <1>2. CASE Of(c.reasoning, item) = {}
    <2> DEFINE n == c.next_index
               next == n + 1
               t == [item |-> item, index |-> n, open |-> FALSE]
               reasoning == c.reasoning \union {t}
               d == [c EXCEPT !.next_index = next, !.reasoning = reasoning]
    <2>1. /\ c \in Bridges /\ v \in Wires /\ Open(c, v) /\ n \in Nat /\ c.next_index = n
          /\ \A b \in c.reasoning : b.item # item
      BY <1>2 DEF Reads, Bridges, Of
    <2>2. /\ t.item = item /\ t.index = n /\ ~t.open
          /\ t \in [item : Items, index : Nat, open : BOOLEAN]
          /\ next \in Nat /\ next = n + 1
      BY <2>1
    <2>3. StartReasoning(c, item) = Converted(d, <<>>) BY <1>2 DEF StartReasoning
    <2> HIDE DEF t, next
    <2>4. /\ reasoning = c.reasoning \union {t}
          /\ reasoning \in SUBSET [item : Items, index : Nat, open : BOOLEAN]
      BY <2>1, <2>2 DEF Bridges
    <2> HIDE DEF reasoning, n
    <2>5. /\ d \in Bridges /\ d.text = c.text /\ d.tools = c.tools /\ d.reasoning = reasoning
          /\ d.started = c.started /\ d.has_tool_use = c.has_tool_use
          /\ d.terminated = c.terminated /\ d.next_index = next
      BY <2>1, <2>2, <2>4 DEF Bridges
    <2> HIDE DEF d
    <2>6. IndexesAreOwn(d) BY <2>1, <2>2, <2>4, <2>5 DEF Open, IndexesAreOwn, Bridges
    <2>7. IndexesAreTold(d, v.used)
      <3>1. \A b \in v.used : /\ b.index < n /\ b.index \in Nat
                              /\ \A y \in c.reasoning : ~y.open => y.index # b.index
        BY <2>1 DEF Open, IndexesAreTold, Wires, Names
      <3>. QED BY <2>1, <2>2, <2>4, <2>5, <3>1 DEF Open, IndexesAreTold
    <2>8. {x \in d.reasoning : x.open} = {x \in c.reasoning : x.open}
      BY <2>2, <2>4, <2>5
    <2>9. Blocks(d) = Blocks(c) BY <2>5, <2>8 DEF Blocks
    <2>10. Reads(d, v)
      <3>1. Open(d, v) BY <2>1, <2>6, <2>7, <2>9 DEF Open
      <3>. QED BY <2>1, <2>5, <3>1 DEF Reads
    <2>11. ReadAll(v, <<>>) = v BY ReadNothing
    <2>. QED BY <2>3, <2>10, <2>11, ConvertedIs DEF Goes
  <1>. QED BY <1>1, <1>2

LEMMA ReasoningDeltaGoes ==
  ASSUME NEW c, NEW v, Reads(c, v), c.started, ~c.terminated, NEW item \in Items
  PROVE  Goes(v, ReasoningDelta(c, item))
  <1>1. CASE Of(c.reasoning, item) = {} BY <1>1, FailGoes DEF ReasoningDelta
  <1>2. CASE Of(c.reasoning, item) # {}
    <2> DEFINE block == CHOOSE b \in Of(c.reasoning, item) : TRUE
               start == IF block.open THEN <<>> ELSE <<BlockStart(block.index, "thinking")>>
               t == [block EXCEPT !.open = TRUE]
               reasoning == Others(c.reasoning, item) \union {t}
               d == [c EXCEPT !.text = {}, !.reasoning = reasoning]
               o == BlockStart(block.index, "thinking")
               p == BlockDelta(block.index, "thinking")
               out == StopText(c) \o start \o <<p>>
               q == Quiet(c)
               u == ReadAll(v, StopText(c))
               x == IF block.open THEN u ELSE Read(u, o)
               name == Named(block.index, "thinking")
    <2>1. c \in Bridges /\ Open(c, v) BY DEF Reads
    <2>2. block \in c.reasoning /\ block.item = item BY <1>2 DEF Of
    <2>3. ReasoningDelta(c, item) = Converted(d, out) BY <1>2 DEF ReasoningDelta
    <2> HIDE DEF block
    <2>4. /\ t.item = item /\ t.index = block.index /\ t.open
          /\ t \in [item : Items, index : Nat, open : BOOLEAN]
          /\ block.index \in Nat
      BY <2>1, <2>2 DEF Bridges
    <2>17. block.index < c.next_index BY <2>1, <2>2 DEF Open, IndexesAreOwn
    <2> HIDE DEF t
    <2>5. /\ reasoning = {b \in c.reasoning : b.item # item} \union {t}
          /\ reasoning \in SUBSET [item : Items, index : Nat, open : BOOLEAN]
      BY <2>1, <2>4 DEF Bridges, Others
    <2> HIDE DEF reasoning
    <2>6. /\ d \in Bridges /\ d.text = {} /\ d.tools = c.tools /\ d.reasoning = reasoning
          /\ d.started = c.started /\ d.has_tool_use = c.has_tool_use
          /\ d.terminated = c.terminated /\ d.next_index = c.next_index
      BY <2>1, <2>5 DEF Bridges
    <2>7. /\ q \in Bridges /\ q.text = {} /\ q.tools = c.tools /\ q.reasoning = c.reasoning
          /\ q.next_index = c.next_index /\ q.has_tool_use = c.has_tool_use
      BY <2>1 DEF Quiet, Bridges
    <2>8. u.phase = "open" /\ u.open = Blocks(q) /\ Open(q, u) /\ u \in Wires
      BY QuietReads DEF Reads
    <2>9. ReadAll(v, out) = Read(x, p)
      <3> HIDE DEF o, p
      <3>1. \A i, j \in c.text : i = j BY <2>1 DEF Open, IndexesAreOwn
      <3>5. Behind(c, v, o, p) BY <3>1, BehindText
      <3>2. /\ ReadAll(v, StopText(c) \o <<>> \o <<p>>) = Read(ReadAll(v, StopText(c)), p)
            /\ ReadAll(v, StopText(c) \o <<o>> \o <<p>>)
                 = Read(Read(ReadAll(v, StopText(c)), o), p)
        BY <3>5 DEF Behind
      <3>3. CASE block.open
        <4>1. out = StopText(c) \o <<>> \o <<p>> BY <3>3
        <4>2. x = u BY <3>3
        <4> HIDE DEF out, x
        <4>. QED BY <3>2, <4>1, <4>2
      <3>4. CASE ~block.open
        <4>1. out = StopText(c) \o <<o>> \o <<p>> BY <3>4 DEF o
        <4>2. x = Read(u, o) BY <3>4
        <4> HIDE DEF out, x
        <4>. QED BY <3>2, <4>1, <4>2
      <3>. QED BY <3>3, <3>4
    <2> HIDE DEF q, u, d, out
    <2>10. \A b \in c.reasoning : (b.item = item <=> b = block) /\ (b.index = block.index <=> b = block)
      BY <2>1, <2>2 DEF Open, IndexesAreOwn
    <2>11. /\ x \in Wires /\ x.phase = "open" /\ x.open = u.open \union {name}
           /\ x.used = IF block.open THEN u.used ELSE u.used \union {name}
      <3>1. CASE block.open
        <4>1. name \in Blocks(q) BY <2>2, <2>7, <3>1 DEF Blocks
        <4>. QED BY <2>8, <3>1, <4>1
      <3>2. CASE ~block.open
        <4>1. \A b \in u.used : b.index # block.index
          BY <2>2, <2>7, <2>8, <3>2 DEF Open, IndexesAreTold
        <4>2. /\ Read(u, o) \in Wires /\ Read(u, o).phase = "open"
              /\ Read(u, o).open = u.open \union {name}
              /\ Read(u, o).used = u.used \union {name}
          BY <2>4, <2>8, <4>1, ReadStart
        <4>. QED BY <3>2, <4>2
      <3>. QED BY <3>1, <3>2
    <2> HIDE DEF x
    <2>12. Read(x, p) = x BY <2>11, ReadDelta
    <2>13. IndexesAreOwn(d)
      BY <2>1, <2>2, <2>4, <2>5, <2>6, <2>10 DEF Open, IndexesAreOwn
    <2>14. IndexesAreTold(d, x.used)
      <3>1. \A b \in u.used : /\ b.index < c.next_index
                              /\ \A y \in c.reasoning : ~y.open => y.index # b.index
        BY <2>7, <2>8 DEF Open, IndexesAreTold
      <3>2. c.has_tool_use => \E b \in u.used : b.block = "tool_use"
        BY <2>7, <2>8 DEF Open, IndexesAreTold
      <3>3. name.index = block.index BY DEF Named
      <3> HIDE DEF name
      <3>4. \A b \in x.used : b \in u.used \/ b = name BY <2>11
      <3>5. \A b \in u.used : b \in x.used BY <2>11
      <3>6. \A y \in d.reasoning : ~y.open => y \in c.reasoning /\ y.index # block.index
        BY <2>4, <2>5, <2>6, <2>10
      <3>. QED BY <2>17, <2>6, <3>1, <3>2, <3>3, <3>4, <3>5, <3>6 DEF IndexesAreTold
    <2>15. Blocks(d) = Blocks(q) \union {name}
      <3>1. \A a : a \in {y \in d.reasoning : y.open}
                    <=> a \in {y \in c.reasoning : y.open} \ {block} \/ a = t
        BY <2>4, <2>5, <2>6, <2>10
      <3>2. \A a : a \in {Named(b.index, "thinking") : b \in {y \in d.reasoning : y.open}}
                    <=> a \in {Named(b.index, "thinking") : b \in {y \in c.reasoning : y.open}}
                          \/ a = name
        BY <2>2, <2>4, <3>1
      <3>. QED BY <2>6, <2>7, <3>2 DEF Blocks
    <2>16. Reads(d, x)
      <3>1. x.open = Blocks(d) BY <2>8, <2>11, <2>15
      <3>2. Open(d, x) BY <2>11, <2>13, <2>14, <3>1 DEF Open
      <3>. QED BY <2>6, <2>11, <3>2 DEF Reads
    <2>. QED BY <2>3, <2>9, <2>12, <2>16, ConvertedIs DEF Goes
  <1>. QED BY <1>1, <1>2

LEMMA StopReasoningGoes ==
  ASSUME NEW c, NEW v, Reads(c, v), ~c.terminated, NEW item \in Items
  PROVE  Goes(v, StopReasoning(c, item))
  <1>1. CASE Of(c.reasoning, item) = {} BY <1>1, FailGoes DEF StopReasoning
  <1>2. CASE Of(c.reasoning, item) # {}
    <2> DEFINE block == CHOOSE b \in Of(c.reasoning, item) : TRUE
               reasoning == Others(c.reasoning, item)
               d == [c EXCEPT !.reasoning = reasoning]
               p == BlockStop(block.index)
               out == IF block.open THEN <<p>> ELSE <<>>
               u == IF block.open THEN Read(v, p) ELSE v
    <2>0. c.started BY <1>2 DEF Reads, FreshBridge, Of
    <2>1. c \in Bridges /\ v \in Wires /\ Open(c, v) BY <2>0 DEF Reads
    <2>2. block \in c.reasoning /\ block.item = item BY <1>2 DEF Of
    <2>3. StopReasoning(c, item) = Converted(d, out) BY <1>2 DEF StopReasoning
    <2> HIDE DEF block
    <2>4. ReadAll(v, out) = u
      <3> HIDE DEF p
      <3>1. ReadAll(v, <<>>) = v /\ \A x : ReadAll(v, <<x>>) = Read(v, x) BY ReadNothing, ReadOne
      <3>. QED BY <3>1
    <2>5. /\ reasoning = {b \in c.reasoning : b.item # item}
          /\ reasoning \in SUBSET [item : Items, index : Nat, open : BOOLEAN]
      BY <2>1 DEF Bridges, Others
    <2> HIDE DEF reasoning
    <2>6. /\ d \in Bridges /\ d.text = c.text /\ d.tools = c.tools /\ d.reasoning = reasoning
          /\ d.started = c.started /\ d.has_tool_use = c.has_tool_use
          /\ d.terminated = c.terminated /\ d.next_index = c.next_index
      BY <2>1, <2>5 DEF Bridges
    <2> HIDE DEF d, out
    <2>7. \A b \in c.reasoning : (b.item = item <=> b = block) /\ (b.index = block.index <=> b = block)
      BY <2>1, <2>2 DEF Open, IndexesAreOwn
    <2>8. \A a : a \in d.reasoning <=> a \in c.reasoning /\ a # block
      BY <2>5, <2>6, <2>7
    <2>9. IndexesAreOwn(d) BY <2>1, <2>6, <2>8 DEF Open, IndexesAreOwn
    <2>10. IndexesAreTold(d, v.used) BY <2>1, <2>6, <2>8 DEF Open, IndexesAreTold
    <2>11. \A i, name : Named(i, name).index = i BY DEF Named
    <2>12. CASE ~block.open
      <3>1. {y \in d.reasoning : y.open} = {y \in c.reasoning : y.open}
        BY <2>8, <2>12
      <3>2. Blocks(d) = Blocks(c) BY <2>6, <3>1 DEF Blocks
      <3>3. Open(d, v) BY <2>1, <2>9, <2>10, <3>2 DEF Open
      <3>4. Reads(d, v) BY <2>0, <2>1, <2>6, <3>3 DEF Reads
      <3>. QED BY <2>3, <2>4, <2>12, <3>4, ConvertedIs DEF Goes
    <2>13. CASE block.open
      <3>1. Named(block.index, "thinking") \in v.open BY <2>1, <2>2, <2>13 DEF Open, Blocks
      <3>2. /\ u \in Wires /\ u.phase = "open" /\ u.used = v.used
            /\ u.open = {b \in v.open : b.index # block.index}
        BY <2>1, <2>11, <2>13, <3>1, ReadStop DEF Open
      <3> HIDE DEF u
      <3>3. \A a : a \in Blocks(d) <=> a \in Blocks(c) /\ a.index # block.index
        <4>1. \A a : a \in {Named(i, "text") : i \in d.text}
                       <=> a \in {Named(i, "text") : i \in c.text} /\ a.index # block.index
          BY <2>1, <2>2, <2>6, <2>11 DEF Open, IndexesAreOwn
        <4>2. \A a : a \in {Named(b.index, "tool_use") : b \in d.tools}
                       <=> a \in {Named(b.index, "tool_use") : b \in c.tools}
                             /\ a.index # block.index
          BY <2>1, <2>2, <2>6, <2>11 DEF Open, IndexesAreOwn
        <4>3. \A a : a \in {Named(b.index, "thinking") : b \in {x \in d.reasoning : x.open}}
                       <=> a \in {Named(b.index, "thinking") : b \in {x \in c.reasoning : x.open}}
                             /\ a.index # block.index
          BY <2>7, <2>8, <2>11
        <4>. QED BY <4>1, <4>2, <4>3 DEF Blocks
      <3>4. u.open = Blocks(d)
        <4>1. v.open = Blocks(c) BY <2>1 DEF Open
        <4>2. \A a : a \in u.open <=> a \in Blocks(d) BY <3>2, <3>3, <4>1
        <4>. QED BY <3>2, <3>3, <4>1, <4>2
      <3>5. Open(d, u) BY <2>9, <2>10, <3>2, <3>4 DEF Open
      <3>6. Reads(d, u) BY <2>0, <2>6, <3>2, <3>5 DEF Reads
      <3>. QED BY <2>3, <2>4, <3>6, ConvertedIs DEF Goes
    <2>. QED BY <2>12, <2>13
  <1>. QED BY <1>1, <1>2

(* The message ends when no block is open but a text.                       *)
LEMMA CompleteGoes ==
  ASSUME NEW c, NEW v, Reads(c, v), c.started, ~c.terminated, NEW kind
  PROVE  Goes(v, CompleteMessage(c, kind)) /\ CompleteMessage(c, kind).bridge.terminated
  <1>1. CASE c.tools # {} \/ c.reasoning # {} BY <1>1, FailGoes DEF CompleteMessage
  <1>2. CASE c.tools = {} /\ c.reasoning = {}
    <2> DEFINE d == [c EXCEPT !.text = {}, !.terminated = TRUE]
               reason == StopReason(c, kind)
               o == Out("message_delta", 0, reason)
               p == Out("message_stop", 0, "none")
               q == Quiet(c)
               u == ReadAll(v, StopText(c))
    <2>1. c \in Bridges /\ Open(c, v) BY DEF Reads
    <2>2. CompleteMessage(c, kind) = Converted(d, StopText(c) \o <<o, p>>)
      BY <1>2 DEF CompleteMessage
    <2>3. ReadAll(v, StopText(c) \o <<o, p>>) = Read(Read(u, o), p)
      <3> HIDE DEF o, p
      <3>1. \A i, j \in c.text : i = j BY <2>1 DEF Open, IndexesAreOwn
      <3>2. Behind(c, v, o, p) BY <3>1, BehindText
      <3>. QED BY <3>2 DEF Behind
    <2>4. d \in Bridges /\ d.terminated BY <2>1 DEF Bridges
    <2>5. /\ q.text = {} /\ q.tools = {} /\ q.reasoning = {} /\ q.has_tool_use = c.has_tool_use
      BY <1>2, <2>1 DEF Quiet, Bridges
    <2>6. u.phase = "open" /\ u.open = Blocks(q) /\ Open(q, u) /\ u \in Wires
      BY QuietReads DEF Reads
    <2> HIDE DEF q, u, d
    <2>7. u.open = {} BY <2>5, <2>6 DEF Blocks
    <2>8. reason = "tool_use" => c.has_tool_use BY DEF StopReason
    <2> HIDE DEF reason
    <2>9. reason = "tool_use" => \E b \in u.used : b.block = "tool_use"
      BY <2>5, <2>6, <2>8 DEF Open, IndexesAreTold
    <2>10. Read(u, o) \in Wires /\ Read(u, o).phase = "told"
      BY <2>6, <2>7, <2>9, ReadTold
    <2> HIDE DEF o
    <2>11. Read(Read(u, o), p) \in Wires /\ Read(Read(u, o), p).phase = "stopped"
      BY <2>10, ReadEnds
    <2>12. Reads(d, Read(Read(u, o), p)) BY <2>4, <2>11 DEF Reads
    <2>. QED BY <2>2, <2>3, <2>4, <2>12, ConvertedIs DEF Goes
  <1>. QED BY <1>1, <1>2

(* Whatever an upstream sends, what the bridge makes of it is legal for its *)
(* reader; the end of the response and a failure end the message, and an    *)
(* event of the lifecycle can only break it off.                            *)
LEMMA EventGoes ==
  ASSUME NEW c, NEW v, Reads(c, v), ~c.terminated, NEW e \in BridgeEvents
  PROVE  LET k == ProcessEvent(c, e) IN
         /\ Goes(v, k)
         /\ e.kind \in {"failed", "garbage"} => k.bridge.terminated
         /\ (e.kind \in {"failed", "garbage"} \/ Lifecycle(e)) /\ k.bridge.terminated
              => ReadAll(v, k.out).phase = "errored"
  <1> DEFINE k == ProcessEvent(c, e)
             failing == \/ e.kind \in {"failed", "garbage", "unknown", "progress"}
                        \/ e.kind \in NeedsMessage /\ ~c.started
  <1>1. CASE failing
    <2>1. k = Fail(c, <<>>) BY <1>1 DEF ProcessEvent
    <2>. QED BY <2>1, FailGoes
  <1>2. CASE ~failing
    <2>0. e.kind \in NeedsMessage => c.started BY <1>2
    <2>1. /\ e.kind = "silent" => k = Converted(c, <<>>)
          /\ e.kind = "created" => k = StartMessage(c)
          /\ e.kind = "part" => k = StartText(c)
          /\ e.kind = "delta" => k = TextDelta(c)
          /\ e.kind = "partDone" => k = TextDone(c)
          /\ e.kind = "tool" => k = StartTool(c, e.item)
          /\ e.kind = "args" => k = ToolDelta(c, e.item)
          /\ e.kind = "argsDone" => k = StopTool(c, e.item)
          /\ e.kind = "reasoning" => k = StartReasoning(c, e.item)
          /\ e.kind = "thought" => k = ReasoningDelta(c, e.item)
          /\ e.kind = "toolDone" => k = StopToolItem(c, e.item)
          /\ e.kind = "reasoningDone" => k = StopReasoning(c, e.item)
          /\ e.kind \in {"completed", "incomplete"} => k = CompleteMessage(c, e.kind)
      BY <1>2 DEF ProcessEvent
    <2>2. /\ e.kind \in {"silent", "created", "part", "delta", "partDone", "tool", "args",
                         "argsDone", "reasoning", "thought", "toolDone", "reasoningDone",
                         "completed", "incomplete"}
          /\ e.kind \in {"tool", "args", "argsDone", "toolDone", "reasoning", "thought",
                         "reasoningDone"} => e.item \in Items
      BY <1>2 DEF BridgeEvents, E
    <2>3. e.kind \in {"part", "tool", "args", "reasoning", "thought", "completed", "incomplete"}
            => c.started
      BY <2>0 DEF NeedsMessage
    <2>4. Goes(v, StopToolItem(c, e.item)) \/ e.kind # "toolDone"
      BY <2>2, SilentGoes, StopToolGoes DEF StopToolItem
    <2> HIDE DEF k
    <2>5. Goes(v, k)
      <3>1. CASE e.kind \in {"silent", "created", "delta", "partDone"}
        BY <2>1, <3>1, SilentGoes, StartMessageGoes, TextGoes
      <3>2. CASE e.kind \in {"part", "completed", "incomplete"}
        BY <2>1, <2>3, <3>2, StartTextGoes, CompleteGoes
      <3>3. CASE e.kind \in {"tool", "args", "argsDone", "toolDone"}
        BY <2>1, <2>2, <2>3, <2>4, <3>3, StartToolGoes, ToolDeltaGoes, StopToolGoes
      <3>4. CASE e.kind \in {"reasoning", "thought", "reasoningDone"}
        BY <2>1, <2>2, <2>3, <3>4, StartReasoningGoes, ReasoningDeltaGoes, StopReasoningGoes
      <3>. QED BY <2>2, <3>1, <3>2, <3>3, <3>4
    <2>7. e.kind \notin {"failed", "garbage"} BY <1>2
    <2>8. Lifecycle(e) /\ k.bridge.terminated => ReadAll(v, k.out).phase = "errored"
      BY <1>2, <2>1, StartMessageGoes DEF Lifecycle
    <2>. QED BY <2>5, <2>7, <2>8 DEF k
  <1>. QED BY <1>1, <1>2

(* What is written for it is short, ...                                     *)
LEMMA EventIsShort ==
  ASSUME NEW c, \A i, j \in c.text : i = j, NEW e
  PROVE  Short(ProcessEvent(c, e).out)
  <1>0. \A d, out : Converted(d, out).out = out /\ Fail(d, out).out = Append(out, ErrorEvent)
    BY DEF Fail, Converted
  <1>a. \A i, j \in c.text : i = j OBVIOUS
  <1>1. Short(StopText(c)) /\ \A a : Short(Append(StopText(c), a))
    BY ShortBehindText
  <1>2. Short(Append(<<>>, ErrorEvent)) BY Concatenations, Shorts
  <1>3. \A d : Short(Fail(d, <<>>).out) BY <1>0, <1>2
  <1>4. Short(Fail(c, StopText(c)).out) BY <1>0, <1>1
  <1>5. Short(Converted(c, <<>>).out) BY <1>0, Shorts
  <1>6. Short(StartMessage(c).out) /\ Short(StartText(c).out)
    BY <1>0, <1>3, Shorts DEF StartMessage, StartText
  <1>7. Short(TextDelta(c).out)
    <2>1. CASE c.text = {} BY <1>3, <2>1 DEF TextDelta
    <2>2. CASE c.text # {}
      <3>1. PICK i : c.text = {i} BY <2>2
      <3>2. {BlockDelta(j, "text") : j \in c.text} = {BlockDelta(i, "text")} BY <3>1
      <3>3. TextDelta(c).out = <<BlockDelta(i, "text")>>
        BY <1>0, <2>2, <3>2, Fewest DEF TextDelta
      <3>. QED BY <3>3, Shorts
    <2>. QED BY <2>1, <2>2
  <1>8. Short(TextDone(c).out) BY <1>0, <1>1, <1>3 DEF TextDone
  <1>9. ASSUME NEW item PROVE Short(StartTool(c, item).out)
    BY <1>0, <1>1, <1>4 DEF StartTool
  <1>10. ASSUME NEW item PROVE Short(ToolDelta(c, item).out)
    BY <1>0, <1>3, Shorts DEF ToolDelta
  <1>11. ASSUME NEW item PROVE Short(StopTool(c, item).out)
    <2>1. \A a, b : Short(<<>> \o <<b>>) /\ Short(<<a>> \o <<b>>)
      <3>1. ASSUME NEW a, NEW b PROVE Short(<<>> \o <<b>>) /\ Short(<<a>> \o <<b>>)
        <4>1. <<>> \o <<b>> = <<b>> BY Concatenations
        <4>2. <<a>> \o <<b>> = <<a, b>> BY Concatenations
        <4>. QED BY <4>1, <4>2, Shorts
      <3>. QED BY <3>1
    <2>2. CASE Of(c.tools, item) = {} BY <1>3, <2>2 DEF StopTool
    <2>3. CASE Of(c.tools, item) # {}
      <3> DEFINE tool == CHOOSE b \in Of(c.tools, item) : TRUE
                 a == BlockDelta(tool.index, "tool_use")
                 b == BlockStop(tool.index)
                 out == (IF tool.had_delta THEN <<>> ELSE <<a>>) \o <<b>>
                 d == [c EXCEPT !.tools = Others(@, item)]
      <3>1. StopTool(c, item) = Converted(d, out) BY <2>3 DEF StopTool
      <3>2. out = <<>> \o <<b>> \/ out = <<a>> \o <<b>> OBVIOUS
      <3> HIDE DEF a, b, out, d
      <3>3. Short(<<>> \o <<b>>) /\ Short(<<a>> \o <<b>>) BY <2>1
      <3>4. Short(out) BY <3>2, <3>3
      <3>. QED BY <3>1, <3>4, ConvertedIs
    <2>. QED BY <2>2, <2>3
  <1>12. ASSUME NEW item PROVE Short(StartReasoning(c, item).out)
    BY <1>0, <1>3, Shorts DEF StartReasoning
  <1>13. ASSUME NEW item PROVE Short(ReasoningDelta(c, item).out)
    <2>1. CASE Of(c.reasoning, item) = {} BY <1>4, <2>1 DEF ReasoningDelta
    <2>2. CASE Of(c.reasoning, item) # {}
      <3> DEFINE block == CHOOSE b \in Of(c.reasoning, item) : TRUE
                 a == BlockStart(block.index, "thinking")
                 b == BlockDelta(block.index, "thinking")
                 start == IF block.open THEN <<>> ELSE <<a>>
                 out == StopText(c) \o start \o <<b>>
                 d == [c EXCEPT !.text = {}, !.reasoning = Others(@, item)
                                                \union {[block EXCEPT !.open = TRUE]}]
      <3>1. ReasoningDelta(c, item) = Converted(d, out) BY <2>2 DEF ReasoningDelta
      <3>2. out = StopText(c) \o <<>> \o <<b>> \/ out = StopText(c) \o <<a>> \o <<b>>
        OBVIOUS
      <3> HIDE DEF a, b, out, d
      <3>3. Short(StopText(c) \o <<>> \o <<b>>) /\ Short(StopText(c) \o <<a>> \o <<b>>)
        BY <1>a, ShortBehindText
      <3>4. Short(out) BY <3>2, <3>3
      <3>. QED BY <3>1, <3>4, ConvertedIs
    <2>. QED BY <2>1, <2>2
  <1>14. ASSUME NEW item PROVE Short(StopReasoning(c, item).out)
    <2>1. CASE Of(c.reasoning, item) = {} BY <1>3, <2>1 DEF StopReasoning
    <2>2. CASE Of(c.reasoning, item) # {}
      <3>1. \E block, a : StopReasoning(c, item).out = IF block.open THEN <<a>> ELSE <<>>
        BY <1>0, <2>2 DEF StopReasoning
      <3>. QED BY <3>1, Shorts
    <2>. QED BY <2>1, <2>2
  <1>15. ASSUME NEW item PROVE Short(StopToolItem(c, item).out)
    BY <1>5, <1>11 DEF StopToolItem
  <1>16. ASSUME NEW kind PROVE Short(CompleteMessage(c, kind).out)
    <2>1. CASE c.tools # {} \/ c.reasoning # {} BY <1>4, <2>1 DEF CompleteMessage
    <2>2. CASE c.tools = {} /\ c.reasoning = {}
      <3> DEFINE a == Out("message_delta", 0, StopReason(c, kind))
                 b == Out("message_stop", 0, "none")
                 d == [c EXCEPT !.text = {}, !.terminated = TRUE]
      <3>1. CompleteMessage(c, kind) = Converted(d, StopText(c) \o <<a, b>>)
        BY <2>2 DEF CompleteMessage
      <3> HIDE DEF a, b, d
      <3>2. Short(StopText(c) \o <<a, b>>) BY <1>a, ShortBehindText
      <3>. QED BY <3>1, <3>2, ConvertedIs
    <2>. QED BY <2>1, <2>2
  <1>17. \/ \E d : ProcessEvent(c, e) \in {Fail(d, <<>>), Converted(c, <<>>)}
         \/ ProcessEvent(c, e) \in {StartMessage(c), StartText(c), TextDelta(c), TextDone(c)}
         \/ \E item : ProcessEvent(c, e) \in
              {StartTool(c, item), ToolDelta(c, item), StopTool(c, item),
               StartReasoning(c, item), ReasoningDelta(c, item), StopReasoning(c, item),
               StopToolItem(c, item)}
         \/ \E kind : ProcessEvent(c, e) = CompleteMessage(c, kind)
    BY DEF ProcessEvent
  <1>. QED BY <1>3, <1>5, <1>6, <1>7, <1>8, <1>9, <1>10, <1>11, <1>12, <1>13, <1>14, <1>15,
              <1>16, <1>17

(* ... and it leaves a message begun, or over.                              *)
LEMMA EventBegins ==
  ASSUME NEW c, NEW v, Reads(c, v), ~c.terminated, NEW e \in BridgeEvents,
         c.started \/ TellsUsage(e)
  PROVE  LET d == ProcessEvent(c, e).bridge IN d.started \/ d.terminated
  <1> DEFINE k == ProcessEvent(c, e)
  <1>0. \A i, j \in c.text : i = j
    BY DEF Reads, Open, IndexesAreOwn, FreshBridge
  <1>1. Reads(k.bridge, ReadAll(v, k.out)) BY EventGoes DEF Goes
  <1>2. Short(k.out) BY <1>0, EventIsShort
  <1>3. CASE c.started
    <2>1. Wired(v) /\ v.phase = "open" BY <1>3 DEF Reads, Open, Wires, Wired
    <2>2. ReadAll(v, k.out).phase # "silent" BY <1>2, <2>1, ReadAllOn
    <2>. QED BY <1>1, <2>2 DEF Reads, FreshWire
  <1>4. CASE ~c.started
    <2>1. c = FreshBridge BY <1>4 DEF Reads
    <2>2. k = Fail(c, <<>>) \/ k = StartMessage(c)
      BY <1>4 DEF ProcessEvent, TellsUsage, NeedsMessage
    <2>3. k.bridge = [c EXCEPT !.terminated = TRUE] \/ k.bridge = [c EXCEPT !.started = TRUE]
      <3>1. Fail(c, <<>>).bridge = [c EXCEPT !.terminated = TRUE] BY DEF Fail, Converted
      <3>2. StartMessage(c).bridge = [c EXCEPT !.started = TRUE]
        BY <1>4 DEF StartMessage, Converted
      <3> HIDE DEF k
      <3>. QED BY <2>2, <3>1, <3>2
    <2>. QED BY <2>1, <2>3 DEF FreshBridge
  <1>. QED BY <1>3, <1>4

-----------------------------------------------------------------------------
(* Requests and their readers: the invariant behind the two theorems below. *)
FInv ==
  /\ AInv /\ DOMAIN wire = Requests
  /\ \A r \in Requests : Faithful(r, work[r], wire[r])

LEMMA FreshReads ==
  /\ Reads(FreshBridge, FreshWire) /\ ~FreshBridge.terminated
  /\ ReadAll(FreshWire, <<>>) = FreshWire /\ Short(<<>>) /\ Wired(FreshWire)
  <1>1. Reads(FreshBridge, FreshWire) /\ ~FreshBridge.terminated
    BY DEF Reads, FreshBridge, FreshWire, Bridges, Wires
  <1>2. ReadAll(FreshWire, <<>>) = FreshWire BY ReadNothing
  <1>3. Wired(FreshWire) BY DEF Wired, FreshWire
  <1>. QED BY <1>1, <1>2, <1>3, Shorts

LEMMA PlanLength == ASSUME NEW r \in Requests
  PROVE  /\ Len(Plans[r]) \in Nat
         /\ \A m \in 1 .. Len(Plans[r]) : Plans[r][m] \in {"native", "bridge"}
  BY RequestsAssumption

(* A response that fails for certain: its head fails, or leaves it so.      *)
LEMMA DoomedHead ==
  ASSUME NEW p \in Seq(BridgeEvents), Doomed(p)
  PROVE  \/ Head(p).kind \in {"failed", "garbage"}
         \/ Lifecycle(Head(p)) /\ Doomed(Tail(p))
  <1>1. Len(p) \in Nat \ {0} /\ p[Len(p)].kind \in {"failed", "garbage"}
    BY DEF Doomed
  <1>2. CASE Len(p) = 1 BY <1>1, <1>2
  <1>3. CASE Len(p) # 1
    <2> DEFINE t == Tail(p)
    <2>1. t \in Seq(BridgeEvents) /\ Len(t) = Len(p) - 1 /\ Len(t) \in Nat \ {0}
      BY <1>1, <1>3
    <2>2. \A i \in 1 .. Len(t) : t[i] = p[i + 1] BY <1>1, <1>3
    <2>3. Head(p) = p[1] BY <1>1
    <2> HIDE DEF t
    <2>4. \A i \in 1 .. Len(p) - 1 : Lifecycle(p[i]) BY DEF Doomed
    <2>5. Lifecycle(Head(p))
      <3>0. PICK n \in Nat \ {0} : n = Len(p) BY <1>1
      <3>1. 1 \in 1 .. Len(p) - 1 BY <1>3, <3>0
      <3>2. Lifecycle(p[1]) BY <2>4, <3>1
      <3>. QED BY <2>3, <3>2
    <2>6. t[Len(t)] = p[Len(p)] BY <1>1, <2>1, <2>2
    <2>7. ASSUME NEW i \in 1 .. Len(t) - 1 PROVE Lifecycle(t[i])
      <3>1. i \in 1 .. Len(t) /\ i + 1 \in 1 .. Len(p) - 1 BY <1>1, <2>1
      <3>2. t[i] = p[i + 1] BY <2>2, <3>1
      <3>3. Lifecycle(p[i + 1]) BY <2>4, <3>1
      <3>. QED BY <3>2, <3>3
    <2>8. t # <<>> BY <2>1
    <2>9. Doomed(t) BY <1>1, <2>6, <2>7, <2>8 DEF Doomed
    <2>. QED BY <2>5, <2>9 DEF t
  <1>. QED BY <1>2, <1>3

(* Locals of a request that is not answered, whatever its stage.            *)
LEMMA FreshFaithful ==
  ASSUME NEW r \in Requests, NEW stage \in {"none", "dropping"}, NEW outcome, NEW usage
  PROVE  /\ Faithful(r, Fresh, FreshWire) /\ Faithful(r, To(Fresh, stage), FreshWire)
         /\ Faithful(r, [Fresh EXCEPT !.stage = "ending", !.record = outcome, !.usage = usage],
                     FreshWire)
  BY FreshReads, PlanLength DEF Faithful, Fresh, To, Looked

LEMMA RecordedFaithful ==
  ASSUME FInv, NEW r \in Requests, NEW outcome, Recorded(r, outcome)
  PROVE  Faithful(r, work'[r], wire'[r])
  <1> DEFINE w == [Fresh EXCEPT !.stage = "ending", !.record = outcome, !.usage = work[r].usage]
  <1>1. Faithful(r, w, FreshWire) BY FreshFaithful
  <1>2. Work(r, w) /\ wire' = [wire EXCEPT ![r] = FreshWire] BY DEF Recorded
  <1> HIDE DEF w
  <1>3. work'[r] = w BY <1>2 DEF FInv, AInv, SInv, WorkShape, Work
  <1>4. wire'[r] = FreshWire BY <1>2 DEF FInv
  <1>. QED BY <1>1, <1>3, <1>4

LEMMA HandlingFaithful ==
  ASSUME FInv, NEW r \in Requests, NEW w, Handling(r, w), Faithful(r, w, wire[r])
  PROVE  Faithful(r, work'[r], wire'[r])
  <1>1. work'[r] = w BY HandlingIs DEF FInv, AInv
  <1>2. wire' = wire BY DEF Handling
  <1>. QED BY <1>1, <1>2

(* What holds of a request before it is answered.                           *)
LEMMA Unanswered ==
  ASSUME FInv, NEW r \in Requests, Stage(r) # "answered"
  PROVE  /\ work[r].bridge = FreshBridge /\ work[r].out = <<>> /\ wire[r] = FreshWire /\ ~work[r].semantic
         /\ DOMAIN work[r] = Fields /\ WorkShape /\ work[r].stage = Stage(r)
         /\ work[r].member \in Nat \ {0} /\ work[r].kept \in 0 .. Len(Plans[r])
         /\ Stage(r) \in Looked => work[r].member <= Len(Plans[r])
         /\ Stage(r) # "ending" => ~work[r].usage
         /\ Aligned(r, work[r])
  BY DEF FInv, AInv, SInv, WorkShape, Faithful, Stage

(* The next member of the plan is tried.                                    *)
LEMMA TryNextFaithful ==
  ASSUME NEW r \in Requests, NEW w, DOMAIN w = Fields, w.bridge = FreshBridge, w.out = <<>>, ~w.semantic,
         ~w.usage, w.member \in Nat \ {0}, w.kept \in 0 .. Len(Plans[r])
  PROVE  Faithful(r, TryNext(w), FreshWire) /\ Faithful(r, Retry(w), FreshWire)
  <1> DEFINE t == TryNext(w)
             u == Retry(w)
  <1>1. /\ t.stage = "routing" /\ t.bridge = w.bridge /\ t.out = w.out /\ t.semantic = w.semantic
        /\ t.usage = w.usage /\ t.member = w.member + 1 /\ t.kept = w.kept
    BY DEF TryNext, Fields
  <1>2. /\ u.stage = "routing" /\ u.bridge = w.bridge /\ u.out = w.out /\ u.semantic = w.semantic
        /\ u.usage = w.usage /\ u.member = w.member + 1 /\ u.kept = w.kept
    BY DEF Retry, Fields
  <1> HIDE DEF t, u
  <1>3. Faithful(r, t, FreshWire) BY <1>1, FreshReads DEF Faithful, Looked
  <1>4. Faithful(r, u, FreshWire) BY <1>2, FreshReads DEF Faithful, Looked
  <1>. QED BY <1>3, <1>4 DEF t, u

LEMMA StatusAnswerFaithful ==
  ASSUME FInv, NEW r \in Requests, Stage(r) \in {"routing", "sent"},
         NEW m \in 1 .. Len(Plans[r])
  PROVE  Faithful(r, StatusAnswer(r, m), FreshWire)
  <1> DEFINE stage == IF Plans[r][m] = "bridge" THEN "mapping" ELSE "answered"
             w == StatusAnswer(r, m)
  <1>1. stage = IF Plans[r][m] = "bridge" THEN "mapping" ELSE "answered" OBVIOUS
  <1>2. w = [work[r] EXCEPT !.stage = stage, !.member = m, !.status = "error",
                            !.failures = {}, !.kept = 0]
    BY DEF StatusAnswer
  <1>3. DOMAIN work[r] = Fields /\ work[r].bridge = FreshBridge /\ work[r].out = <<>> /\ ~work[r].semantic /\ ~work[r].usage
    BY Unanswered
  <1> HIDE DEF stage, w
  <1>4. /\ w.stage = stage /\ w.member = m /\ w.status = "error" /\ w.kept = 0
        /\ w.bridge = FreshBridge /\ w.out = <<>> /\ ~w.semantic /\ ~w.usage
    BY <1>2, <1>3 DEF Fields
  <1>5. Faithful(r, w, FreshWire)
    BY <1>1, <1>4, FreshReads, PlanLength DEF Faithful, Looked
  <1>. QED BY <1>5 DEF w

LEMMA RouteFaithful ==
  ASSUME FInv, NEW r \in Requests, Route(r)
  PROVE  Faithful(r, work'[r], wire'[r])
  <1>1. CASE RefuseBody(r) \/ Terminate(r)
    BY <1>1, RecordedFaithful DEF RefuseBody, Terminate
  <1>2. Stage(r) \in {"reading", "routing", "sent", "mapping"}
    BY DEF Route, RefuseBody, ReadBody, PassOver, Terminate, Send, FailTransport,
           RespondRetryable, RespondError, Exhaust, MapNonSuccess, RespondUnusable, RespondSuccess
  <1>3. /\ work[r].bridge = FreshBridge /\ work[r].out = <<>> /\ wire[r] = FreshWire /\ ~work[r].semantic
        /\ DOMAIN work[r] = Fields /\ work[r].stage = Stage(r)
        /\ work[r].member \in Nat \ {0} /\ work[r].kept \in 0 .. Len(Plans[r])
        /\ Stage(r) \in Looked => work[r].member <= Len(Plans[r])
        /\ ~work[r].usage /\ Aligned(r, work[r]) /\ Len(Plans[r]) \in Nat
    BY <1>2, Unanswered, PlanLength
  <1>4. ASSUME NEW w, Handling(r, w), Faithful(r, w, FreshWire)
        PROVE  Faithful(r, work'[r], wire'[r])
    BY <1>3, <1>4, HandlingFaithful
  <1>5. CASE ReadBody(r) \/ Send(r)
    <2>1. PICK stage \in {"routing", "sent"} :
            /\ Handling(r, To(work[r], stage))
            /\ stage = "sent" => ~Exhausted(r)
      BY <1>5 DEF ReadBody, Send
    <2> DEFINE w == To(work[r], stage)
    <2>2. /\ w.stage = stage /\ w.bridge = work[r].bridge /\ w.out = work[r].out /\ w.semantic = work[r].semantic
          /\ w.usage = work[r].usage /\ w.member = work[r].member /\ w.kept = work[r].kept
      BY <1>3 DEF To, Fields
    <2>3. stage = "sent" => work[r].member <= Len(Plans[r])
      BY <1>3, <2>1 DEF Exhausted
    <2>4. Handling(r, w) BY <2>1
    <2> HIDE DEF w
    <2>5. Faithful(r, w, FreshWire) BY <1>3, <2>2, <2>3, FreshReads DEF Faithful, Looked
    <2>. QED BY <1>4, <2>4, <2>5
  <1>6. CASE PassOver(r) \/ RespondUnusable(r)
    BY <1>3, <1>4, <1>6, TryNextFaithful DEF PassOver, RespondUnusable
  <1>7. CASE FailTransport(r)
    <2> DEFINE w == [work[r] EXCEPT !.failures = @ \union {"transport"}]
    <2>1. /\ DOMAIN w = Fields /\ w.bridge = work[r].bridge /\ w.out = work[r].out /\ w.semantic = work[r].semantic
          /\ w.usage = work[r].usage /\ w.member = work[r].member /\ w.kept = work[r].kept
      BY <1>3 DEF Fields
    <2>2. Handling(r, TryNext(w)) BY <1>7 DEF FailTransport
    <2> HIDE DEF w
    <2>3. Faithful(r, TryNext(w), FreshWire) BY <1>3, <2>1, TryNextFaithful
    <2>. QED BY <1>4, <2>2, <2>3
  <1>8. CASE RespondRetryable(r) \/ RespondError(r)
    <2> DEFINE w == [work[r] EXCEPT !.kept = work[r].member]
    <2>1. Stage(r) = "sent" /\ work[r].member \in 1 .. Len(Plans[r])
      BY <1>3, <1>8 DEF RespondRetryable, RespondError, Looked
    <2>2. /\ DOMAIN w = Fields /\ w.bridge = work[r].bridge /\ w.out = work[r].out /\ w.semantic = work[r].semantic
          /\ w.usage = work[r].usage /\ w.member = work[r].member /\ w.kept = work[r].member
      BY <1>3 DEF Fields
    <2>3. Handling(r, TryNext(w)) \/ Handling(r, StatusAnswer(r, work[r].member))
      BY <1>8 DEF RespondRetryable, RespondError
    <2> HIDE DEF w
    <2>4. Faithful(r, TryNext(w), FreshWire)
      <3>1. w.kept \in 0 .. Len(Plans[r]) BY <1>3, <2>1, <2>2
      <3>. QED BY <1>3, <2>2, <3>1, TryNextFaithful
    <2>5. Faithful(r, StatusAnswer(r, work[r].member), FreshWire)
      BY <2>1, StatusAnswerFaithful
    <2>. QED BY <1>4, <2>3, <2>4, <2>5
  <1>9. CASE Exhaust(r)
    <2>1. CASE work[r].kept # 0
      <3>1. Stage(r) = "routing" /\ Handling(r, StatusAnswer(r, work[r].kept))
        BY <1>9, <2>1 DEF Exhaust
      <3>2. work[r].kept \in 1 .. Len(Plans[r]) BY <1>3, <2>1
      <3>. QED BY <1>4, <3>1, <3>2, StatusAnswerFaithful
    <2>2. CASE work[r].kept = 0
      BY <1>9, <2>2, RecordedFaithful DEF Exhaust
    <2>. QED BY <2>1, <2>2
  <1>10. CASE MapNonSuccess(r)
    <2> DEFINE prefix == <<E("failed")>>
               w == [work[r] EXCEPT !.stage = "answered", !.prefix = prefix, !.ended = TRUE]
    <2>1. Handling(r, w) /\ Stage(r) = "mapping" BY <1>10 DEF MapNonSuccess
    <2> HIDE DEF prefix
    <2>2. /\ w.stage = "answered" /\ w.bridge = work[r].bridge /\ w.out = work[r].out /\ w.semantic = work[r].semantic
          /\ w.usage = work[r].usage /\ w.member = work[r].member /\ w.kept = work[r].kept
          /\ w.got = work[r].got /\ w.status = work[r].status
      BY <1>3 DEF Fields
    <2>3. /\ work[r].got = <<>> /\ Plans[r][work[r].member] = "bridge"
          /\ work[r].status = "error"
      BY <1>3, <2>1 DEF Aligned, Streamed, FInv, Faithful, Stage
    <2> HIDE DEF w
    <2>4. Faithful(r, w, FreshWire)
      BY <1>3, <2>1, <2>2, <2>3, FreshReads DEF Faithful, Looked
    <2>. QED BY <1>4, <2>1, <2>4
  <1>11. ASSUME NEW whole \in BOOLEAN, RespondSuccess(r, whole)
         PROVE  Faithful(r, work'[r], wire'[r])
    <2> DEFINE w == [work[r] EXCEPT !.stage = "priming", !.status = "ok", !.whole = whole]
    <2>1. Handling(r, w) /\ Stage(r) = "sent" BY <1>11 DEF RespondSuccess
    <2>2. /\ w.stage = "priming" /\ w.bridge = work[r].bridge /\ w.out = work[r].out /\ w.semantic = work[r].semantic
          /\ w.usage = work[r].usage /\ w.member = work[r].member /\ w.kept = work[r].kept
          /\ w.prefix = work[r].prefix /\ w.status = "ok"
      BY <1>3 DEF Fields
    <2>3. work[r].prefix = <<>> BY <1>3, <2>1 DEF Aligned, Streamed, Stage
    <2>5. DOMAIN <<>> = {} OBVIOUS
    <2> HIDE DEF w
    <2>4. Faithful(r, w, FreshWire)
      BY <1>3, <2>1, <2>2, <2>3, <2>5, FreshReads DEF Faithful, Looked
    <2>. QED BY <1>4, <2>1, <2>4
  <1>. QED BY <1>1, <1>5, <1>6, <1>7, <1>8, <1>9, <1>10, <1>11 DEF Route

(* A response is committed as it was looked at.                             *)
LEMMA CommittedFaithful ==
  ASSUME NEW r \in Requests, NEW w, DOMAIN w = Fields, w.bridge = FreshBridge, w.out = <<>>, ~w.semantic,
         ~w.usage, w.member \in 1 .. Len(Plans[r]), w.kept \in 0 .. Len(Plans[r]),
         w.member = work[r].member, w.status = "ok", w.got = <<>>
  PROVE  /\ Faithful(r, Committed(r, w), FreshWire)
         /\ Kind(r) = "bridge" /\ (w.whole \/ Doomed(w.prefix))
              => Faithful(r, CommittedFailure(r, w), FreshWire)
  <1> DEFINE prefix == IF w.whole /\ Kind(r) = "bridge" THEN <<E("garbage")>> ELSE w.prefix
             c == Committed(r, w)
             f == CommittedFailure(r, w)
  <1>0. prefix = IF w.whole /\ Kind(r) = "bridge" THEN <<E("garbage")>> ELSE w.prefix
    OBVIOUS
  <1>1. c = [w EXCEPT !.stage = "answered", !.failures = {}, !.kept = 0, !.whole = FALSE,
                      !.prefix = prefix]
    BY DEF Committed
  <1>2. f = [c EXCEPT !.semantic = TRUE] BY DEF CommittedFailure
  <1> HIDE DEF prefix, c, f
  <1>3. /\ c.stage = "answered" /\ c.kept = 0 /\ c.prefix = prefix /\ c.bridge = FreshBridge /\ c.out = <<>>
        /\ ~c.semantic /\ ~c.usage /\ c.member = w.member /\ c.status = "ok" /\ c.got = <<>>
        /\ DOMAIN c = Fields
    BY <1>1 DEF Fields
  <1>4. /\ f.stage = "answered" /\ f.kept = 0 /\ f.prefix = prefix /\ f.bridge = FreshBridge /\ f.out = <<>>
        /\ ~f.usage /\ f.member = w.member /\ f.status = "ok" /\ f.got = <<>>
    BY <1>2, <1>3 DEF Fields
  <1>5. Faithful(r, c, FreshWire) BY <1>3, FreshReads, PlanLength DEF Faithful, Looked
  <1>6. ASSUME Kind(r) = "bridge", w.whole \/ Doomed(w.prefix) PROVE Faithful(r, f, FreshWire)
    <2>1. Doomed(<<E("garbage")>>)
      <3>1. /\ Len(<<E("garbage")>>) = 1 /\ <<E("garbage")>> # <<>>
            /\ <<E("garbage")>>[1] = E("garbage") /\ E("garbage").kind = "garbage"
        BY DEF E
      <3>. QED BY <3>1 DEF Doomed
    <2>2. Doomed(prefix) BY <1>0, <1>6, <2>1
    <2>. QED BY <1>4, <1>6, <2>2, FreshReads, PlanLength DEF Faithful, Looked, Kind
  <1>. QED BY <1>5, <1>6 DEF c, f

LEMMA PrimeFaithful ==
  ASSUME FInv, NEW r \in Requests, Prime(r)
  PROVE  Faithful(r, work'[r], wire'[r])
  <1>2. Stage(r) = "priming"
    BY DEF Prime, PrimeEvent, Collect, PrimeEnd, PrimeBreak, PrimeLimit
  <1>3. /\ work[r].bridge = FreshBridge /\ work[r].out = <<>> /\ wire[r] = FreshWire /\ ~work[r].semantic
        /\ DOMAIN work[r] = Fields /\ work[r].stage = "priming"
        /\ work[r].member \in 1 .. Len(Plans[r]) /\ work[r].kept \in 0 .. Len(Plans[r])
        /\ ~work[r].usage /\ Aligned(r, work[r]) /\ Len(Plans[r]) \in Nat
        /\ Kind(r) \in {"native", "bridge"}
    BY <1>2, Unanswered, PlanLength DEF Looked, Kind
  <1>4. /\ work[r].status = "ok" /\ work[r].got = <<>> /\ work[r].prefix \in Seq(BridgeEvents)
        /\ work[r].whole \/ \A i \in DOMAIN work[r].prefix : Lifecycle(work[r].prefix[i])
    BY <1>3 DEF FInv, Faithful, Aligned
  <1>5. ASSUME NEW w, Handling(r, w), Faithful(r, w, FreshWire)
        PROVE  Faithful(r, work'[r], wire'[r])
    BY <1>3, <1>5, HandlingFaithful
  <1>6. Faithful(r, Retry(work[r]), FreshWire)
    BY <1>3, TryNextFaithful
  <1>7. Faithful(r, Committed(r, work[r]), FreshWire)
    BY <1>3, <1>4, CommittedFaithful
  <1>8. CASE PrimeBreak(r) \/ PrimeLimit(r)
    BY <1>5, <1>6, <1>7, <1>8 DEF PrimeBreak, PrimeLimit
  <1>9. ASSUME NEW e \in BridgeEvents, PrimeEvent(r, e) \/ Collect(r, e)
        PROVE  Faithful(r, work'[r], wire'[r])
    <2> DEFINE b == Buffered(r, e)
               sent == IF Kind(r) = "native" THEN Append(work[r].sent, e) ELSE work[r].sent
               prefix == Append(work[r].prefix, e)
    <2>0. b = [work[r] EXCEPT !.prefix = prefix, !.sent = sent] BY DEF Buffered
    <2> HIDE DEF sent, prefix, b
    <2>1. /\ DOMAIN b = Fields /\ b.stage = "priming" /\ b.bridge = FreshBridge /\ b.out = <<>> /\ ~b.semantic
          /\ ~b.usage /\ b.member = work[r].member /\ b.kept = work[r].kept /\ b.status = "ok"
          /\ b.got = <<>> /\ b.whole = work[r].whole /\ b.prefix = prefix
      BY <1>3, <1>4, <2>0 DEF Fields
    <2>2. /\ prefix \in Seq(BridgeEvents) /\ Len(prefix) = Len(work[r].prefix) + 1
          /\ Len(work[r].prefix) \in Nat
          /\ \A i \in 1 .. Len(work[r].prefix) : prefix[i] = work[r].prefix[i]
          /\ prefix[Len(prefix)] = e /\ prefix # <<>>
      <3>1. work[r].prefix \in Seq(BridgeEvents) BY <1>4
      <3>. QED BY <3>1 DEF prefix
    <2>3. b.whole \/ \A i \in 1 .. Len(prefix) - 1 : Lifecycle(prefix[i])
      BY <1>4, <2>1, <2>2
    <2>4. ASSUME Lifecycle(e) \/ b.whole PROVE Faithful(r, b, FreshWire)
      <3>1. b.whole \/ \A i \in DOMAIN prefix : Lifecycle(prefix[i])
        BY <2>2, <2>3, <2>4
      <3>. QED BY <1>3, <2>1, <3>1, FreshReads DEF Faithful, Looked
    <2>5. ASSUME FailureEvent(e) PROVE b.whole \/ Doomed(b.prefix)
      BY <2>1, <2>2, <2>3, <2>5 DEF Doomed, FailureEvent
    <2>6. Faithful(r, Classified(r, b, e), FreshWire)
      <3>1. Faithful(r, Retry(b), FreshWire) BY <1>3, <2>1, TryNextFaithful
      <3>2. /\ Faithful(r, Committed(r, b), FreshWire)
            /\ Kind(r) = "bridge" /\ (b.whole \/ Doomed(b.prefix))
                 => Faithful(r, CommittedFailure(r, b), FreshWire)
        BY <1>3, <2>1, CommittedFaithful
      <3>3. \/ Classified(r, b, e) \in {Retry(b), Committed(r, b)}
            \/ Classified(r, b, e) = CommittedFailure(r, b) /\ FailureEvent(e) /\ Kind(r) = "bridge"
        BY DEF Classified
      <3>. QED BY <2>5, <3>1, <3>2, <3>3
    <2>7. \/ Handling(r, b) /\ (Lifecycle(e) \/ b.whole)
          \/ Handling(r, Classified(r, b, e))
      BY <1>9, <2>1 DEF PrimeEvent, Collect, b
    <2>. QED BY <1>5, <2>4, <2>6, <2>7
  <1>10. CASE PrimeEnd(r)
    <2> DEFINE w == [work[r] EXCEPT !.ended = TRUE]
    <2>1. /\ DOMAIN w = Fields /\ w.bridge = FreshBridge /\ w.out = <<>> /\ ~w.semantic /\ ~w.usage
          /\ w.member = work[r].member /\ w.kept = work[r].kept /\ w.status = "ok"
          /\ w.got = <<>> /\ w.whole = work[r].whole
      BY <1>3, <1>4 DEF Fields
    <2>2. \/ Handling(r, Retry(work[r]))
          \/ work[r].whole /\ \E e : Handling(r, Classified(r, w, e))
      BY <1>10 DEF PrimeEnd
    <2> HIDE DEF w
    <2>3. ASSUME NEW e, work[r].whole PROVE Faithful(r, Classified(r, w, e), FreshWire)
      <3>1. Faithful(r, Retry(w), FreshWire) BY <1>3, <2>1, TryNextFaithful
      <3>2. /\ Faithful(r, Committed(r, w), FreshWire)
            /\ Kind(r) = "bridge" => Faithful(r, CommittedFailure(r, w), FreshWire)
        BY <1>3, <2>1, <2>3, CommittedFaithful
      <3>3. \/ Classified(r, w, e) \in {Retry(w), Committed(r, w)}
            \/ Classified(r, w, e) = CommittedFailure(r, w) /\ Kind(r) = "bridge"
        BY DEF Classified
      <3>. QED BY <3>1, <3>2, <3>3
    <2>. QED BY <1>5, <1>6, <2>2, <2>3
  <1>. QED BY <1>8, <1>9, <1>10 DEF Prime

(* An event goes through the bridge, or as it is to the client of a native  *)
(* member; w is the work without the event.                                 *)
LEMMA ConvertingIs ==
  ASSUME FInv, NEW r \in Requests, NEW w, NEW k, Converting(r, w, k), DOMAIN w = Fields
  PROVE  /\ wire' = wire
         /\ work'[r].bridge = k.bridge /\ work'[r].out = k.out /\ work'[r].stage = w.stage
         /\ work'[r].member = w.member /\ work'[r].kept = w.kept
         /\ work'[r].semantic = w.semantic /\ work'[r].usage = w.usage
         /\ work'[r].status = w.status /\ work'[r].got = w.got /\ work'[r].prefix = w.prefix
  <1> DEFINE bridge == k.bridge
             out == k.out
             n == [w EXCEPT !.bridge = bridge, !.out = out]
  <1>1. Handling(r, n) BY DEF Converting
  <1> HIDE DEF bridge, out
  <1>2. /\ n.bridge = bridge /\ n.out = out /\ n.stage = w.stage /\ n.member = w.member
        /\ n.kept = w.kept /\ n.semantic = w.semantic /\ n.usage = w.usage
        /\ n.status = w.status /\ n.got = w.got /\ n.prefix = w.prefix
    BY DEF Fields
  <1> HIDE DEF n
  <1>3. work'[r] = n BY <1>1, HandlingIs DEF FInv, AInv
  <1>4. wire' = wire BY <1>1 DEF Handling
  <1>. QED BY <1>2, <1>3, <1>4 DEF bridge, out

LEMMA ForwardFaithful ==
  ASSUME FInv, NEW r \in Requests, NEW w, NEW e \in BridgeEvents, Forward(r, w, e), Polled(r),
         DOMAIN w = Fields, w.stage = "answered", w.member = work[r].member,
         w.kept = work[r].kept, w.semantic = work[r].semantic, w.usage = work[r].usage,
         w.status = work[r].status, w.got = work[r].got, w.bridge = work[r].bridge,
         w.out = work[r].out, w.got \in Seq(BridgeEvents),
         w.semantic => \/ e.kind \in {"failed", "garbage"}
                       \/ Lifecycle(e) /\ Doomed(w.prefix)
  PROVE  Faithful(r, work'[r], wire'[r])
  <1>0. PICK told \in BOOLEAN :
          IF Kind(r) = "bridge"
          THEN Converting(r, Observing(w, e, told), ProcessEvent(w.bridge, e))
          ELSE Handling(r, [Observing(w, e, told) EXCEPT !.got = Append(@, e)])
    BY DEF Forward
  <1> DEFINE usage == w.usage \/ (told /\ TellsUsage(e) /\ w.status = "ok")
             o == Observing(w, e, told)
  <1>01. o = [w EXCEPT !.usage = usage] BY DEF Observing
  <1>02. usage => w.usage \/ (TellsUsage(e) /\ w.status = "ok") OBVIOUS
  <1>03. /\ Kind(r) = "bridge" => Converting(r, o, ProcessEvent(w.bridge, e))
         /\ Kind(r) # "bridge" => Handling(r, [o EXCEPT !.got = Append(@, e)])
    BY <1>0
  <1> HIDE DEF o, usage
  <1>1. /\ o.stage = "answered" /\ o.got = w.got /\ o.prefix = w.prefix /\ o.bridge = w.bridge
        /\ o.out = w.out /\ o.member = w.member /\ o.kept = w.kept
        /\ o.semantic = w.semantic /\ o.status = w.status /\ o.usage = usage
        /\ DOMAIN o = Fields
    BY <1>01 DEF Fields
  <1>2. /\ Faithful(r, work[r], wire[r]) /\ work[r].stage = "answered"
        /\ ~w.bridge.terminated /\ w.out = <<>>
    BY DEF FInv, Polled, Stage
  <1>21. ReadAll(wire[r], w.out) = wire[r] BY <1>2, ReadNothing
  <1>3. /\ Reads(w.bridge, wire[r]) /\ w.member \in Nat \ {0} /\ w.kept \in 0 .. Len(Plans[r])
        /\ w.member <= Len(Plans[r]) /\ w.status \in {"ok", "error"} /\ Wired(wire[r])
        /\ w.usage => /\ w.status = "ok"
                      /\ IF Kind(r) = "bridge" THEN w.bridge.started
                         ELSE \E i \in DOMAIN w.got : TellsUsage(w.got[i])
        /\ Kind(r) = "bridge" => w.got = <<>>
        /\ w.semantic => Kind(r) = "bridge"
        /\ Kind(r) # "bridge" => w.bridge = FreshBridge /\ wire[r] = FreshWire
    BY <1>2, <1>21 DEF Faithful, Looked, Kind
  <1>4. CASE Kind(r) = "bridge"
    <2> DEFINE c == w.bridge
               k == ProcessEvent(c, e)
               n == work'[r]
               seen == ReadAll(wire[r], k.out)
    <2>1. Converting(r, o, k) BY <1>03, <1>4
    <2>a. Reads(c, wire[r]) /\ ~c.terminated BY <1>2, <1>3
    <2>b. \A i, j \in c.text : i = j
      BY <2>a DEF Reads, Open, IndexesAreOwn, FreshBridge
    <2> HIDE DEF c
    <2>c. Short(k.out) BY <2>b, EventIsShort
    <2>3. /\ Reads(k.bridge, seen)
          /\ e.kind \in {"failed", "garbage"} => k.bridge.terminated
          /\ (e.kind \in {"failed", "garbage"} \/ Lifecycle(e)) /\ k.bridge.terminated
               => seen.phase = "errored"
      BY <2>a, EventGoes DEF Goes
    <2>4. c.started \/ TellsUsage(e) => k.bridge.started \/ k.bridge.terminated
      BY <2>a, EventBegins
    <2>d. w.usage => c.started /\ w.status = "ok" BY <1>3, <1>4 DEF c
    <2> HIDE DEF k
    <2>2. /\ n.bridge = k.bridge /\ n.out = k.out /\ n.stage = "answered" /\ n.member = w.member
          /\ n.kept = w.kept /\ n.semantic = w.semantic /\ n.usage = usage
          /\ n.status = w.status /\ n.got = w.got /\ n.prefix = w.prefix
          /\ wire' = wire
      <3>1. /\ n.bridge = k.bridge /\ n.out = k.out /\ n.stage = o.stage /\ n.member = o.member
            /\ n.kept = o.kept /\ n.semantic = o.semantic /\ n.usage = o.usage
            /\ n.status = o.status /\ n.got = o.got /\ n.prefix = o.prefix
            /\ wire' = wire
        BY <1>1, <2>1, ConvertingIs
      <3> HIDE DEF n
      <3>. QED BY <1>1, <3>1
    <2>5. Plans[r][n.member] = "bridge" BY <1>4, <2>2 DEF Kind
    <2> HIDE DEF n
    <2>6. n.usage => n.status = "ok" /\ (n.bridge.started \/ n.bridge.terminated)
      BY <1>02, <2>2, <2>4, <2>d
    <2>7. n.semantic =>
            /\ n.bridge.terminated => seen.phase = "errored"
            /\ ~n.bridge.terminated => Doomed(n.prefix)
      BY <2>2, <2>3
    <2>8. seen = ReadAll(wire[r], n.out) BY <2>2
    <2> HIDE DEF seen
    <2>9. Faithful(r, n, wire[r])
      BY <1>3, <1>4, <2>2, <2>3, <2>5, <2>6, <2>7, <2>8, <2>c DEF Faithful, Looked
    <2>. QED BY <2>2, <2>9 DEF n
  <1>5. CASE Kind(r) # "bridge"
    <2> DEFINE got == Append(w.got, e)
               f == [o EXCEPT !.got = got]
    <2>1. Handling(r, f) BY <1>03, <1>1, <1>5
    <2> HIDE DEF got
    <2>2. /\ f.stage = "answered" /\ f.bridge = FreshBridge /\ f.out = <<>> /\ f.member = w.member
          /\ f.kept = w.kept /\ f.semantic = w.semantic /\ f.usage = usage
          /\ f.status = w.status /\ f.got = got
      BY <1>1, <1>2, <1>3, <1>5 DEF Fields
    <2> HIDE DEF f
    <2>3. /\ Len(got) = Len(w.got) + 1 /\ Len(w.got) \in Nat /\ got[Len(got)] = e
          /\ \A i \in DOMAIN w.got : i \in DOMAIN got /\ got[i] = w.got[i]
          /\ Len(got) \in DOMAIN got
      BY DEF got
    <2>4. f.usage => f.status = "ok" /\ \E i \in DOMAIN f.got : TellsUsage(f.got[i])
      <3>1. CASE w.usage
        <4>1. w.status = "ok" /\ \E i \in DOMAIN w.got : TellsUsage(w.got[i])
          BY <1>3, <1>5, <3>1
        <4>. QED BY <2>2, <2>3, <4>1
      <3>2. CASE ~w.usage BY <1>02, <2>2, <2>3, <3>2
      <3>. QED BY <3>1, <3>2
    <2>5. Plans[r][f.member] # "bridge" BY <1>5, <2>2 DEF Kind
    <2>6. Faithful(r, f, FreshWire)
      BY <1>3, <1>5, <2>2, <2>4, <2>5, FreshReads DEF Faithful, Looked
    <2>. QED BY <1>3, <1>5, <2>1, <2>6, HandlingFaithful
  <1>. QED BY <1>4, <1>5

LEMMA PollFaithful ==
  ASSUME FInv, NEW r \in Requests, Poll(r)
  PROVE  Faithful(r, work'[r], wire'[r])
  <1>1. CASE PollEnd(r) \/ PollError(r)
    BY <1>1, RecordedFaithful DEF PollEnd, PollError
  <1>2. Stage(r) = "answered" /\ work[r].stage = "answered"
    BY DEF Poll, PollPrefix, PollOutput, PollUpstream, EndUpstream, FailBridge, PollEnd,
           PollError, Polled, Stage
  <1>3. /\ Faithful(r, work[r], wire[r]) /\ DOMAIN work[r] = Fields
        /\ work[r].got \in Seq(BridgeEvents) /\ work[r].prefix \in Seq(BridgeEvents)
    BY DEF FInv, AInv, SInv, WorkShape, Aligned
  <1>4. work[r].semantic /\ Polled(r) => Doomed(work[r].prefix) /\ work[r].prefix # <<>>
    BY <1>2, <1>3 DEF Faithful, Polled, Doomed
  <1>5. CASE PollPrefix(r)
    <2> DEFINE w == [work[r] EXCEPT !.prefix = Tail(@)]
               e == Head(work[r].prefix)
    <2>1. Forward(r, w, e) /\ Polled(r) /\ work[r].prefix # <<>> BY <1>5 DEF PollPrefix
    <2>2. /\ DOMAIN w = Fields /\ w.stage = "answered" /\ w.member = work[r].member
          /\ w.kept = work[r].kept /\ w.semantic = work[r].semantic
          /\ w.usage = work[r].usage /\ w.status = work[r].status /\ w.got = work[r].got
          /\ w.bridge = work[r].bridge /\ w.out = work[r].out /\ w.prefix = Tail(work[r].prefix)
      BY <1>2, <1>3 DEF Fields
    <2> HIDE DEF w
    <2>3. e \in BridgeEvents BY <1>3, <2>1, PassingOn
    <2>4. w.semantic => \/ e.kind \in {"failed", "garbage"}
                        \/ Lifecycle(e) /\ Doomed(w.prefix)
      BY <1>3, <1>4, <2>1, <2>2, DoomedHead
    <2>. QED BY <1>3, <2>1, <2>2, <2>3, <2>4, ForwardFaithful
  <1>6. ASSUME NEW e \in BridgeEvents, PollUpstream(r, e) PROVE Faithful(r, work'[r], wire'[r])
    <2> DEFINE sent == IF Kind(r) = "native" THEN Append(work[r].sent, e) ELSE work[r].sent
               w == [work[r] EXCEPT !.sent = sent]
    <2>1. Forward(r, w, e) /\ Polled(r) /\ work[r].prefix = <<>> BY <1>6 DEF PollUpstream
    <2> HIDE DEF sent
    <2>2. /\ DOMAIN w = Fields /\ w.stage = "answered" /\ w.member = work[r].member
          /\ w.kept = work[r].kept /\ w.semantic = work[r].semantic
          /\ w.usage = work[r].usage /\ w.status = work[r].status /\ w.got = work[r].got
          /\ w.bridge = work[r].bridge /\ w.out = work[r].out
      BY <1>2, <1>3 DEF Fields
    <2> HIDE DEF w
    <2>3. ~w.semantic BY <1>4, <2>1, <2>2
    <2>. QED BY <1>3, <2>1, <2>2, <2>3, ForwardFaithful
  <1>7. CASE EndUpstream(r)
    <2> DEFINE w == [work[r] EXCEPT !.ended = TRUE]
    <2>1. Handling(r, w) BY <1>7 DEF EndUpstream
    <2>2. /\ w.stage = "answered" /\ w.member = work[r].member
          /\ w.kept = work[r].kept /\ w.semantic = work[r].semantic
          /\ w.usage = work[r].usage /\ w.status = work[r].status /\ w.got = work[r].got
          /\ w.bridge = work[r].bridge /\ w.out = work[r].out /\ w.prefix = work[r].prefix
      BY <1>2, <1>3 DEF Fields
    <2> HIDE DEF w
    <2>3. Faithful(r, w, wire[r]) BY <1>2, <1>3, <2>2 DEF Faithful
    <2>. QED BY <2>1, <2>3, HandlingFaithful
  <1>8. CASE FailBridge(r)
    <2> DEFINE c == work[r].bridge
               k == Fail(c, <<>>)
               n == work'[r]
               seen == ReadAll(wire[r], k.out)
    <2>1. /\ Converting(r, work[r], k) /\ Polled(r) /\ work[r].prefix = <<>>
          /\ Kind(r) = "bridge"
      BY <1>8 DEF FailBridge
    <2>2. Reads(c, wire[r]) /\ ~c.terminated
      <3>1. ReadAll(wire[r], <<>>) = wire[r] BY ReadNothing
      <3>. QED BY <1>3, <2>1, <3>1 DEF Faithful, Polled
    <2> HIDE DEF c
    <2>3. Reads(k.bridge, seen) /\ k.bridge.terminated /\ seen.phase = "errored"
      BY <2>2, FailGoes DEF Goes
    <2>c. Short(k.out)
      <3>1. k.out = <<ErrorEvent>> BY Concatenations DEF Fail, Converted
      <3>. QED BY <3>1, Shorts
    <2> HIDE DEF k
    <2>4. /\ n.bridge = k.bridge /\ n.out = k.out /\ n.stage = "answered"
          /\ n.member = work[r].member /\ n.kept = work[r].kept
          /\ n.semantic = work[r].semantic /\ n.usage = work[r].usage
          /\ n.status = work[r].status /\ n.got = work[r].got /\ wire' = wire
      BY <1>2, <1>3, <2>1, ConvertingIs
    <2>5. Plans[r][n.member] = "bridge" BY <2>1, <2>4 DEF Kind
    <2> HIDE DEF n
    <2>6. seen = ReadAll(wire[r], n.out) BY <2>4
    <2> HIDE DEF seen
    <2>7. Faithful(r, n, wire[r])
      BY <1>2, <1>3, <2>3, <2>4, <2>5, <2>6, <2>c DEF Faithful
    <2>. QED BY <2>4, <2>7 DEF n
  <1>9. CASE PollOutput(r)
    <2> DEFINE out == work[r].out
               tail == Tail(out)
               w == [work[r] EXCEPT !.out = tail]
               v == Read(wire[r], Head(out))
    <2>1. Work(r, w) /\ wire' = [wire EXCEPT ![r] = v] /\ out # <<>> BY <1>9 DEF PollOutput
    <2>2. work'[r] = w BY <2>1 DEF FInv, AInv, SInv, WorkShape, Work
    <2>3. wire'[r] = v BY <2>1 DEF FInv
    <2>4. Short(out) /\ Wired(wire[r]) BY <1>3 DEF Faithful
    <2>5. Short(tail) /\ ReadAll(v, tail) = ReadAll(wire[r], out) BY <2>1, <2>4, PollsOne
    <2>6. Wired(v) BY <2>4, ReadOn
    <2>7. Plans[r][work[r].member] = "bridge" BY <1>3, <2>1 DEF Faithful
    <2>8. ReadAll(wire[r], out) = ReadAll(wire[r], work[r].out) OBVIOUS
    <2> HIDE DEF v, out, tail
    <2>9. /\ w.stage = "answered" /\ w.member = work[r].member /\ w.out = tail
          /\ w.kept = work[r].kept /\ w.semantic = work[r].semantic
          /\ w.usage = work[r].usage /\ w.status = work[r].status /\ w.got = work[r].got
          /\ w.bridge = work[r].bridge /\ w.prefix = work[r].prefix
      BY <1>2, <1>3 DEF Fields
    <2> HIDE DEF w
    <2>10. ReadAll(v, w.out) = ReadAll(wire[r], work[r].out) BY <2>5, <2>8, <2>9
    <2>11. Faithful(r, w, v)
      BY <1>2, <1>3, <2>5, <2>6, <2>7, <2>9, <2>10 DEF Faithful
    <2>. QED BY <2>2, <2>3, <2>11
  <1>. QED BY <1>1, <1>5, <1>6, <1>7, <1>8, <1>9 DEF Poll

LEMMA EnterFaithful ==
  ASSUME FInv, NEW r \in Requests, Enter(r)
  PROVE  wire' = wire /\ Faithful(r, work'[r], wire[r])
  <1>1. r \in DOMAIN work /\ Faithful(r, work[r], wire[r])
    BY DEF FInv, AInv, SInv, WorkShape
  <1>2. CASE ArriveFresh(r) \/ TurnAway(r)
    BY <1>1, <1>2 DEF ArriveFresh, TurnAway, streamVars
  <1>3. Stage(r) # "answered" => wire[r] = FreshWire BY Unanswered
  <1>4. CASE CompleteUnadmitted(r) \/ LeaveUnadmitted(r)
    <2>1. work'[r] = Fresh /\ wire' = wire /\ Stage(r) = "reserved"
      BY <1>1, <1>4 DEF CompleteUnadmitted, LeaveUnadmitted, Work
    <2>. QED BY <1>3, <2>1, FreshFaithful
  <1>5. CASE Reserve(r) \/ AdmitReserved(r)
    <2>1. PICK stage \in {"reserved", "reading"} :
            Work(r, To(work[r], stage)) /\ wire' = wire /\ Stage(r) \in {"none", "reserved"}
      BY <1>5 DEF Reserve, AdmitReserved
    <2>2. /\ work[r].bridge = FreshBridge /\ work[r].out = <<>> /\ wire[r] = FreshWire /\ ~work[r].semantic
          /\ DOMAIN work[r] = Fields /\ work[r].member \in Nat \ {0}
          /\ work[r].kept \in 0 .. Len(Plans[r]) /\ ~work[r].usage
      BY <2>1, Unanswered
    <2> DEFINE w == To(work[r], stage)
    <2>3. /\ w.stage = stage /\ w.bridge = work[r].bridge /\ w.out = work[r].out /\ w.semantic = work[r].semantic
          /\ w.usage = work[r].usage /\ w.member = work[r].member /\ w.kept = work[r].kept
      BY <2>2 DEF To, Fields
    <2>4. work'[r] = w BY <1>1, <2>1 DEF Work
    <2> HIDE DEF w
    <2>5. Faithful(r, w, FreshWire) BY <2>2, <2>3, FreshReads DEF Faithful, Looked
    <2>. QED BY <2>1, <2>2, <2>4, <2>5
  <1>. QED BY <1>2, <1>4, <1>5 DEF Enter

LEMMA LeaveFaithful ==
  ASSUME FInv, NEW r \in Requests, Leave(r)
  PROVE  Faithful(r, work'[r], wire'[r])
  <1>1. CASE LeaveBody(r) BY <1>1, RecordedFaithful DEF LeaveBody
  <1>2. CASE LeaveHandler(r) \/ DropRecording(r) \/ DropGuard(r)
    <2>1. Stage(r) # "answered" /\ wire' = wire
          /\ (work'[r] = Fresh \/ work'[r] = To(Fresh, "dropping"))
      BY <1>2 DEF LeaveHandler, DropRecording, DropGuard, Work, FInv, AInv, SInv, WorkShape
    <2>2. wire[r] = FreshWire BY <2>1, Unanswered
    <2>. QED BY <2>1, <2>2, FreshFaithful
  <1>. QED BY <1>1, <1>2 DEF Leave

(* Nobody else's reader moves.                                              *)
LEMMA HandleWire ==
  ASSUME FInv, NEW r \in Requests, Handle(r)
  PROVE  DOMAIN wire' = Requests /\ \A q \in Requests \ {r} : wire'[q] = wire[q]
  <1>1. wire' = wire \/ \E v : wire' = [wire EXCEPT ![r] = v]
    <2>1. CASE Leave(r)
      BY <2>1 DEF Leave, LeaveBody, LeaveHandler, DropRecording, DropGuard, Recorded
    <2>2. CASE Route(r)
      BY <2>2 DEF Route, RefuseBody, ReadBody, PassOver, Terminate, Send, FailTransport,
         RespondRetryable, RespondError, Exhaust, MapNonSuccess, RespondUnusable,
         RespondSuccess, Recorded, Handling
    <2>3. CASE Prime(r)
      BY <2>3 DEF Prime, PrimeEvent, Collect, PrimeEnd, PrimeBreak, PrimeLimit, Handling
    <2>4. CASE Poll(r)
      BY <2>4 DEF Poll, PollPrefix, PollOutput, PollUpstream, EndUpstream, FailBridge,
         PollEnd, PollError, Forward, Converting, Recorded, Handling
    <2>. QED BY <2>1, <2>2, <2>3, <2>4 DEF Handle
  <1>. QED BY <1>1 DEF FInv

LEMMA NextFaithful == ASSUME FInv, [RequestsNext]_allVars PROVE FInv'
  <1>1. AInv /\ AInv' /\ SInv BY NextAligned DEF FInv, AInv
  <1>2. ASSUME work' = work, wire' = wire PROVE FInv' BY <1>1, <1>2 DEF FInv
  <1>3. ASSUME NEW r \in Requests, Enter(r) \/ Handle(r) PROVE FInv'
    <2>1. Faithful(r, work'[r], wire'[r])
      BY <1>3, EnterFaithful, RouteFaithful, PrimeFaithful, PollFaithful, LeaveFaithful
         DEF Handle
    <2>2. \A q \in Requests \ {r} : work'[q] = work[q]
      BY <1>1, <1>3, ReserveDoes, AdmitReservedDoes, UnadmittedDoes, HandleDoes,
         RecordedDoes
         DEF Enter, ArriveFresh, TurnAway, streamVars, StaysAdmitted, Moves
    <2>3. DOMAIN wire' = Requests /\ \A q \in Requests \ {r} : wire'[q] = wire[q]
      BY <1>3, EnterFaithful, HandleWire DEF FInv
    <2>4. ASSUME NEW q \in Requests PROVE Faithful(q, work'[q], wire'[q])
      BY <2>1, <2>2, <2>3 DEF FInv
    <2>. QED BY <1>1, <2>3, <2>4 DEF FInv
  <1>4. Store \/ StopServer \/ OwnerStep \/ UNCHANGED allVars => work' = work /\ wire' = wire
    BY DEF Store, StopServer, OwnerStep, streamVars, allVars
  <1>. QED BY <1>2, <1>3, <1>4 DEF RequestsNext

LEMMA InitFaithful == RequestsInit => FInv
  <1>1. RequestsInit => AInv
    BY RequestsInitHolds, FreshAligned DEF RequestsInit, AInv
  <1>. QED BY <1>1, FreshFaithful DEF RequestsInit, FInv

(* What a client reads is one answer: of a native member the stream of one  *)
(* attempt, through the bridge a well-formed stream of messages, whatever   *)
(* the upstream sends and wherever it breaks off.                           *)
THEOREM ClientsReadOneAnswer == RequestsSpec => []ClientReadsOneAnswer
  <1>1. ASSUME FInv, NEW r \in Requests PROVE wire[r].phase # "garbled"
    <2> DEFINE out == work[r].out
    <2>1. Reads(work[r].bridge, ReadAll(wire[r], out)) /\ Short(out) /\ Wired(wire[r])
      BY <1>1 DEF FInv, Faithful
    <2> HIDE DEF out
    <2>2. ReadAll(wire[r], out).phase # "garbled"
      BY <2>1 DEF Reads, Open, FreshWire
    <2>. QED BY <2>1, <2>2, ReadAllOn
  <1>2. RequestsSpec => []WireIsWellFormed
    <2>1. FInv => WireIsWellFormed BY <1>1 DEF WireIsWellFormed
    <2>. QED BY <2>1, InitFaithful, NextFaithful, PTL DEF RequestsSpec
  <1>. QED BY <1>2, AnswersAreOneAttempt, PTL DEF ClientReadsOneAnswer

-----------------------------------------------------------------------------
(* The record of r is written in this step and says what its client saw.    *)
Told(r) ==
  /\ Tells(r)
  /\ work'[r].usage => UsageOfAnswer(r)

LEMMA RecordedIs ==
  ASSUME FInv, NEW r \in Requests, NEW outcome, Recorded(r, outcome)
  PROVE  work'[r].record = outcome /\ work'[r].usage = work[r].usage
  <1> DEFINE usage == work[r].usage
             w == [Fresh EXCEPT !.stage = "ending", !.record = outcome, !.usage = usage]
  <1>1. Work(r, w) BY DEF Recorded
  <1> HIDE DEF usage
  <1>2. w.record = outcome /\ w.usage = usage BY DEF Fresh
  <1> HIDE DEF w
  <1>3. work'[r] = w BY <1>1 DEF FInv, AInv, SInv, WorkShape, Work
  <1>. QED BY <1>2, <1>3 DEF usage

(* Before there is a response nothing was shown.                            *)
LEMMA UnansweredRecord ==
  ASSUME FInv, NEW r \in Requests, Stage(r) \in {"reading", "routing"}, NEW outcome,
         Recorded(r, outcome),
         outcome \in {"route-unavailable", UnansweredOutcome(work[r])}
  PROVE  Told(r)
  <1>1. work'[r].record = outcome /\ work'[r].usage = work[r].usage BY RecordedIs
  <1>2. ~work[r].usage BY Unanswered
  <1>3. Untouched(r)
    <2>1. wire[r] = FreshWire /\ Aligned(r, work[r]) /\ work[r].stage = Stage(r)
      BY Unanswered
    <2>. QED BY <2>1 DEF Untouched, Aligned, Streamed
  <1>4. \/ outcome \in {"route-unavailable", "transport-error"}
        \/ outcome = "semantic-error" /\ "semantic" \in work[r].failures
    BY DEF UnansweredOutcome
  <1>5. Tells(r) BY <1>1, <1>3, <1>4 DEF Tells
  <1>. QED BY <1>1, <1>2, <1>5 DEF Told

(* A response is recorded when its body ends, breaks off or is left.        *)
LEMMA AnsweredRecord ==
  ASSUME FInv, NEW r \in Requests, PollEnd(r) \/ PollError(r) \/ LeaveBody(r)
  PROVE  Told(r)
  <1> DEFINE w == work[r]
  <1>1. Stage(r) = "answered" /\ w.stage = "answered"
    BY DEF PollEnd, PollError, LeaveBody, Polled, Stage
  <1>2. Faithful(r, w, wire[r]) /\ Aligned(r, w) BY DEF FInv, AInv
  <1>3. Kind(r) \in {"native", "bridge"}
    BY <1>1, <1>2, PlanLength DEF Faithful, Looked, Kind
  <1>4. /\ w.status \in {"ok", "error"}
        /\ w.usage => UsageOfAnswer(r)
        /\ w.semantic => Kind(r) = "bridge"
    BY <1>1, <1>2 DEF Faithful, Kind, UsageOfAnswer
  <1>41. w.bridge.terminated /\ w.out = <<>> =>
           /\ w.semantic => wire[r].phase = "errored"
           /\ wire[r].phase \in {"stopped", "errored"}
    <2>1. ReadAll(wire[r], <<>>) = wire[r] BY ReadNothing
    <2>. QED BY <1>1, <1>2, <2>1 DEF Faithful, Reads
  <1>5. Kind(r) = "native" /\ w.prefix = <<>> => w.got = w.sent
    <2>1. w.got \in Seq(BridgeEvents) BY <1>2 DEF Aligned
    <2>2. w.got \o <<>> = w.got BY <2>1
    <2>. QED BY <1>1, <1>2, <2>2 DEF Aligned, Streamed, Kind
  <1> HIDE DEF w
  <1>6. CASE PollEnd(r)
    <2>1. Recorded(r, FinishOutcome(w)) BY <1>6 DEF PollEnd, w
    <2>2. work'[r].record = FinishOutcome(w) /\ work'[r].usage = w.usage
      BY <2>1, RecordedIs DEF w
    <2>3. IF Kind(r) = "bridge" THEN w.bridge.terminated /\ w.out = <<>>
          ELSE w.ended /\ w.prefix = <<>>
      BY <1>6 DEF PollEnd, w
    <2>4. \/ FinishOutcome(w) = "upstream-error" /\ w.status = "error"
          \/ FinishOutcome(w) = "semantic-error" /\ w.semantic
          \/ FinishOutcome(w) = "success" /\ w.status = "ok"
      BY <1>4 DEF FinishOutcome
    <2>5. Tells(r)
      BY <1>3, <1>4, <1>41, <1>5, <2>2, <2>3, <2>4 DEF Tells, w
    <2>. QED BY <1>4, <2>2, <2>5 DEF Told, w
  <1>7. CASE PollError(r)
    <2>1. work'[r].record = "stream-error" /\ work'[r].usage = w.usage
      BY <1>7, RecordedIs DEF PollError, w
    <2>2. Kind(r) = "native" /\ w.prefix = <<>> BY <1>7 DEF PollError, w
    <2>3. Tells(r) BY <1>5, <2>1, <2>2 DEF Tells, w
    <2>. QED BY <1>4, <2>1, <2>3 DEF Told, w
  <1>8. CASE LeaveBody(r)
    <2>1. work'[r].record = "cancelled" /\ work'[r].usage = w.usage
      BY <1>8, RecordedIs DEF LeaveBody, w
    <2>2. Tells(r) BY <1>4, <2>1 DEF Tells, w
    <2>. QED BY <1>4, <2>1, <2>2 DEF Told, w
  <1>. QED BY <1>6, <1>7, <1>8

(* Every other step leaves a request without a record.                      *)
LEMMA StepTells ==
  ASSUME FInv, [RequestsNext]_allVars, NEW r \in Requests,
         Stage(r) # "ending", work'[r].stage = "ending"
  PROVE  Told(r)
  <1>1. SInv BY DEF FInv, AInv
  <1>2. work'[r] # work[r] BY DEF Stage
  <1>3. Handle(r)
    <2>1. Store \/ StopServer \/ OwnerStep \/ UNCHANGED allVars => work' = work
      BY DEF Store, StopServer, OwnerStep, streamVars, allVars
    <2>2. PICK q \in Requests : Enter(q) \/ Handle(q) BY <1>2, <2>1 DEF RequestsNext
    <2>3. q = r
      BY <1>1, <1>2, <2>2, ReserveDoes, AdmitReservedDoes, UnadmittedDoes, HandleDoes,
         RecordedDoes
         DEF Enter, ArriveFresh, TurnAway, streamVars, StaysAdmitted, Moves
    <2>4. ~Enter(r)
      BY <1>1, <1>2, ReserveDoes, AdmitReservedDoes, UnadmittedDoes
         DEF Enter, ArriveFresh, TurnAway, streamVars, Moves
    <2>. QED BY <2>2, <2>3, <2>4
  <1>4. queued' # queued
    <2>1. ~StaysAdmitted(r) BY DEF StaysAdmitted, Moves, Admitted
    <2>2. PICK outcome : Recorded(r, outcome)
      BY <1>1, <1>3, <2>1, HandleDoes DEF Moves
    <2>. QED BY <1>1, <2>2 DEF Recorded, SInv, PermitsAreKept
  <1>5. CASE Leave(r)
    BY <1>4, <1>5, AnsweredRecord DEF Leave, LeaveHandler, DropRecording, DropGuard
  <1>6. CASE Route(r)
    <2>1. PICK outcome : /\ Stage(r) \in {"reading", "routing"} /\ Recorded(r, outcome)
                         /\ outcome \in {"route-unavailable", UnansweredOutcome(work[r])}
      BY <1>4, <1>6
         DEF Route, RefuseBody, ReadBody, PassOver, Terminate, Send, FailTransport,
             RespondRetryable, RespondError, Exhaust, MapNonSuccess, RespondUnusable,
             RespondSuccess, Handling
    <2>. QED BY <2>1, UnansweredRecord
  <1>7. CASE Poll(r)
    BY <1>4, <1>7, AnsweredRecord
       DEF Poll, PollPrefix, PollOutput, PollUpstream, EndUpstream, FailBridge, Forward,
           Converting, Handling
  <1>8. CASE Prime(r)
    BY <1>4, <1>8
       DEF Prime, PrimeEvent, Collect, PrimeEnd, PrimeBreak, PrimeLimit, Handling
  <1>. QED BY <1>3, <1>5, <1>6, <1>7, <1>8 DEF Handle

(* What the record of a request says is what its client saw, whichever way  *)
(* its response ends; usage is recorded only of the response that was       *)
(* committed, from an event of it that was passed on or read by its bridge. *)
THEOREM RecordsTellStreams == RequestsSpec => RecordTellsStream
  <1> DEFINE Step == \A r \in Requests :
               (Stage(r) # "ending" /\ work'[r].stage = "ending") => Told(r)
  <1>1. FInv /\ [RequestsNext]_allVars => [Step]_allVars BY StepTells
  <1>2. [Step]_allVars
          => [\A r \in Requests :
               (Stage(r) # "ending" /\ work'[r].stage = "ending") =>
                 /\ Tells(r)
                 /\ work'[r].usage => UsageOfAnswer(r)]_allVars
    BY DEF Told
  <1>. QED BY <1>1, <1>2, InitFaithful, NextFaithful, PTL DEF RequestsSpec, RecordTellsStream

=============================================================================
