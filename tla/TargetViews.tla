----------------------------- MODULE TargetViews -----------------------------
(***************************************************************************)
(* How a Target View reaches the Control Planes: changes of the store take *)
(* view sequences (ViewStore), publish_target_view sends the newest one to *)
(* every session, a session forwards what it receives between the requests *)
(* it answers, and TargetSession installs pushes, refreshes and outcomes   *)
(* in whatever order they come.  A view is represented by its sequence.    *)
(***************************************************************************)
EXTENDS Naturals, Sequences

CONSTANTS
  Sessions,        \* slots for control sessions
  Writers,         \* routed requests recording observations
  FeedCapacity,    \* broadcast channel capacity (code: 32)
  OutboxCapacity,  \* RESPONSE_QUEUE_CAPACITY (code: 32)
  ViewBound        \* model bound on committed changes

ASSUME ViewsAssumption ==
  /\ ViewBound \in Nat \ {0}
  /\ FeedCapacity \in Nat \ {0}
  /\ OutboxCapacity \in Nat \ {0}

VARIABLES
  committed,       \* view_sequence: durable, of the Target's row
  published,       \* published_view_sequences; 0: nothing yet
  writers,         \* writer -> the view it will publish, 0: none
  connected,       \* sessions whose client is there
  sessions,        \* session -> the server's side of it
  clients          \* session -> the client's side of it

viewVars == <<committed, published, writers, connected, sessions, clients>>

(* stage: what the session's task is doing with an action; AtWork: the view *)
(* of its answer is read and the answer not queued yet.                     *)
AtWork == {"publishing", "answering", "refusing"}

IdleSession ==
  [stage |-> "idle", sequence |-> 0, deferred |-> FALSE, opened |-> FALSE,
   feed |-> <<>>, lagged |-> FALSE, inbox |-> <<>>, outbox |-> <<>>]

(* view 0: the target is not opened yet.                                    *)
NewClient == [view |-> 0, notified |-> 0, refresh |-> TRUE, acting |-> FALSE,
              timers |-> <<>>]

Views == 1 .. ViewBound
Frame(kind, n) == [kind |-> kind, sequence |-> n]

ViewsTypeOK ==
  /\ committed \in Views
  /\ published \in 0 .. ViewBound
  /\ writers \in [Writers -> 0 .. ViewBound]
  /\ connected \subseteq Sessions
  /\ \A s \in Sessions :
       /\ sessions[s].stage \in AtWork \union {"idle", "writing"}
       /\ sessions[s].feed \in Seq(Views)
       /\ Len(sessions[s].feed) <= FeedCapacity
       /\ Len(sessions[s].outbox) <= OutboxCapacity
       /\ clients[s].view \in 0 .. ViewBound
       /\ clients[s].notified \in 0 .. ViewBound
       /\ clients[s].timers \in Seq(Views)

ViewsInit ==
  /\ committed = 1
  /\ published = 0
  /\ writers = [w \in Writers |-> 0]
  /\ connected = {}
  /\ sessions = [s \in Sessions |-> IdleSession]
  /\ clients = [s \in Sessions |-> NewClient]

-----------------------------------------------------------------------------
(* What publish_target_view requires: the view is still the newest and      *)
(* nobody sent it yet.                                                      *)
Newest(n) == n = committed /\ n > published

Received(session, n) ==
  IF Len(session.feed) = FeedCapacity
  THEN [session EXCEPT !.feed = Append(Tail(@), n), !.lagged = TRUE]
  ELSE [session EXCEPT !.feed = Append(@, n)]

(* The sessions after a publication of n, from those in ss.                 *)
PublishTo(ss, n) ==
  IF Newest(n)
  THEN /\ published' = n
       /\ sessions' = [s \in Sessions |->
            IF s \in connected THEN Received(ss[s], n) ELSE ss[s]]
  ELSE /\ UNCHANGED published
       /\ sessions' = ss

Commits ==
  /\ committed < ViewBound
  /\ committed' = committed + 1

Close(s) ==
  /\ connected' = connected \ {s}
  /\ sessions' = [sessions EXCEPT ![s] = IdleSession]
  /\ clients' = [clients EXCEPT ![s] = NewClient]

(* A session whose client does not read its answers is closed.              *)
Send(s, session, kind, n) ==
  IF Len(session.outbox) < OutboxCapacity
  THEN /\ sessions' = [sessions EXCEPT ![s] =
            [session EXCEPT !.outbox = Append(@, Frame(kind, n))]]
       /\ UNCHANGED <<connected, clients>>
  ELSE Close(s)

-----------------------------------------------------------------------------
(* record_route_observations_for: commits a change, or finds nothing new,   *)
(* and publishes the view it read.  The handler may be dropped in between.  *)
Write(w) ==
  /\ writers[w] = 0
  /\ Commits \/ UNCHANGED committed
  /\ writers' = [writers EXCEPT ![w] = committed']
  /\ UNCHANGED <<published, connected, sessions, clients>>

PublishWritten(w) ==
  /\ writers[w] # 0
  /\ PublishTo(sessions, writers[w])
  /\ writers' = [writers EXCEPT ![w] = 0]
  /\ UNCHANGED <<committed, connected, clients>>

Forget(w) ==
  /\ writers[w] # 0
  /\ writers' = [writers EXCEPT ![w] = 0]
  /\ UNCHANGED <<committed, published, connected, sessions, clients>>

-----------------------------------------------------------------------------
(* A client connects and asks for the target.                               *)
Connect(s) ==
  /\ s \notin connected
  /\ sessions[s].stage = "idle"
  /\ connected' = connected \union {s}
  /\ sessions' = [sessions EXCEPT ![s] = [IdleSession EXCEPT !.inbox = <<"open">>]]
  /\ clients' = [clients EXCEPT ![s] = NewClient]
  /\ UNCHANGED <<committed, published, writers>>

Idling(s) == s \in connected /\ sessions[s].stage = "idle"

Asked(s, request) ==
  /\ Idling(s)
  /\ sessions[s].inbox # <<>>
  /\ Head(sessions[s].inbox) = request

Taken(s) == [sessions[s] EXCEPT !.inbox = Tail(@)]

Open(s) ==
  /\ Asked(s, "open")
  /\ Send(s, [Taken(s) EXCEPT !.opened = TRUE], "open", committed)
  /\ UNCHANGED <<committed, published, writers>>

(* An action commits.  Activations publish before they answer; the others   *)
(* defer the publication until the answer is written.                       *)
Act(s) ==
  /\ Asked(s, "act")
  /\ Commits
  /\ \E deferred \in BOOLEAN :
       sessions' = [sessions EXCEPT ![s] =
         [Taken(s) EXCEPT !.stage = IF deferred THEN "answering" ELSE "publishing",
                          !.sequence = committed', !.deferred = deferred]]
  /\ UNCHANGED <<published, writers, connected, clients>>

(* An action is refused with the authoritative view.  The check that        *)
(* refused it may have recorded drift or a required recovery; the view of a *)
(* drift, or of a compatibility that changed, is published when the refusal *)
(* is written, that of the other refusals never.                            *)
Refuse(s) ==
  /\ Asked(s, "act")
  /\ Commits \/ UNCHANGED committed
  /\ \E deferred \in BOOLEAN :
       sessions' = [sessions EXCEPT ![s] =
         [Taken(s) EXCEPT !.stage = "refusing", !.sequence = committed',
                          !.deferred = deferred]]
  /\ UNCHANGED <<published, writers, connected, clients>>

(* The task of a session finishes its handler when its client is gone.      *)
PublishActed(s) ==
  /\ sessions[s].stage = "publishing"
  /\ PublishTo([sessions EXCEPT ![s].stage = "answering"], sessions[s].sequence)
  /\ UNCHANGED <<committed, writers, connected, clients>>

AnswerKind(s) == IF sessions[s].stage = "refusing" THEN "refused" ELSE "outcome"

(* The answer is queued with the view read before, whatever was committed   *)
(* since.                                                                   *)
Answer(s) ==
  /\ sessions[s].stage \in {"answering", "refusing"}
  /\ IF s \in connected
     THEN Send(s, [sessions[s] EXCEPT !.stage = "writing"], AnswerKind(s),
               sessions[s].sequence)
     ELSE /\ sessions' = [sessions EXCEPT ![s] = IdleSession]
          /\ UNCHANGED <<connected, clients>>
  /\ UNCHANGED <<committed, published, writers>>

(* The answer was written: what was deferred is published.                  *)
Acknowledge(s) ==
  LET ss == [sessions EXCEPT ![s].stage = "idle", ![s].deferred = FALSE] IN
  /\ s \in connected
  /\ sessions[s].stage = "writing"
  /\ \A i \in DOMAIN sessions[s].outbox :
       sessions[s].outbox[i].kind \notin {"outcome", "refused"}
  /\ IF sessions[s].deferred
     THEN PublishTo(ss, sessions[s].sequence)
     ELSE /\ sessions' = ss
          /\ UNCHANGED published
  /\ UNCHANGED <<committed, writers, connected, clients>>

(* Slip: views are forwarded while an action is answered. *)
MayForwardAlways(s) == s \in connected /\ sessions[s].opened

MayForward(s) == Idling(s) /\ sessions[s].opened

(* A published view goes to the client; one that lagged gets the current.   *)
Forward(s) ==
  /\ MayForward(s)
  /\ \/ /\ sessions[s].lagged
        /\ Send(s, [sessions[s] EXCEPT !.lagged = FALSE], "push", committed)
     \/ /\ ~sessions[s].lagged
        /\ sessions[s].feed # <<>>
        /\ Send(s, [sessions[s] EXCEPT !.feed = Tail(@)], "push", Head(sessions[s].feed))
  /\ UNCHANGED <<committed, published, writers>>

(* The client leaves: what was deferred for it is never published.          *)
Disconnect(s) ==
  LET left == sessions[s] IN
  /\ s \in connected
  /\ connected' = connected \ {s}
  /\ sessions' = [sessions EXCEPT ![s] =
       IF left.stage \in AtWork
       THEN [IdleSession EXCEPT !.stage = left.stage, !.sequence = left.sequence]
       ELSE IdleSession]
  /\ clients' = [clients EXCEPT ![s] = NewClient]
  /\ UNCHANGED <<committed, published, writers>>

-----------------------------------------------------------------------------
(* The client's side: TargetSession.                                        *)
Request(s, request) ==
  sessions' = [sessions EXCEPT ![s].inbox = Append(@, request)]

StartAction(s) ==
  /\ s \in connected
  /\ clients[s].view # 0 /\ ~clients[s].acting
  /\ clients' = [clients EXCEPT ![s].acting = TRUE]
  /\ Request(s, "act")
  /\ UNCHANGED <<committed, published, writers, connected>>

Replaced(c, n) == [c EXCEPT !.view = n, !.notified = n]

Refreshed(c, n) ==
  [(IF n > c.view THEN Replaced(c, n) ELSE c) EXCEPT !.refresh = FALSE]

(* An outcome is installed as it comes; its listeners wait for the push.    *)
Installed(c, frame) ==
  CASE frame.kind = "push"    -> [c EXCEPT !.timers = Append(@, frame.sequence)]
    [] frame.kind = "open"    -> Refreshed(c, frame.sequence)
    [] frame.kind = "outcome" -> [c EXCEPT !.view = frame.sequence, !.acting = FALSE]
    [] frame.kind = "refused" -> [Replaced(c, frame.sequence) EXCEPT !.acting = FALSE]

Deliver(s) ==
  /\ s \in connected
  /\ sessions[s].outbox # <<>>
  /\ sessions' = [sessions EXCEPT ![s].outbox = Tail(@)]
  /\ clients' = [clients EXCEPT ![s] = Installed(@, Head(sessions[s].outbox))]
  /\ UNCHANGED <<committed, published, writers, connected>>

(* Slip: the push of a view an outcome installed is dropped. *)
NewerOnly(c, n) == n = c.view + 1

NextInSequence(c, n) ==
  \/ n = c.view + 1
  \/ n = c.view /\ n > c.notified

(* #receivePush, deferred by a timer behind the responses read with it.     *)
ReceivePush(s) ==
  LET c == [clients[s] EXCEPT !.timers = Tail(@)]
      n == Head(clients[s].timers)
  IN  /\ s \in connected
      /\ clients[s].timers # <<>>
      /\ IF n > c.view + 1 /\ ~c.refresh
         THEN /\ clients' = [clients EXCEPT ![s] = [c EXCEPT !.refresh = TRUE]]
              /\ Request(s, "open")
         ELSE /\ clients' = [clients EXCEPT ![s] =
                   IF NextInSequence(c, n) THEN Replaced(c, n) ELSE c]
              /\ UNCHANGED sessions
      /\ UNCHANGED <<committed, published, writers, connected>>

-----------------------------------------------------------------------------
Serve(s) ==
  \/ Open(s) \/ Act(s) \/ Refuse(s) \/ PublishActed(s) \/ Answer(s)
  \/ Acknowledge(s) \/ Forward(s)

ViewsNext ==
  \/ \E w \in Writers : Write(w) \/ PublishWritten(w) \/ Forget(w)
  \/ \E s \in Sessions :
       \/ Connect(s) \/ Serve(s) \/ Disconnect(s)
       \/ StartAction(s) \/ Deliver(s) \/ ReceivePush(s)

ViewsSpec == ViewsInit /\ [][ViewsNext]_viewVars

(* Handlers, the session's task and the client's event loop keep running.   *)
Fairness ==
  /\ \A w \in Writers : WF_viewVars(PublishWritten(w))
  /\ \A s \in Sessions :
       WF_viewVars(Serve(s)) /\ WF_viewVars(Deliver(s)) /\ WF_viewVars(ReceivePush(s))

FairViewsSpec == ViewsSpec /\ Fairness

-----------------------------------------------------------------------------
Staying(s) == s \in connected /\ s \in connected'

(* Sessions receive the published views in strictly increasing order.       *)
PushesIncrease ==
  \A s \in Sessions :
    LET feed == sessions[s].feed IN
      /\ \A i, j \in DOMAIN feed : i < j => feed[i] < feed[j]
      /\ \A i \in DOMAIN feed : feed[i] <= published

(* A client never goes back to an older view: neither does what it shows,   *)
(* although outcomes and refusals are installed without a look at their     *)
(* sequence, nor what its listeners were told; the pushes it is sent come   *)
(* in order and none before its publication.                                *)
ClientNeverRegresses ==
  [][/\ ViewsTypeOK' /\ PushesIncrease'
     /\ \A s \in Sessions :
       Staying(s) => /\ clients'[s].view >= clients[s].view
                     /\ clients'[s].notified >= clients[s].notified]_viewVars

(* The listeners of a client are told of every published view, or the       *)
(* client holds a newer one, however its pushes are skipped, its receiver   *)
(* lags or its refresh crosses a push.                                      *)
Untold(s, n) ==
  s \in connected /\ clients[s].view # 0 /\ clients[s].view <= n /\ clients[s].notified < n

PublishedViewsArrive ==
  \A s \in Sessions, n \in Views : (Untold(s, n) /\ published >= n) ~> ~Untold(s, n)
=============================================================================
