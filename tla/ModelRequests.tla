----------------------------- MODULE ModelRequests -----------------------------
(***************************************************************************)
(* A request through the model server, from its arrival to its record:     *)
(* route_responses and route_messages, the priming that decides when an    *)
(* upstream response is committed to the client, the subscription bridge   *)
(* that turns an OpenAI stream into an Anthropic one, and the request      *)
(* recorder.  Composes with ModelAdmission: a request is active from its   *)
(* guard to the drop of its response body.                                 *)
(*                                                                         *)
(* Bytes are events; a chunk is one event.                                 *)
(***************************************************************************)
EXTENDS ModelAdmission, Sequences, SequencesExt

CONSTANTS
  Plans,          \* request -> kinds of the members of the plan it pins
  Items,          \* output items an upstream stream names
  QueueCapacity,  \* COMPLETION_QUEUE_CAPACITY
  MaxEvents,      \* request -> bound: events of one native response
  MaxPrefix,      \* request -> bound: events buffered while priming
  MaxBlocks       \* bound: content blocks of one bridged response

ASSUME RequestsAssumption ==
  /\ Plans \in [Requests -> Seq({"native", "bridge"})]
  /\ QueueCapacity \in Nat \ {0}
  /\ MaxEvents \in [Requests -> Nat] /\ MaxPrefix \in [Requests -> Nat]
  /\ MaxBlocks \in Nat

VARIABLES
  work,    \* request -> the locals of its handler and of its response body
  wire,    \* request -> what its client has read of an Anthropic stream
  queued,  \* completions in the recorder's channel
  slots    \* permits of the recorder's channel that nobody holds

streamVars == <<work, wire, queued, slots>>
allVars == <<vars, streamVars>>

-----------------------------------------------------------------------------
(* Upstream events.  For a native member the Anthropic names stand with     *)
(* their OpenAI counterparts: message_start with created, and so on.        *)
E(kind) == [kind |-> kind, item |-> "none"]

NativeEvents == {E(k) : k \in {"created", "delta", "completed", "failed", "garbage"}}

BridgeEvents ==
  {E(k) : k \in {"created", "progress", "part", "delta", "partDone", "silent",
                 "completed", "incomplete", "failed", "unknown", "garbage"}}
    \union [kind : {"tool", "args", "argsDone", "toolDone",
                    "reasoning", "thought", "reasoningDone"},
            item : Items]

Lifecycle(e) == e.kind \in {"created", "progress"}
Malformed(e) == e.kind = "garbage"
FailureEvent(e) == e.kind = "failed"

(* The payloads with a response, a message or a delta of one: each of them  *)
(* may tell usage, a native message_start as well as the end.               *)
TellsUsage(e) ==
  e.kind \in {"created", "progress", "delta", "completed", "incomplete", "failed"}

-----------------------------------------------------------------------------
(* The subscription bridge: BridgeSseState and what it writes.              *)
FreshBridge ==
  [started |-> FALSE, next_index |-> 0, text |-> {}, tools |-> {},
   reasoning |-> {}, has_tool_use |-> FALSE, terminated |-> FALSE]

Out(type, index, block) == [type |-> type, index |-> index, block |-> block]
BlockStart(i, block) == Out("content_block_start", i, block)
BlockDelta(i, block) == Out("content_block_delta", i, block)
BlockStop(i) == Out("content_block_stop", i, "any")
ErrorEvent == Out("error", 0, "none")

Converted(c, out) == [bridge |-> c, out |-> out]

(* fail_invalid, behind what the event had already written.                 *)
Fail(c, out) == Converted([c EXCEPT !.terminated = TRUE], Append(out, ErrorEvent))

StopText(c) == SetToSeq({BlockStop(i) : i \in c.text})

Of(blocks, item) == {b \in blocks : b.item = item}
Others(blocks, item) == {b \in blocks : b.item # item}

StartMessage(c) ==
  IF c.started THEN Fail(c, <<>>)
  ELSE Converted([c EXCEPT !.started = TRUE], <<Out("message_start", 0, "none")>>)

StartText(c) ==
  IF c.text # {} THEN Converted(c, <<>>)
  ELSE Converted([c EXCEPT !.text = {c.next_index}, !.next_index = @ + 1],
                 <<BlockStart(c.next_index, "text")>>)

TextDelta(c) ==
  IF c.text = {} THEN Fail(c, <<>>)
  ELSE Converted(c, SetToSeq({BlockDelta(i, "text") : i \in c.text}))

TextDone(c) ==
  IF c.text = {} THEN Fail(c, <<>>)
  ELSE Converted([c EXCEPT !.text = {}], StopText(c))

StartTool(c, item) ==
  IF Of(c.tools, item) # {} THEN Fail(c, StopText(c))
  ELSE Converted([c EXCEPT !.text = {}, !.next_index = @ + 1, !.has_tool_use = TRUE,
                           !.tools = @ \union {[item |-> item, index |-> c.next_index,
                                                had_delta |-> FALSE]}],
                 Append(StopText(c), BlockStart(c.next_index, "tool_use")))

ToolDelta(c, item) ==
  IF Of(c.tools, item) = {} THEN Fail(c, <<>>)
  ELSE LET tool == CHOOSE b \in Of(c.tools, item) : TRUE
       IN  Converted([c EXCEPT !.tools = Others(@, item)
                                 \union {[tool EXCEPT !.had_delta = TRUE]}],
                     <<BlockDelta(tool.index, "tool_use")>>)

StopTool(c, item) ==
  IF Of(c.tools, item) = {} THEN Fail(c, <<>>)
  ELSE LET tool == CHOOSE b \in Of(c.tools, item) : TRUE
       IN  Converted([c EXCEPT !.tools = Others(@, item)],
                     (IF tool.had_delta THEN <<>> ELSE <<BlockDelta(tool.index, "tool_use")>>)
                       \o <<BlockStop(tool.index)>>)

(* The index is taken when the item is added, the block is started later.   *)
StartReasoning(c, item) ==
  IF Of(c.reasoning, item) # {} THEN Fail(c, <<>>)
  ELSE Converted([c EXCEPT !.next_index = @ + 1,
                           !.reasoning = @ \union {[item |-> item, index |-> c.next_index,
                                                    open |-> FALSE]}], <<>>)

ReasoningDelta(c, item) ==
  IF Of(c.reasoning, item) = {} THEN Fail(c, StopText(c))
  ELSE LET block == CHOOSE b \in Of(c.reasoning, item) : TRUE
           start == IF block.open THEN <<>> ELSE <<BlockStart(block.index, "thinking")>>
       IN  Converted([c EXCEPT !.text = {},
                               !.reasoning = Others(@, item)
                                 \union {[block EXCEPT !.open = TRUE]}],
                     StopText(c) \o start \o <<BlockDelta(block.index, "thinking")>>)

(* The item's end: a reasoning item must be known, a function call whose    *)
(* arguments are done already is passed over.                               *)
StopReasoning(c, item) ==
  IF Of(c.reasoning, item) = {} THEN Fail(c, <<>>)
  ELSE LET block == CHOOSE b \in Of(c.reasoning, item) : TRUE
       IN  Converted([c EXCEPT !.reasoning = Others(@, item)],
                     IF block.open THEN <<BlockStop(block.index)>> ELSE <<>>)

StopToolItem(c, item) ==
  IF Of(c.tools, item) = {} THEN Converted(c, <<>>) ELSE StopTool(c, item)

StopReason(c, kind) ==
  CASE kind = "incomplete" -> "max_tokens"
    [] kind = "completed" /\ c.has_tool_use -> "tool_use"
    [] OTHER -> "end_turn"

(* Slip: the message is completed over blocks that are open. *)
CompleteOverBlocks(c, kind) ==
  Converted([c EXCEPT !.text = {}, !.terminated = TRUE],
            StopText(c) \o <<Out("message_delta", 0, StopReason(c, kind)),
                             Out("message_stop", 0, "none")>>)

CompleteMessage(c, kind) ==
  IF c.tools # {} \/ c.reasoning # {} THEN Fail(c, StopText(c))
  ELSE Converted([c EXCEPT !.text = {}, !.terminated = TRUE],
                 StopText(c) \o <<Out("message_delta", 0, StopReason(c, kind)),
                                  Out("message_stop", 0, "none")>>)

NeedsMessage == {"part", "delta", "tool", "args", "reasoning", "thought",
                 "completed", "incomplete"}

ProcessEvent(c, e) ==
  IF \/ e.kind \in {"failed", "garbage", "unknown", "progress"}
     \/ e.kind \in NeedsMessage /\ ~c.started
  THEN Fail(c, <<>>)
  ELSE CASE e.kind = "silent" -> Converted(c, <<>>)
         [] e.kind = "created" -> StartMessage(c)
         [] e.kind = "part" -> StartText(c)
         [] e.kind = "delta" -> TextDelta(c)
         [] e.kind = "partDone" -> TextDone(c)
         [] e.kind = "tool" -> StartTool(c, e.item)
         [] e.kind = "args" -> ToolDelta(c, e.item)
         [] e.kind = "argsDone" -> StopTool(c, e.item)
         [] e.kind = "reasoning" -> StartReasoning(c, e.item)
         [] e.kind = "thought" -> ReasoningDelta(c, e.item)
         [] e.kind = "toolDone" -> StopToolItem(c, e.item)
         [] e.kind = "reasoningDone" -> StopReasoning(c, e.item)
         [] OTHER -> CompleteMessage(c, e.kind)

-----------------------------------------------------------------------------
(* What a reader of an Anthropic Messages stream accepts.                   *)
FreshWire == [phase |-> "silent", open |-> {}, used |-> {}]

Legal(w, o) ==
  \/ o.type = "message_start" /\ w.phase = "silent"
  \/ /\ o.type = "content_block_start" /\ w.phase = "open"
     /\ \A b \in w.used : b.index # o.index
     /\ o.block = "tool_use" => \A b \in w.open : b.block # "text"
  \/ /\ o.type = "content_block_delta" /\ w.phase = "open"
     /\ [index |-> o.index, block |-> o.block] \in w.open
  \/ /\ o.type = "content_block_stop" /\ w.phase = "open"
     /\ \E b \in w.open : b.index = o.index
  \/ /\ o.type = "message_delta" /\ w.phase = "open" /\ w.open = {}
     /\ o.block = "tool_use" => \E b \in w.used : b.block = "tool_use"
  \/ o.type = "message_stop" /\ w.phase = "told"
  \/ o.type = "error" /\ w.phase \in {"silent", "open"}

PhaseAfter(w, o) ==
  IF ~Legal(w, o) THEN "garbled"
  ELSE CASE o.type = "message_start" -> "open"
         [] o.type = "message_delta" -> "told"
         [] o.type = "message_stop" -> "stopped"
         [] o.type = "error" -> "errored"
         [] OTHER -> w.phase

Read(w, o) ==
  LET block == [index |-> o.index, block |-> o.block] IN
  [w EXCEPT
     !.phase = PhaseAfter(w, o),
     !.open = CASE o.type = "content_block_start" -> @ \union {block}
                [] o.type = "content_block_stop" -> {b \in @ : b.index # o.index}
                [] OTHER -> @,
     !.used = IF o.type = "content_block_start" THEN @ \union {block} ELSE @]

-----------------------------------------------------------------------------
(* The handler.  A recording is reserved before the request is admitted and *)
(* is held until its completion is sent or it is dropped.                   *)
Fresh ==
  [stage |-> "none", member |-> 1, failures |-> {}, kept |-> 0, status |-> "none",
   semantic |-> FALSE, whole |-> FALSE, ended |-> FALSE, sent |-> <<>>, got |-> <<>>,
   prefix |-> <<>>, bridge |-> FreshBridge, out |-> <<>>, usage |-> FALSE,
   record |-> "none"]

Kind(r) == Plans[r][work[r].member]
Exhausted(r) == work[r].member > Len(Plans[r])
LastMember(r) == work[r].member = Len(Plans[r])

Sends(r, e) == Kind(r) = "bridge" \/ e \in NativeEvents

Stage(r) == work[r].stage
Work(r, w) == work' = [work EXCEPT ![r] = w]
To(w, stage) == [w EXCEPT !.stage = stage]

Admitted == {"reading", "routing", "sent", "priming", "mapping", "answered"}
Holding == {r \in Requests : Stage(r) \in Admitted \union {"reserved", "dropping"}}

(* The completion is sent through the reserved permit and cannot fail; the  *)
(* guard is what is left of the handler.                                    *)
Recorded(r, outcome) ==
  /\ Work(r, [Fresh EXCEPT !.stage = "ending", !.record = outcome,
                           !.usage = work[r].usage])
  /\ wire' = [wire EXCEPT ![r] = FreshWire]
  /\ queued' = queued + 1
  /\ UNCHANGED <<vars, slots>>

Handling(r, w) == Work(r, w) /\ UNCHANGED <<vars, wire, queued, slots>>

ArriveFresh(r) == Stage(r) = "none" /\ Arrive(r) /\ UNCHANGED streamVars

(* Credential, plan or recorder refused it.                                 *)
TurnAway(r) == Stage(r) = "none" /\ Refuse(r) /\ UNCHANGED streamVars

Reserve(r) ==
  /\ requests[r] = "arrived" /\ Stage(r) = "none" /\ slots > 0
  /\ slots' = slots - 1
  /\ Work(r, To(work[r], "reserved"))
  /\ UNCHANGED <<vars, wire, queued>>

AdmitReserved(r) ==
  /\ Stage(r) = "reserved" /\ Admit(r)
  /\ Work(r, To(work[r], "reading"))
  /\ UNCHANGED <<wire, queued, slots>>

(* complete_after_plan: the server is reserved, or a bridge is asked to     *)
(* count tokens.                                                            *)
CompleteUnadmitted(r) ==
  /\ Stage(r) = "reserved" /\ Refuse(r)
  /\ Reserved \/ Plans[r][1] = "bridge"
  /\ Work(r, Fresh)
  /\ queued' = queued + 1
  /\ UNCHANGED <<wire, slots>>

LeaveUnadmitted(r) ==
  /\ Stage(r) = "reserved" /\ Refuse(r)
  /\ Work(r, Fresh)
  /\ slots' = slots + 1
  /\ UNCHANGED <<wire, queued>>

(* Its encoding, length, bytes or shape.                                    *)
RefuseBody(r) ==
  /\ Stage(r) = "reading"
  /\ Recorded(r, "route-unavailable")

ReadBody(r) == Stage(r) = "reading" /\ Handling(r, To(work[r], "routing"))

-----------------------------------------------------------------------------
(* The scan of the plan, as far as the answer depends on it; RequestRouter  *)
(* has its circuits and observations.                                       *)
TryNext(w) == [w EXCEPT !.stage = "routing", !.member = @ + 1]

Retry(w) ==
  [w EXCEPT !.stage = "routing", !.member = @ + 1, !.failures = @ \union {"semantic"},
            !.status = "none", !.whole = FALSE, !.sent = <<>>, !.prefix = <<>>]

(* request_record_outcome.                                                  *)
UnansweredOutcome(w) ==
  CASE "transport" \in w.failures -> "transport-error"
    [] "transport" \notin w.failures /\ "semantic" \in w.failures -> "semantic-error"
    [] OTHER -> "route-unavailable"

(* A circuit refuses the member or its attempt cannot be built.             *)
PassOver(r) ==
  /\ Stage(r) = "routing" /\ ~Exhausted(r)
  /\ Handling(r, TryNext(work[r]))

(* A request the bridge cannot express is the client's own error.           *)
Terminate(r) ==
  /\ Stage(r) = "routing" /\ ~Exhausted(r) /\ Kind(r) = "bridge"
  /\ Recorded(r, UnansweredOutcome(work[r]))

Send(r) == Stage(r) = "routing" /\ ~Exhausted(r) /\ Handling(r, To(work[r], "sent"))

FailTransport(r) ==
  /\ Stage(r) = "sent"
  /\ Handling(r, TryNext([work[r] EXCEPT !.failures = @ \union {"transport"}]))

(* A response with an error status is passed on; the bridge reads it whole. *)
StatusAnswer(r, m) ==
  [work[r] EXCEPT !.stage = IF Plans[r][m] = "bridge" THEN "mapping" ELSE "answered",
                  !.member = m, !.status = "error", !.failures = {}, !.kept = 0]

RespondRetryable(r) ==
  /\ Stage(r) = "sent"
  /\ Handling(r, IF LastMember(r) THEN StatusAnswer(r, work[r].member)
                 ELSE TryNext([work[r] EXCEPT !.kept = work[r].member]))

RespondError(r) == Stage(r) = "sent" /\ Handling(r, StatusAnswer(r, work[r].member))

Exhaust(r) ==
  /\ Stage(r) = "routing" /\ Exhausted(r)
  /\ IF work[r].kept # 0
     THEN Handling(r, StatusAnswer(r, work[r].kept))
     ELSE Recorded(r, UnansweredOutcome(work[r]))

MapNonSuccess(r) ==
  /\ Stage(r) = "mapping"
  /\ Handling(r, [work[r] EXCEPT !.stage = "answered", !.prefix = <<E("failed")>>,
                                 !.ended = TRUE])

(* No content type, or neither an event stream nor JSON.                    *)
RespondUnusable(r) == Stage(r) = "sent" /\ Handling(r, Retry(work[r]))

(* whole: JSON or compressed, collected to its end before it is looked at.  *)
RespondSuccess(r, whole) ==
  /\ Stage(r) = "sent"
  /\ Handling(r, [work[r] EXCEPT !.stage = "priming", !.status = "ok", !.whole = whole])

-----------------------------------------------------------------------------
(* Priming.                                                                 *)
Buffered(r, e) ==
  [work[r] EXCEPT !.prefix = Append(@, e),
                  !.sent = IF Kind(r) = "native" THEN Append(@, e) ELSE @]

(* committed_with_prefix.  What was collected whole is not a plain event    *)
(* stream, and the bridge cannot read it.                                   *)
Committed(r, w) ==
  [w EXCEPT !.stage = "answered", !.failures = {}, !.kept = 0, !.whole = FALSE,
            !.prefix = IF w.whole /\ Kind(r) = "bridge" THEN <<E("garbage")>> ELSE @]

CommittedFailure(r, w) == [Committed(r, w) EXCEPT !.semantic = TRUE]

(* What the first event that is no lifecycle event makes of the response.   *)
Classified(r, w, e) ==
  CASE Malformed(e) -> Retry(w)
    [] FailureEvent(e) /\ Kind(r) = "bridge" -> CommittedFailure(r, w)
    [] FailureEvent(e) /\ Kind(r) = "native" -> Retry(w)
    [] OTHER -> Committed(r, w)

PrimeEvent(r, e) ==
  /\ Stage(r) = "priming" /\ ~work[r].whole /\ Len(work[r].prefix) < MaxPrefix[r]
  /\ Sends(r, e)
  /\ Handling(r, IF Lifecycle(e) THEN Buffered(r, e) ELSE Classified(r, Buffered(r, e), e))

Deciding(prefix) == SelectSeq(prefix, LAMBDA e : ~Lifecycle(e))

(* What is collected behind the event that decides makes no difference.     *)
Collect(r, e) ==
  /\ Stage(r) = "priming" /\ work[r].whole /\ Len(work[r].prefix) < MaxPrefix[r]
  /\ Sends(r, e) /\ Deciding(work[r].prefix) = <<>>
  /\ Handling(r, Buffered(r, e))

(* The end of the response: too early for a stream, the time to look at     *)
(* what was collected whole.                                                *)
PrimeEnd(r) ==
  /\ Stage(r) = "priming"
  /\ LET deciding == Deciding(work[r].prefix) IN
     Handling(r, IF work[r].whole /\ deciding # <<>>
                 THEN Classified(r, [work[r] EXCEPT !.ended = TRUE], Head(deciding))
                 ELSE Retry(work[r]))

PrimeBreak(r) == Stage(r) = "priming" /\ Handling(r, Retry(work[r]))

(* 250 ms or 1 MiB: the response is committed as it is.                     *)
PrimeLimit(r) == Stage(r) = "priming" /\ Handling(r, Committed(r, work[r]))

-----------------------------------------------------------------------------
(* recorded_body: each poll of the client's connection.  What is passed on  *)
(* tells usage or does not; of an error's payload none is taken.            *)
Observing(w, e, told) ==
  [w EXCEPT !.usage = @ \/ (told /\ TellsUsage(e) /\ w.status = "ok")]

(* The bridge queues what an event becomes, ...                             *)
Converting(r, w, converted) ==
  Handling(r, [w EXCEPT !.bridge = converted.bridge, !.out = converted.out])

Forward(r, w, e) ==
  \E told \in BOOLEAN :
    IF Kind(r) = "bridge"
    THEN Converting(r, Observing(w, e, told), ProcessEvent(w.bridge, e))
    ELSE Handling(r, [Observing(w, e, told) EXCEPT !.got = Append(@, e)])

(* ... hands one out at each poll, ...                                      *)
PollOutput(r) ==
  /\ Stage(r) = "answered" /\ work[r].out # <<>>
  /\ wire' = [wire EXCEPT ![r] = Read(@, Head(work[r].out))]
  /\ Work(r, [work[r] EXCEPT !.out = Tail(@)])
  /\ UNCHANGED <<vars, queued, slots>>

(* ... and reads on behind the last.                                        *)
Polled(r) == Stage(r) = "answered" /\ work[r].out = <<>> /\ ~work[r].bridge.terminated

PollPrefix(r) ==
  /\ Polled(r) /\ work[r].prefix # <<>>
  /\ Forward(r, [work[r] EXCEPT !.prefix = Tail(@)], Head(work[r].prefix))

PollUpstream(r, e) ==
  /\ Polled(r) /\ work[r].prefix = <<>> /\ ~work[r].ended
  /\ Len(work[r].sent) < MaxEvents[r]
  /\ e.kind \in {"part", "tool", "reasoning"} => work[r].bridge.next_index < MaxBlocks
  /\ Sends(r, e)
  /\ Forward(r, [work[r] EXCEPT !.sent = IF Kind(r) = "native" THEN Append(@, e) ELSE @], e)

EndUpstream(r) ==
  /\ Stage(r) = "answered" /\ Kind(r) = "native" /\ ~work[r].ended
  /\ Handling(r, [work[r] EXCEPT !.ended = TRUE])

(* StreamingRecord::finish(None).                                           *)
FinishOutcome(w) ==
  CASE w.status = "error" -> "upstream-error"
    [] w.status = "ok" /\ w.semantic -> "semantic-error"
    [] OTHER -> "success"

(* The bridge turns an end or an error before its message is complete into  *)
(* an error event.                                                          *)
FailBridge(r) ==
  /\ Polled(r) /\ work[r].prefix = <<>> /\ Kind(r) = "bridge"
  /\ Converting(r, work[r], Fail(work[r].bridge, <<>>))

PollEnd(r) ==
  /\ Stage(r) = "answered"
  /\ IF Kind(r) = "bridge" THEN work[r].bridge.terminated /\ work[r].out = <<>>
     ELSE work[r].ended /\ work[r].prefix = <<>>
  /\ Recorded(r, FinishOutcome(work[r]))

(* Slip: a body that breaks off is finished like one that ends. *)
PollErrorAsEnd(r) ==
  /\ Polled(r) /\ work[r].prefix = <<>> /\ ~work[r].ended /\ Kind(r) = "native"
  /\ Recorded(r, FinishOutcome(work[r]))

PollError(r) ==
  /\ Polled(r) /\ work[r].prefix = <<>> /\ ~work[r].ended /\ Kind(r) = "native"
  /\ Recorded(r, "stream-error")

(* The client leaves: the body is dropped, then its record, then its guard. *)
LeaveBody(r) ==
  /\ Stage(r) = "answered"
  /\ Recorded(r, "cancelled")

(* Before there is a body, the guard goes first and the recording tells     *)
(* nobody.                                                                  *)
LeaveHandler(r) ==
  /\ Stage(r) \in Admitted \ {"answered"} /\ End(r)
  /\ Work(r, To(Fresh, "dropping"))
  /\ UNCHANGED <<wire, queued, slots>>

DropRecording(r) ==
  /\ Stage(r) = "dropping"
  /\ Work(r, Fresh)
  /\ slots' = slots + 1
  /\ UNCHANGED <<vars, wire, queued>>

(* Slip: the guard is dropped before the completion is sent. *)
DropGuardFirst(r) ==
  /\ Stage(r) \in {"answered", "ending"} /\ End(r)
  /\ Work(r, IF Stage(r) = "ending" THEN Fresh ELSE work[r])
  /\ UNCHANGED <<wire, queued, slots>>

DropGuard(r) ==
  /\ Stage(r) = "ending" /\ End(r)
  /\ Work(r, Fresh)
  /\ UNCHANGED <<wire, queued, slots>>

-----------------------------------------------------------------------------
(* RequestRecorderActor.  A completion the store refuses is gone.           *)
Store ==
  /\ queued > 0
  /\ queued' = queued - 1 /\ slots' = slots + 1
  /\ UNCHANGED <<vars, work, wire>>

(* The task of the server ends behind its recorder, which ends when no      *)
(* recording is left that could send.                                       *)
StopServer ==
  /\ Stopped /\ queued = 0 /\ slots = QueueCapacity
  /\ UNCHANGED streamVars

OwnerStep ==
  /\ TryReserveIdle \/ BeginDraining \/ Resume \/ WaitUntilDrained \/ Check
       \/ Await \/ Commit \/ Shutdown \/ Bind
  /\ UNCHANGED streamVars

Enter(r) ==
  \/ ArriveFresh(r) \/ TurnAway(r) \/ Reserve(r) \/ AdmitReserved(r)
  \/ CompleteUnadmitted(r) \/ LeaveUnadmitted(r)

Route(r) ==
  \/ RefuseBody(r) \/ ReadBody(r) \/ PassOver(r) \/ Terminate(r) \/ Send(r)
  \/ FailTransport(r) \/ RespondRetryable(r) \/ RespondError(r) \/ Exhaust(r)
  \/ MapNonSuccess(r) \/ RespondUnusable(r)
  \/ \E whole \in BOOLEAN : RespondSuccess(r, whole)

Prime(r) ==
  \/ \E e \in BridgeEvents : PrimeEvent(r, e) \/ Collect(r, e)
  \/ PrimeEnd(r) \/ PrimeBreak(r) \/ PrimeLimit(r)

Poll(r) ==
  \/ PollPrefix(r) \/ PollOutput(r)
  \/ \E e \in BridgeEvents : PollUpstream(r, e)
  \/ EndUpstream(r) \/ FailBridge(r) \/ PollEnd(r) \/ PollError(r)

Leave(r) == LeaveBody(r) \/ LeaveHandler(r) \/ DropRecording(r) \/ DropGuard(r)

RequestsInit ==
  /\ Init
  /\ work = [r \in Requests |-> Fresh]
  /\ wire = [r \in Requests |-> FreshWire]
  /\ queued = 0
  /\ slots = QueueCapacity

Handle(r) == Leave(r) \/ Route(r) \/ Poll(r) \/ Prime(r)

RequestsNext ==
  \/ \E r \in Requests : Enter(r) \/ Handle(r)
  \/ Store \/ StopServer \/ OwnerStep

(* No client waits for ever in an exchange that does not end (nothing else  *)
(* ends it: an upstream may take as long as it likes), and what was dropped *)
(* is dropped.                                                              *)
RequestsFairness ==
  /\ \A r \in Requests : WF_allVars(Leave(r))
  /\ WF_allVars(Store)
  /\ WF_allVars((Check \/ Await \/ Commit) /\ UNCHANGED streamVars)

RequestsSpec == RequestsInit /\ [][RequestsNext]_allVars /\ RequestsFairness

-----------------------------------------------------------------------------
(* Whatever an upstream sends through the bridge, the client reads an       *)
(* Anthropic stream: one message_start, deltas only of open blocks, each    *)
(* index started once and stopped before the message ends, and nothing      *)
(* behind message_stop or an error.                                         *)
WireIsWellFormed == \A r \in Requests : wire[r].phase # "garbled"

(* A client of a native member gets what that member sent, from its first   *)
(* event on, and nothing of the attempts before it.                         *)
AnswerIsOneAttempt ==
  \A r \in Requests :
    Stage(r) \in {"priming", "answered"} /\ Kind(r) = "native"
      => work[r].got \o work[r].prefix = work[r].sent

(* What a client reads is one answer, although attempts fail between        *)
(* response and commitment and the bridge rebuilds the blocks of a stream   *)
(* (collect_prefix, process_event).                                         *)
ClientReadsOneAnswer == WireIsWellFormed /\ AnswerIsOneAttempt

(* What the record of a request says is what its client saw: a success was  *)
(* passed on to its end, a semantic error was shown or nothing was, and the *)
(* outcomes without a response showed nothing.  Usage is recorded only from *)
(* events of the response that was committed, passed on to the client or    *)
(* read by its bridge: never from an error, and never from what an attempt  *)
(* sent that was given up while priming, although the recording outlives    *)
(* all of them and ends with its stream, cut off or cancelled (finish,      *)
(* ResponseObservation::observe).                                           *)
Untouched(r) == work[r].got = <<>> /\ wire[r] = FreshWire

Tells(r) ==
  LET w == work[r] IN
  CASE work'[r].record = "success" ->
         /\ w.status = "ok"
         /\ IF Kind(r) = "bridge" THEN wire[r].phase \in {"stopped", "errored"}
            ELSE w.ended /\ w.got = w.sent
    [] work'[r].record = "semantic-error" ->
         wire[r].phase = "errored" \/ (Untouched(r) /\ "semantic" \in w.failures)
    [] work'[r].record = "upstream-error" -> w.status = "error"
    [] work'[r].record = "stream-error" -> Kind(r) = "native" /\ w.got = w.sent
    [] work'[r].record = "cancelled" -> w.status # "none"
    [] OTHER -> Untouched(r)

UsageOfAnswer(r) ==
  /\ work[r].status = "ok" /\ Stage(r) = "answered"
  /\ IF Kind(r) = "bridge" THEN work[r].bridge.started \/ work[r].bridge.terminated
     ELSE \E i \in DOMAIN work[r].got : TellsUsage(work[r].got[i])

RecordTellsStream ==
  [][\A r \in Requests :
       (Stage(r) # "ending" /\ work'[r].stage = "ending") =>
         /\ Tells(r)
         /\ work'[r].usage => UsageOfAnswer(r)]_allVars

(* A server that is drained has the completion of every request it admitted *)
(* in its recorder, one that is stopped has none left to store, and no      *)
(* permit of the recorder is lost.                                          *)
RecordsSurviveStop ==
  /\ owner \in {"drained", "committed", "stopped"}
       => \A r \in Requests : Stage(r) \notin Admitted
  /\ owner = "stopped" => queued = 0
  /\ slots + queued + Cardinality(Holding) = QueueCapacity
=============================================================================
