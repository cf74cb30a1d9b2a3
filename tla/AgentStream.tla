------------------------------ MODULE AgentStream -----------------------------
(***************************************************************************)
(* An answer on its way from the agent service to the browser: the chat    *)
(* route of reelingo-ai, which writes lines of JSON; RemoteAiAgentClient,  *)
(* which reads them under a timeout; and ServerSentEventStream, which      *)
(* writes them to the client through a chain of awaited writes, between    *)
(* heartbeats of a timer.                                                  *)
(*                                                                         *)
(* ChatTurn takes both transports for single steps; here they are spelled  *)
(* out, and the transactions around them left out.                         *)
(***************************************************************************)
EXTENDS Integers, Sequences, SequencesExt

CONSTANTS
  MaxParts,  \* bound of the model: text parts of an answer
  MaxPings,  \* bound of the model: heartbeats waiting to be written
  Faults     \* the kinds of failure that may happen

(***************************************************************************)
(*   "refuse"  the service answers with another status or content type     *)
(*   "cut"     the service dies, or the connection ends before the answer  *)
(*   "garble"  a line that is no event of this request, or not expected    *)
(***************************************************************************)
FaultKind == {"refuse", "cut", "garble"}

ASSUME AgentStreamAssumptions ==
  /\ MaxParts \in Nat
  /\ MaxPings \in Nat
  /\ Faults \subseteq FaultKind

VARIABLES
  agent,      \* what the agent service does with the request
  said,       \* parts of the answer it has written
  wire,       \* lines written and not read
  link,       \* the connection they travel on
  lines,      \* lines read and not consumed
  respond,    \* where RemoteAiAgentClient.respond is
  result,     \* a completed event was consumed
  verdict,    \* how respond ended
  timer,      \* its timeout is running
  aborted,    \* its timeout has fired
  turn,       \* where the handler of the request is
  stream,     \* state of the ServerSentEventStream
  heartbeat,  \* its interval timer is running
  queue,      \* frames of pendingWrite, the first one perhaps in write()
  stalled,    \* the first one waits for "drain"
  awaited,    \* how many of them the handler waits for
  written,    \* frames written to the response, without heartbeats
  socket      \* the response

agentVars == <<agent, said, wire, link>>
respondVars == <<lines, respond, result, verdict, timer, aborted>>
streamVars == <<stream, heartbeat, queue, stalled, awaited, written, socket>>
vars == <<agent, said, wire, link, lines, respond, result, verdict, timer,
          aborted, turn, stream, heartbeat, queue, stalled, awaited, written, socket>>

\* Lines of the agent and frames for the client: parts of the answer, or events.
Part(n) == [type |-> "delta", part |-> n]
Event(type) == [type |-> type, part |-> 0]
Parts == {Part(n) : n \in 1 .. MaxParts}
Line == Parts \cup {Event(type) : type \in {"completed", "failed", "garbled", "partial"}}
Frame == Parts \cup {Event(type) : type \in {"started", "ping", "completed", "failed"}}

TypeOK ==
  /\ agent \in {"waiting", "answering", "ended"}
  /\ said \in 0 .. MaxParts
  /\ wire \in Seq(Line)
  /\ link \in {"none", "open", "ended", "broken"}
  /\ lines \in Seq(Line)
  /\ respond \in {"idle", "fetch", "read", "over"}
  /\ result \in BOOLEAN
  /\ verdict \in {"none", "answered", "unavailable"}
  /\ timer \in BOOLEAN
  /\ aborted \in BOOLEAN
  /\ turn \in {"start", "respond", "report", "end", "drain", "over"}
  /\ stream \in {"idle", "open", "closed"}
  /\ heartbeat \in BOOLEAN
  /\ queue \in Seq(Frame)
  /\ stalled \in BOOLEAN
  /\ awaited \in 0 .. Len(queue)
  /\ written \in Seq(Frame \ {Event("ping")})
  /\ socket \in {"open", "ended", "gone"}

Init ==
  /\ agent = "waiting" /\ said = 0 /\ wire = <<>> /\ link = "none"
  /\ lines = <<>> /\ respond = "idle" /\ result = FALSE /\ verdict = "none"
  /\ timer = FALSE /\ aborted = FALSE
  /\ turn = "start"
  /\ stream = "idle" /\ heartbeat = FALSE /\ queue = <<>> /\ stalled = FALSE
  /\ awaited = 0 /\ written = <<>> /\ socket = "open"

-------------------------------------------------------------------------------
(* ServerSentEventStream *)

\* enqueue: a closed stream takes nothing, the first frame opens an idle one.
Enqueue(frame) ==
  IF stream = "closed" THEN UNCHANGED <<stream, heartbeat, queue>>
  ELSE /\ stream' = "open"
       /\ heartbeat' = (IF stream = "idle" THEN TRUE ELSE heartbeat)
       /\ queue' = Append(queue, frame)

\* Defective: the frame is queued and nobody waits for it.
SendUnawaited(frame) ==
  /\ Enqueue(frame)
  /\ UNCHANGED <<stalled, awaited, written, socket>>
\* sendJson, awaited: the handler goes on when all frames up to this one have
\* been written, or dropped by a stream that was closed.
Send(frame) ==
  /\ Enqueue(frame)
  /\ awaited' = IF stream = "closed" THEN awaited ELSE Len(queue')
  /\ UNCHANGED <<stalled, written, socket>>

\* The interval timer of open().
Ping ==
  /\ heartbeat
  /\ Len(SelectSeq(queue, LAMBDA frame : frame.type = "ping")) < MaxPings
  /\ Enqueue(Event("ping"))
  /\ UNCHANGED <<agentVars, respondVars, turn, stalled, awaited, written, socket>>

Settled(n) == IF n > 0 THEN n - 1 ELSE 0

\* The first write of the chain is over; the next one may begin.
Pop ==
  /\ queue' = Tail(queue)
  /\ awaited' = Settled(awaited)

\* write: the response takes the frame and asks to wait, or does not.
Write ==
  /\ queue # <<>> /\ ~stalled
  /\ stream # "closed"
  /\ written' = IF Head(queue).type = "ping" THEN written ELSE Append(written, Head(queue))
  /\ \/ stalled' = TRUE /\ UNCHANGED <<queue, awaited>>
     \/ Pop /\ UNCHANGED stalled
  /\ UNCHANGED <<agentVars, respondVars, turn, stream, heartbeat, socket>>

\* write: a closed stream drops its frames.
Skip ==
  /\ queue # <<>> /\ ~stalled
  /\ stream = "closed"
  /\ Pop
  /\ UNCHANGED <<agentVars, respondVars, turn, stream, heartbeat, stalled, written, socket>>

\* waitUntilWritableOrClosed: "drain".
Drain ==
  /\ stalled
  /\ stalled' = FALSE
  /\ Pop
  /\ UNCHANGED <<agentVars, respondVars, turn, stream, heartbeat, written, socket>>

\* Defective: a stalled write is not woken by "close".
WokenByDrainOnly == UNCHANGED <<queue, stalled, awaited>>
\* waitUntilWritableOrClosed: "close" or "error".
Woken ==
  IF stalled THEN stalled' = FALSE /\ Pop ELSE UNCHANGED <<queue, stalled, awaited>>

MarkClosed == stream' = "closed" /\ heartbeat' = FALSE

\* "close" or "error" of the response: the client went away, or write threw.
Disconnect ==
  /\ socket = "open"
  /\ socket' = "gone"
  /\ MarkClosed
  /\ Woken
  /\ UNCHANGED <<agentVars, respondVars, turn, written>>

-------------------------------------------------------------------------------
(* The chat route of the agent service *)

\* A part of the answer; nobody waits until it has been sent.
Say ==
  /\ agent = "answering" /\ link = "open"
  /\ said < MaxParts
  /\ said' = said + 1
  /\ wire' = Append(wire, Part(said + 1))
  /\ UNCHANGED <<agent, link, respondVars, turn, streamVars>>

\* Lines the client does not expect, around those it does.
Extra == IF "garble" \in Faults THEN {<<>>, <<Event("garbled")>>, <<Event("completed")>>} ELSE {<<>>}

\* The terminal event, then response.end().
Finish(event) ==
  /\ agent = "answering" /\ link = "open"
  /\ \E extra \in Extra : wire' = wire \o <<event>> \o extra
  /\ agent' = "ended" /\ link' = "ended"
  /\ UNCHANGED <<said, respondVars, turn, streamVars>>

\* "close" of the response aborts the model call; what is sent is dropped.
AbortAgent ==
  /\ agent = "answering" /\ link = "broken"
  /\ agent' = "ended"
  /\ UNCHANGED <<said, wire, link, respondVars, turn, streamVars>>

\* The service dies: the last line may be incomplete, and the connection may
\* look as if it had ended well.
Cut ==
  /\ "cut" \in Faults
  /\ agent = "answering" /\ link = "open"
  /\ agent' = "ended"
  /\ wire' \in {wire, Append(wire, Event("partial"))}
  /\ link' \in {"ended", "broken"}
  /\ UNCHANGED <<said, respondVars, turn, streamVars>>

\* The connection breaks, whatever is still on it.
Break ==
  /\ "cut" \in Faults
  /\ link \in {"open", "ended"}
  /\ link' = "broken"
  /\ UNCHANGED <<agent, said, wire, respondVars, turn, streamVars>>

Garble ==
  /\ "garble" \in Faults
  /\ agent = "answering" /\ link = "open"
  /\ ~Contains(wire \o lines, Event("garbled"))
  /\ wire' = Append(wire, Event("garbled"))
  /\ UNCHANGED <<agent, said, link, respondVars, turn, streamVars>>

-------------------------------------------------------------------------------
(* RemoteAiAgentClient.respond *)

Over(how) ==
  /\ respond' = "over" /\ verdict' = how
  /\ timer' = FALSE
  /\ turn' = "report"

\* Defective: the reader goes on while a part is being passed on.
RunningAhead == TRUE
\* The handler has nothing to wait for.
Running == awaited = 0

Fetch ==
  /\ turn = "respond" /\ respond = "idle" /\ Running
  /\ respond' = "fetch" /\ timer' = TRUE
  /\ UNCHANGED <<agentVars, lines, result, verdict, aborted, turn, streamVars>>

Accept ==
  /\ respond = "fetch" /\ ~aborted
  /\ respond' = "read"
  /\ agent' = "answering" /\ link' = "open"
  /\ UNCHANGED <<said, wire, lines, result, verdict, timer, aborted, turn, streamVars>>

\* fetch rejects, or the head of the answer is refused.
Refused ==
  /\ respond = "fetch"
  /\ aborted \/ "refuse" \in Faults
  /\ Over("unavailable")
  /\ UNCHANGED <<agentVars, lines, result, aborted, streamVars>>

\* Defective: the timeout does not cancel the request.
FireUncancelled ==
  /\ timer
  /\ timer' = FALSE /\ aborted' = TRUE
  /\ UNCHANGED <<agentVars, lines, respond, result, verdict, turn, streamVars>>
\* abortController.abort() closes the connection; what was read and not
\* consumed stays.
Fire ==
  /\ timer
  /\ timer' = FALSE /\ aborted' = TRUE
  /\ link' = IF link = "open" THEN "broken" ELSE link
  /\ UNCHANGED <<agent, said, wire, lines, respond, result, verdict, turn, streamVars>>

Reading == respond = "read" /\ Running /\ lines = <<>>

\* reader.read: some complete lines; the rest of the chunk stays buffered.
Read ==
  /\ Reading /\ ~aborted
  /\ \E n \in 1 .. Len(wire) :
       /\ wire[n].type # "partial"
       /\ lines' = SubSeq(wire, 1, n)
       /\ wire' = SubSeq(wire, n + 1, Len(wire))
  /\ UNCHANGED <<agent, said, link, respond, result, verdict, timer, aborted, turn,
                 streamVars>>

\* reader.read rejects.
ReadError ==
  /\ Reading
  /\ aborted \/ link = "broken"
  /\ Over("unavailable")
  /\ UNCHANGED <<agentVars, lines, result, aborted, streamVars>>

\* The end of the body: what is still buffered is a line, and there must have
\* been a completed event.
Acceptable == result /\ wire = <<>>

ReadEnd ==
  /\ Reading
  /\ link = "ended" /\ wire \in {<<>>, <<Event("partial")>>}
  /\ Over(IF Acceptable THEN "answered" ELSE "unavailable")
  /\ UNCHANGED <<agentVars, lines, result, aborted, streamVars>>

\* consumeLine: a part is passed on and awaited, ...
ConsumePart ==
  /\ respond = "read" /\ Running
  /\ lines # <<>> /\ Head(lines).type = "delta"
  /\ Send(Head(lines))
  /\ lines' = Tail(lines)
  /\ UNCHANGED <<agentVars, respond, result, verdict, timer, aborted, turn>>

\* ... a first completed event is kept, ...
ConsumeCompleted ==
  /\ respond = "read" /\ Running
  /\ lines # <<>> /\ Head(lines).type = "completed" /\ ~result
  /\ result' = TRUE
  /\ lines' = Tail(lines)
  /\ UNCHANGED <<agentVars, respond, verdict, timer, aborted, turn, streamVars>>

\* ... and anything else is the end.  The body is neither read nor cancelled.
ConsumeError ==
  /\ respond = "read" /\ Running
  /\ lines # <<>>
  /\ Head(lines).type \in {"failed", "garbled"} \/ (Head(lines).type = "completed" /\ result)
  /\ Over("unavailable")
  /\ UNCHANGED <<agentVars, lines, result, aborted, streamVars>>

-------------------------------------------------------------------------------
(* The handler of the request *)

\* The events before the answer.
Start ==
  /\ turn = "start"
  /\ Send(Event("started"))
  /\ turn' = "respond"
  /\ UNCHANGED <<agentVars, respondVars>>

\* The events after it.  If respond failed, a closed stream ends the handler.
Report ==
  /\ turn = "report" /\ Running
  /\ Send(Event(IF verdict = "answered" THEN "completed" ELSE "failed"))
  /\ turn' = IF verdict = "unavailable" /\ stream = "closed" THEN "over" ELSE "end"
  /\ UNCHANGED <<agentVars, respondVars>>

\* end: no more heartbeats, ...
End ==
  /\ turn = "end" /\ Running
  /\ heartbeat' = FALSE
  /\ turn' = "drain"
  /\ UNCHANGED <<agentVars, respondVars, stream, queue, stalled, awaited, written, socket>>

\* Defective: the writes under way are not awaited.
WrittenAll == TRUE
Flushed == queue = <<>>

\* ... then the writes under way, then the end of the response.
EndResponse ==
  /\ turn = "drain"
  /\ Flushed
  /\ socket' = IF stream = "closed" THEN socket ELSE "ended"
  /\ MarkClosed
  /\ turn' = "over"
  /\ UNCHANGED <<agentVars, respondVars, queue, stalled, awaited, written>>

-------------------------------------------------------------------------------
Handler ==
  \/ Start \/ Fetch \/ Accept \/ Refused
  \/ Read \/ ReadError \/ ReadEnd
  \/ ConsumePart \/ ConsumeCompleted \/ ConsumeError
  \/ Report \/ End \/ EndResponse

Agent == Say \/ Finish(Event("completed")) \/ Finish(Event("failed"))

Next ==
  \/ Handler \/ Fire
  \/ Write \/ Skip \/ Ping \/ Drain \/ Disconnect
  \/ Agent \/ AbortAgent \/ Cut \/ Break \/ Garble

\* The event loops run what is ready and timers fire.  Neither the model nor
\* the client promises anything.
Fairness ==
  /\ WF_vars(Handler) /\ WF_vars(Fire)
  /\ WF_vars(Write \/ Skip)
  /\ WF_vars(AbortAgent)

Spec == Init /\ [][Next]_vars /\ Fairness

-------------------------------------------------------------------------------
(* Properties *)

\* The whole answer is on its way, or has been consumed.
Whole == result \/ Contains(wire \o lines, Event("completed"))

\* The parts of the answer among frames, in their order.
PartsOf(frames) ==
  LET parts[n \in 0 .. Len(frames)] ==
        IF n = 0 THEN <<>>
        ELSE IF frames[n].type = "delta" THEN Append(parts[n - 1], frames[n].part)
        ELSE parts[n - 1]
  IN parts[Len(frames)]

Closing ==
  IF Contains(written, Event("completed")) THEN "completed"
  ELSE IF Contains(written, Event("failed")) THEN "failed" ELSE "none"

Delivery ==
  INSTANCE AnswerDelivery WITH
    whole <- Whole, seen <- PartsOf(written), gone <- stream = "closed", closing <- Closing

(***************************************************************************)
(* However lines are cut into chunks, connections break, the timeout       *)
(* fires and the client stalls: the parts reach the client in order and    *)
(* once, an answer counts only if it is whole and was passed on, and the   *)
(* last event says what the server decided.                                *)
(***************************************************************************)
ImplementsDelivery == Delivery!Spec

(***************************************************************************)
(* A slow client slows the reader down: through all the callbacks between  *)
(* reader and response no event is handed over before the last one was     *)
(* taken.  However long the client stalls, one event waits, and heartbeats.*)
(***************************************************************************)
OneEventWaits ==
  \A i, j \in 1 .. Len(queue) : queue[i].type # "ping" /\ queue[j].type # "ping" => i = j

(***************************************************************************)
(* When the handler is done no timer goes on beating, and a response that  *)
(* was ended has got every frame, the terminal event last: no heartbeat    *)
(* comes behind it or is lost in the chain.                                *)
(***************************************************************************)
QuietAfterEnd ==
  /\ turn = "over" => ~heartbeat /\ ~timer
  /\ socket = "ended" =>
       queue = <<>> /\ written # <<>> /\ Last(written).type \in {"completed", "failed"}

(***************************************************************************)
(* The handler ends, whatever the agent does or fails to do, if the client *)
(* reads now and then or goes away.  The timeout alone does not end it: a  *)
(* write to a client that does neither is not interrupted.                 *)
(***************************************************************************)
HandlerEnds == []<>(~stalled \/ socket = "gone") => <>(turn = "over")

\* A timeout stops the work of the agent service too.
TimeoutStopsAgent == aborted ~> agent # "answering"
===============================================================================
