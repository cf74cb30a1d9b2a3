------------------------------- MODULE ChatTurn -------------------------------
(***************************************************************************)
(* One chat turn per request: MessageController.send with its event        *)
(* stream, SendMessageUseCase, GenerateAssistantResponseUseCase and the    *)
(* transactions of MessagePrismaRepository, from the stored user message   *)
(* to the committed answer and the last event the client gets.             *)
(*                                                                         *)
(* Every turn has its own chat run, and only the request that stored the   *)
(* message ever claims it.  All turns share one server process.            *)
(***************************************************************************)
EXTENDS Integers, Sequences

CONSTANTS
  Turn,       \* requests that send a message
  MaxDeltas,  \* bound of the model: text deltas of one answer
  Faults,     \* the kinds of failure that may happen
  MaxFaults   \* bound of the model: how many of them

(***************************************************************************)
(*   "crash"  the server process dies                                      *)
(*   "db"     a transaction fails and has no effect                        *)
(*   "reply"  a transaction commits but the server sees an error           *)
(***************************************************************************)
FaultKind == {"crash", "db", "reply"}

ASSUME TurnAssumptions ==
  /\ MaxDeltas \in Nat
  /\ Faults \subseteq FaultKind
  /\ MaxFaults \in Nat

VARIABLES
  run,      \* "chat_runs"."status" of each turn's message
  outcome,  \* what the turn committed: a reply, a media generation or nothing
  pc,       \* where the request's handler is
  intent,   \* what the chat client answered
  errors,   \* what went wrong so far
  stream,   \* state of the ServerSentEventStream
  client,   \* what the client does with the response
  sent,     \* events written to the response
  http,     \* the HTTP error sent instead of events
  faults    \* failures so far

handlerVars == <<intent, errors>>
streamVars == <<stream, client, sent>>
vars == <<run, outcome, pc, intent, errors, stream, client, sent, http, faults>>

RunStatus == {"absent", "pending", "processing", "completed", "failed"}
Outcome == {"none", "reply", "generation"}
Event == {"message.created", "chat.started", "assistant.delta",
          "generation.queued", "chat.completed", "chat.failed"}
Terminal == {"chat.completed", "chat.failed"}

\* The steps of the handler, each named for what it does next.
Phase == {"none", "create", "announce", "claim", "start", "respond", "complete",
          "queued", "completed", "fail", "report", "end", "done", "dead"}

Over == {"done", "dead"}

TypeOK ==
  /\ run \in [Turn -> RunStatus]
  /\ outcome \in [Turn -> Outcome]
  /\ pc \in [Turn -> Phase]
  /\ intent \in [Turn -> Outcome]
  /\ errors \in [Turn -> SUBSET {"rejected", "unavailable", "internal"}]
  /\ stream \in [Turn -> {"idle", "open", "closed"}]
  /\ client \in [Turn -> {"reading", "slow", "gone"}]
  /\ sent \in [Turn -> Seq(Event)]
  /\ http \in [Turn -> {"none", "error"}]
  /\ faults \in 0..MaxFaults

Init ==
  /\ run = [t \in Turn |-> "absent"]
  /\ outcome = [t \in Turn |-> "none"]
  /\ pc = [t \in Turn |-> "none"]
  /\ intent = [t \in Turn |-> "none"]
  /\ errors = [t \in Turn |-> {}]
  /\ stream = [t \in Turn |-> "idle"]
  /\ client = [t \in Turn |-> "reading"]
  /\ sent = [t \in Turn |-> <<>>]
  /\ http = [t \in Turn |-> "none"]
  /\ faults = 0

Fault(kind) ==
  /\ kind \in Faults
  /\ faults < MaxFaults
  /\ faults' = faults + 1

Goto(t, phase) == pc' = [pc EXCEPT ![t] = phase]

\* Mutant: a write that waits is only woken by "drain".
AtWhenDrained(t, phase) == pc[t] = phase /\ client[t] = "reading"

\* The handler is at this step and does not wait for the client: every event
\* is awaited until the response takes more data, or is closed.
At(t, phase) == pc[t] = phase /\ client[t] # "slow"

Sent(t, event) == \E i \in DOMAIN sent[t] : sent[t][i] = event

Deltas(t) == Len(SelectSeq(sent[t], LAMBDA e : e = "assistant.delta"))

-----------------------------------------------------------------------------
(* The event stream *)

\* sendJson: the first event opens the stream, a closed one takes no more.  A
\* client that is slow to read makes the writer wait.
Send(t, event) ==
  IF stream[t] = "closed"
  THEN UNCHANGED streamVars
  ELSE /\ stream' = [stream EXCEPT ![t] = "open"]
       /\ sent' = [sent EXCEPT ![t] = Append(@, event)]
       /\ \E c \in {"reading", "slow"} : client' = [client EXCEPT ![t] = c]

\* The client caught up.
Drain(t) ==
  /\ client[t] = "slow"
  /\ client' = [client EXCEPT ![t] = "reading"]
  /\ UNCHANGED <<run, outcome, pc, handlerVars, stream, sent, http, faults>>

\* The connection closes before the response ended; the handler goes on.
Disconnect(t) ==
  /\ pc[t] \notin Over \cup {"none"}
  /\ client[t] # "gone"
  /\ client' = [client EXCEPT ![t] = "gone"]
  /\ stream' = [stream EXCEPT ![t] = "closed"]
  /\ UNCHANGED <<run, outcome, pc, handlerVars, sent, http, faults>>

Publish(t, event, next) ==
  /\ Send(t, event)
  /\ Goto(t, next)
  /\ UNCHANGED <<run, outcome, handlerVars, http, faults>>

-----------------------------------------------------------------------------
(* The transactions *)

\* Only a run that has the expected status changes, as in updateMany.
Move(t, from, to) == run' = [run EXCEPT ![t] = IF @ = from THEN to ELSE @]

\* Mutant: the answer is left to another transaction.
CommitStatusOnly(t) ==
  /\ Move(t, "processing", "completed")
  /\ UNCHANGED outcome

Commit(t) ==
  /\ Move(t, "processing", "completed")
  /\ outcome' = [outcome EXCEPT ![t] = IF run[t] = "processing" THEN intent[t] ELSE @]

\* The handler sees an error and leaves its try block, or never entered it.
Broken(t, reason) ==
  /\ Goto(t, "report")
  /\ errors' = [errors EXCEPT ![t] = @ \cup {reason}]
  /\ UNCHANGED <<intent, streamVars, http>>

-----------------------------------------------------------------------------
(* The handler *)

\* A validated request.
Receive(t) ==
  /\ pc[t] = "none"
  /\ Goto(t, "create")
  /\ UNCHANGED <<run, outcome, handlerVars, streamVars, http, faults>>

\* One transaction stores the conversation, the message and its pending run.
CreateMessage(t) ==
  /\ At(t, "create")
  /\ Move(t, "absent", "pending")
  /\ Goto(t, "announce")
  /\ UNCHANGED <<outcome, handlerVars, streamVars, http, faults>>

\* The project, the conversation or an asset is not the user's.
CreateRejected(t) ==
  /\ At(t, "create")
  /\ Broken(t, "rejected")
  /\ UNCHANGED <<run, outcome, faults>>

CreateError(t) ==
  /\ At(t, "create")
  /\ Broken(t, "internal")
  /\ \/ Fault("db") /\ UNCHANGED run
     \/ Fault("reply") /\ Move(t, "absent", "pending")
  /\ UNCHANGED outcome

Announce(t) == At(t, "announce") /\ Publish(t, "message.created", "claim")

\* Nobody else knows of the run, so it is found pending.
ClaimChat(t) ==
  /\ At(t, "claim")
  /\ Move(t, "pending", "processing")
  /\ Goto(t, "start")
  /\ UNCHANGED <<outcome, handlerVars, streamVars, http, faults>>

\* Outside the try block: the run keeps whatever status it has.
ClaimError(t) ==
  /\ At(t, "claim")
  /\ Broken(t, "internal")
  /\ \/ Fault("db") /\ UNCHANGED run
     \/ Fault("reply") /\ Move(t, "pending", "processing")
  /\ UNCHANGED outcome

StartResponse(t) == At(t, "start") /\ Publish(t, "chat.started", "respond")

\* Mutant: the text handler is not awaited.
DeltaUnawaited(t) ==
  /\ pc[t] \in {"respond", "complete", "completed"}
  /\ Deltas(t) < MaxDeltas
  /\ Publish(t, "assistant.delta", pc[t])

\* Text that precedes a reply, a media tool call or a failure.
Delta(t) ==
  /\ At(t, "respond")
  /\ Deltas(t) < MaxDeltas
  /\ Publish(t, "assistant.delta", "respond")

Respond(t) ==
  /\ At(t, "respond")
  /\ \E result \in {"reply", "generation"} : intent' = [intent EXCEPT ![t] = result]
  /\ Goto(t, "complete")
  /\ UNCHANGED <<run, outcome, errors, streamVars, http, faults>>

\* Mutant: the error is reported but the run is left as it is.
RespondErrorUnrecorded(t) ==
  /\ At(t, "respond")
  /\ Broken(t, "unavailable")
  /\ UNCHANGED <<run, outcome, faults>>

\* ChatUnavailableError: a provider error, its timeout or an unusable answer.
RespondError(t) ==
  /\ At(t, "respond")
  /\ Goto(t, "fail")
  /\ errors' = [errors EXCEPT ![t] = @ \cup {"unavailable"}]
  /\ UNCHANGED <<run, outcome, intent, streamVars, http, faults>>

\* Mutant: the transaction is not awaited.
CompleteChatUnawaited(t) ==
  /\ At(t, "complete")
  /\ Goto(t, IF intent[t] = "generation" THEN "queued" ELSE "completed")
  /\ UNCHANGED <<run, outcome, handlerVars, streamVars, http, faults>>

\* completeChatReply or completeChatGeneration: run and answer, or neither.
CompleteChat(t) ==
  /\ At(t, "complete")
  /\ Commit(t)
  /\ Goto(t, IF intent[t] = "generation" THEN "queued" ELSE "completed")
  /\ UNCHANGED <<handlerVars, streamVars, http, faults>>

\* The error is not a ChatUnavailableError: nobody marks the run.
CompleteError(t) ==
  /\ At(t, "complete")
  /\ Broken(t, "internal")
  /\ \/ Fault("db") /\ UNCHANGED <<run, outcome>>
     \/ Fault("reply") /\ Commit(t)

PublishQueued(t) == At(t, "queued") /\ Publish(t, "generation.queued", "completed")

PublishCompleted(t) == At(t, "completed") /\ Publish(t, "chat.completed", "end")

\* failChat, in the catch clause.
FailChat(t) ==
  /\ At(t, "fail")
  /\ Move(t, "processing", "failed")
  /\ Goto(t, "report")
  /\ UNCHANGED <<outcome, handlerVars, streamVars, http, faults>>

\* An error of failChat replaces the one that was caught.
FailChatError(t) ==
  /\ At(t, "fail")
  /\ Broken(t, "internal")
  /\ \/ Fault("db") /\ UNCHANGED run
     \/ Fault("reply") /\ Move(t, "processing", "failed")
  /\ UNCHANGED outcome

\* Mutant: the error handler answers as if no event had been sent.
ReportAlways(t) ==
  /\ At(t, "report")
  /\ http' = [http EXCEPT ![t] = "error"]
  /\ Goto(t, "done")
  /\ UNCHANGED <<run, outcome, handlerVars, streamVars, faults>>

\* The controller's catch clause: an HTTP error if no event was sent, an
\* event if the stream is open, only a log entry if it is closed.
Report(t) ==
  /\ At(t, "report")
  /\ CASE stream[t] = "idle" ->
            /\ http' = [http EXCEPT ![t] = "error"]
            /\ Goto(t, "done")
            /\ UNCHANGED streamVars
       [] stream[t] = "open" ->
            /\ Send(t, "chat.failed")
            /\ Goto(t, "end")
            /\ UNCHANGED http
       [] stream[t] = "closed" ->
            /\ Goto(t, "done")
            /\ UNCHANGED <<http, streamVars>>
  /\ UNCHANGED <<run, outcome, handlerVars, faults>>

\* end() waits for the pending writes and closes the stream.
EndStream(t) ==
  /\ At(t, "end")
  /\ stream' = [stream EXCEPT ![t] = "closed"]
  /\ Goto(t, "done")
  /\ UNCHANGED <<run, outcome, handlerVars, client, sent, http, faults>>

\* All turns under way end here; nothing looks at their runs again.
Crash ==
  LET dying == {t \in Turn : pc[t] \notin Over \cup {"none"}} IN
  /\ dying # {}
  /\ Fault("crash")
  /\ pc' = [t \in Turn |-> IF t \in dying THEN "dead" ELSE pc[t]]
  /\ client' = [t \in Turn |-> IF t \in dying THEN "gone" ELSE client[t]]
  /\ stream' = [t \in Turn |-> IF t \in dying THEN "closed" ELSE stream[t]]
  /\ UNCHANGED <<run, outcome, handlerVars, sent, http>>

-----------------------------------------------------------------------------

Work(t) ==
  \/ CreateMessage(t) \/ CreateRejected(t) \/ Announce(t)
  \/ ClaimChat(t) \/ StartResponse(t)
  \/ Delta(t) \/ Respond(t) \/ RespondError(t)
  \/ CompleteChat(t) \/ PublishQueued(t) \/ PublishCompleted(t)
  \/ FailChat(t) \/ Report(t) \/ EndStream(t)

Disturb(t) ==
  \/ CreateError(t) \/ ClaimError(t) \/ CompleteError(t) \/ FailChatError(t)

Step(t) == Receive(t) \/ Work(t) \/ Disturb(t) \/ Drain(t) \/ Disconnect(t)

Next == (\E t \in Turn : Step(t)) \/ Crash

\* The event loop runs what is ready, statements are answered, and the
\* provider's request timeout ends respond().  Clients promise nothing.
Fairness == \A t \in Turn : WF_vars(Work(t))

Spec == Init /\ [][Next]_vars /\ Fairness

-----------------------------------------------------------------------------
(* Properties *)

\* The event that may come right before an event; the first is always
\* "message.created".
Before == [event \in Event |->
  CASE event = "message.created" -> {}
    [] event = "chat.started" -> {"message.created"}
    [] event = "assistant.delta" -> {"chat.started", "assistant.delta"}
    [] event = "generation.queued" -> {"chat.started", "assistant.delta"}
    [] event = "chat.completed" ->
         {"chat.started", "assistant.delta", "generation.queued"}
    [] event = "chat.failed" -> {"message.created", "chat.started", "assistant.delta"}]

\* Whatever fails and whenever the client is slow, the client reads a prefix
\* of one legal turn: no event is skipped, repeated or sent after the terminal
\* one (the events the controller and the use cases publish, docs/chat.md).
EventOrder ==
  \A t \in Turn : \A i \in DOMAIN sent[t] :
    IF i = 1 THEN sent[t][i] = "message.created" ELSE sent[t][i - 1] \in Before[sent[t][i]]

\* An event is never ahead of the database: what it announces has been
\* committed when it is written, and stays so.
EventsDurable ==
  \A t \in Turn :
    /\ Sent(t, "message.created") => run[t] # "absent"
    /\ Sent(t, "chat.started") => run[t] \notin {"absent", "pending"}
    /\ Sent(t, "generation.queued") => outcome[t] = "generation"
    /\ Sent(t, "chat.completed") => run[t] = "completed" /\ outcome[t] = intent[t]

\* A request that was handled to its end had exactly one answer: an HTTP error
\* and no event, or a stream that ends in exactly one terminal event; only a
\* client that went away can have less.
AnsweredOnce ==
  \A t \in Turn : pc[t] = "done" =>
    IF http[t] = "error" THEN sent[t] = <<>>
    ELSE \/ client[t] = "gone"
         \/ sent[t] # <<>> /\ sent[t][Len(sent[t])] \in Terminal

\* A handler leaves its run pending or processing, for nobody to finish, only
\* if a transaction failed; a client that goes away is no reason.
NoStrandedRun ==
  \A t \in Turn :
    pc[t] = "done" /\ "internal" \notin errors[t] =>
      run[t] \in {"absent", "completed", "failed"}

\* A turn ends as long as its client keeps reading or goes away: events are
\* awaited, so a client that does neither holds the turn for ever.
EveryTurnEnds ==
  \A t \in Turn :
    []<>(client[t] # "slow") => (pc[t] = "create" ~> pc[t] \in Over)
==============================================================================
