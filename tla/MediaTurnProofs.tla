--------------------------- MODULE MediaTurnProofs ----------------------------
(***************************************************************************)
(* Theorems about chat turns, alone and with the queue and the clients     *)
(* that poll, for any number of turns, workers, deltas and faults.         *)
(*                                                                         *)
(* Two invariants hold of every turn: Answer says which event was written  *)
(* last at every step of the handler, Progress what the database holds     *)
(* then.  Only an open stream is tied to the handler's step: a client that *)
(* went away has an arbitrary prefix.                                      *)
(***************************************************************************)
EXTENDS MediaTurn, SequenceTheorems, TLAPS

Has(s, event) == \E i \in DOMAIN s : s[i] = event

LastIn(s, events) == s # <<>> /\ s[Len(s)] \in events

\* A prefix of a legal turn, and what may be appended to it.
Legal(s) ==
  \A i \in DOMAIN s :
    IF i = 1 THEN s[i] = "message.created" ELSE s[i - 1] \in Before[s[i]]
Follows(event, s) ==
  IF s = <<>> THEN event = "message.created" ELSE s[Len(s)] \in Before[event]

\* The last event on an open stream when the handler is about to take a step.
Expected(phase) ==
  CASE phase \in {"claim", "start"} -> {"message.created"}
    [] phase \in {"respond", "complete", "queued", "fail"} ->
         {"chat.started", "assistant.delta"}
    [] phase = "completed" -> {"chat.started", "assistant.delta", "generation.queued"}
    [] phase = "report" -> {"message.created", "chat.started", "assistant.delta"}
    [] phase = "end" -> Terminal
    [] OTHER -> {}

Unopened == {"none", "create", "announce", "report", "done"}

Answer(t) ==
  /\ Legal(sent[t])
  /\ stream[t] = "idle" => sent[t] = <<>> /\ pc[t] \in Unopened
  /\ stream[t] = "open" => LastIn(sent[t], Expected(pc[t]))
  /\ stream[t] = "closed" /\ pc[t] \notin Over => client[t] = "gone"
  /\ client[t] = "gone" => stream[t] = "closed"
  /\ http[t] = "error" => pc[t] = "done" /\ sent[t] = <<>>
  /\ pc[t] = "done" => \/ http[t] = "error" \/ client[t] = "gone"
                       \/ LastIn(sent[t], Terminal)

\* The run when the handler is about to take a step, if no transaction failed.
RunAt(phase) ==
  CASE phase \in {"none", "create"} -> {"absent"}
    [] phase \in {"announce", "claim"} -> {"pending"}
    [] phase \in {"start", "respond", "complete", "fail"} -> {"processing"}
    [] phase \in {"queued", "completed"} -> {"completed"}
    [] phase \in {"report", "end", "done"} -> {"absent", "completed", "failed"}
    [] OTHER -> RunStatus

Progress(t) ==
  /\ "internal" \notin errors[t] => run[t] \in RunAt(pc[t])
  /\ "internal" \in errors[t] => pc[t] \in {"report", "end", "done", "dead"}
  /\ pc[t] \in {"complete", "queued", "completed"} => intent[t] # "none"
  /\ pc[t] = "queued" => intent[t] = "generation"
  /\ run[t] = "completed" <=> outcome[t] # "none"
  /\ run[t] = "completed" => outcome[t] = intent[t]
  /\ Has(sent[t], "message.created") => run[t] # "absent"
  /\ Has(sent[t], "chat.started") => run[t] \notin {"absent", "pending"}
  /\ Has(sent[t], "generation.queued") =>
       run[t] = "completed" /\ outcome[t] = "generation"
  /\ Has(sent[t], "chat.completed") => run[t] = "completed"

TurnInv == TypeOK /\ \A t \in Turn : Answer(t) /\ Progress(t)

\* Nothing of this turn changes.
Untouched(t) ==
  /\ run'[t] = run[t] /\ outcome'[t] = outcome[t] /\ pc'[t] = pc[t]
  /\ intent'[t] = intent[t] /\ errors'[t] = errors[t] /\ stream'[t] = stream[t]
  /\ client'[t] = client[t] /\ sent'[t] = sent[t] /\ http'[t] = http[t]

-------------------------------------------------------------------------------

\* What appending an event does to the events that were written.
LEMMA Appended ==
  ASSUME NEW s \in Seq(Event), NEW event \in Event
  PROVE  /\ Append(s, event) \in Seq(Event)
         /\ Append(s, event) # <<>>
         /\ Append(s, event)[Len(Append(s, event))] = event
         /\ \A e : Has(Append(s, event), e) => Has(s, e) \/ e = event
         /\ Legal(s) /\ Follows(event, s) => Legal(Append(s, event))
<1> DEFINE a == Append(s, event)
<1>1. /\ a \in Seq(Event) /\ Len(a) = Len(s) + 1 /\ Len(s) \in Nat
      /\ a[Len(s) + 1] = event
      /\ \A i \in 1 .. Len(s) : a[i] = s[i]
  BY AppendProperties
<1>2. DOMAIN a = 1 .. Len(s) + 1 /\ DOMAIN s = 1 .. Len(s)
  BY <1>1
<1>3. a # <<>>
  BY <1>1
<1>4. ASSUME NEW e, Has(a, e) PROVE Has(s, e) \/ e = event
  <2>1. PICK i \in 1 .. Len(s) + 1 : a[i] = e
    BY <1>2, <1>4 DEF Has
  <2>2. i \in 1 .. Len(s) \/ i = Len(s) + 1
    BY <1>1, <2>1
  <2> QED
    BY <1>1, <1>2, <2>1, <2>2 DEF Has
<1>5. ASSUME Legal(s), Follows(event, s) PROVE Legal(a)
  <2> SUFFICES ASSUME NEW i \in 1 .. Len(s) + 1
               PROVE  IF i = 1 THEN a[i] = "message.created" ELSE a[i - 1] \in Before[a[i]]
    BY <1>2 DEF Legal
  <2>1. CASE i \in 1 .. Len(s)
    <3>1. i # 1 => i - 1 \in 1 .. Len(s)
      BY <1>1, <2>1
    <3> QED
      BY <1>1, <1>2, <1>5, <2>1, <3>1 DEF Legal
  <2>2. CASE i = Len(s) + 1 /\ s = <<>>
    BY <1>1, <1>5, <2>2 DEF Follows
  <2>3. CASE i = Len(s) + 1 /\ s # <<>>
    <3>1. Len(s) \in 1 .. Len(s) /\ i # 1 /\ i - 1 = Len(s)
      BY <1>1, <2>3, EmptySeq
    <3> QED
      BY <1>1, <1>5, <2>3, <3>1 DEF Follows
  <2> QED
    BY <1>1, <2>1, <2>2, <2>3
<1> QED
  BY <1>1, <1>3, <1>4, <1>5

-------------------------------------------------------------------------------

\* Sending an event appends it, unless the stream is closed.
LEMMA Sending ==
  ASSUME TypeOK, NEW t \in Turn, NEW event \in Event, Send(t, event)
  PROVE  /\ stream' \in [Turn -> {"idle", "open", "closed"}]
         /\ client' \in [Turn -> {"reading", "slow", "gone"}]
         /\ sent' \in [Turn -> Seq(Event)]
         /\ \A u \in Turn \ {t} :
              stream'[u] = stream[u] /\ client'[u] = client[u] /\ sent'[u] = sent[u]
         /\ IF stream[t] = "closed"
            THEN stream'[t] = stream[t] /\ client'[t] = client[t] /\ sent'[t] = sent[t]
            ELSE /\ stream'[t] = "open"
                 /\ sent'[t] = Append(sent[t], event)
                 /\ client'[t] \in {"reading", "slow"}
<1>1. CASE stream[t] = "closed"
  BY <1>1 DEF Send, streamVars, TypeOK
<1>2. CASE stream[t] # "closed"
  <2>1. sent[t] \in Seq(Event) /\ Append(sent[t], event) \in Seq(Event)
    BY AppendProperties DEF TypeOK
  <2>2. /\ stream' = [stream EXCEPT ![t] = "open"]
        /\ sent' = [sent EXCEPT ![t] = Append(sent[t], event)]
        /\ \E c \in {"reading", "slow"} : client' = [client EXCEPT ![t] = c]
    BY <1>2 DEF Send
  <2> QED
    BY <1>2, <2>1, <2>2 DEF TypeOK
<1> QED
  BY <1>1, <1>2

\* The types of the variables of a turn, and that no other turn is touched.
LEMMA StepTypes ==
  ASSUME TypeOK, NEW t \in Turn, Step(t)
  PROVE  TypeOK' /\ \A u \in Turn \ {t} : Untouched(u)
<1> DEFINE Goal == TypeOK' /\ \A u \in Turn \ {t} : Untouched(u)
<1>f. ASSUME NEW kind, Fault(kind) PROVE faults' \in 0 .. MaxFaults
  BY <1>f, TurnAssumptions DEF Fault, TypeOK
<1>m. ASSUME NEW from, NEW to \in RunStatus, Move(t, from, to)
      PROVE  run' \in [Turn -> RunStatus] /\ \A u \in Turn \ {t} : run'[u] = run[u]
  BY <1>m DEF Move, TypeOK
<1>r. Move(t, "absent", "pending") \/ Move(t, "pending", "processing")
      \/ Move(t, "processing", "failed") \/ Move(t, "processing", "completed")
      \/ UNCHANGED run
      => run' \in [Turn -> RunStatus] /\ \A u \in Turn \ {t} : run'[u] = run[u]
  BY <1>m DEF RunStatus, TypeOK
<1>c. Commit(t) => /\ run' \in [Turn -> RunStatus] /\ outcome' \in [Turn -> Outcome]
                   /\ \A u \in Turn \ {t} : run'[u] = run[u] /\ outcome'[u] = outcome[u]
  BY <1>r DEF Commit, TypeOK
<1>b. ASSUME NEW reason \in {"rejected", "unavailable", "internal"}, Broken(t, reason)
      PROVE  /\ pc' \in [Turn -> Phase]
             /\ errors' \in [Turn -> SUBSET {"rejected", "unavailable", "internal"}]
             /\ UNCHANGED <<intent, stream, client, sent, http>>
             /\ \A u \in Turn \ {t} : pc'[u] = pc[u] /\ errors'[u] = errors[u]
  BY <1>b DEF Broken, Goto, streamVars, TypeOK, Phase
<1>1. ASSUME NEW event \in Event, NEW next \in Phase, Publish(t, event, next) PROVE Goal
  BY <1>1, Sending DEF Publish, Goto, handlerVars, TypeOK, Untouched
<1>2. CASE Announce(t) \/ StartResponse(t) \/ Delta(t) \/ PublishQueued(t) \/ PublishCompleted(t)
  BY <1>1, <1>2
     DEF Announce, StartResponse, Delta, PublishQueued, PublishCompleted, Event, Phase
<1>3. CASE Receive(t) \/ CreateMessage(t) \/ ClaimChat(t) \/ FailChat(t)
  <2>1. run' \in [Turn -> RunStatus] /\ \A u \in Turn \ {t} : run'[u] = run[u]
    BY <1>3, <1>r DEF Receive, CreateMessage, ClaimChat, FailChat
  <2>2. \E next \in Phase : pc' = [pc EXCEPT ![t] = next]
    BY <1>3 DEF Receive, CreateMessage, ClaimChat, FailChat, Goto, Phase
  <2>3. UNCHANGED <<outcome, intent, errors, stream, client, sent, http, faults>>
    BY <1>3 DEF Receive, CreateMessage, ClaimChat, FailChat, handlerVars, streamVars
  <2> QED
    BY <2>1, <2>2, <2>3 DEF TypeOK, Untouched
<1>4. CASE CreateRejected(t)
  BY <1>4 DEF CreateRejected, Broken, Goto, streamVars, TypeOK, Untouched, Phase
<1>5. CASE CreateError(t) \/ ClaimError(t) \/ FailChatError(t)
  <2>1. faults' \in 0 .. MaxFaults
    BY <1>5, <1>f DEF CreateError, ClaimError, FailChatError
  <2>2. run' \in [Turn -> RunStatus] /\ \A u \in Turn \ {t} : run'[u] = run[u]
    BY <1>5, <1>r DEF CreateError, ClaimError, FailChatError
  <2>3. Broken(t, "internal") /\ UNCHANGED outcome
    BY <1>5 DEF CreateError, ClaimError, FailChatError
  <2> QED
    BY <2>1, <2>2, <2>3, <1>b DEF TypeOK, Untouched
<1>6. CASE Respond(t)
  BY <1>6 DEF Respond, Goto, streamVars, TypeOK, Untouched, Phase, Outcome
<1>7. CASE RespondError(t)
  BY <1>7 DEF RespondError, Goto, streamVars, TypeOK, Untouched, Phase
<1>8. CASE CompleteChat(t)
  BY <1>8, <1>c DEF CompleteChat, Goto, handlerVars, streamVars, TypeOK, Untouched, Phase
<1>9. CASE CompleteError(t)
  <2>1. faults' \in 0 .. MaxFaults
    BY <1>9, <1>f DEF CompleteError
  <2>2. /\ run' \in [Turn -> RunStatus] /\ outcome' \in [Turn -> Outcome]
        /\ \A u \in Turn \ {t} : run'[u] = run[u] /\ outcome'[u] = outcome[u]
    BY <1>9, <1>c DEF CompleteError, TypeOK
  <2>3. Broken(t, "internal")
    BY <1>9 DEF CompleteError
  <2> QED
    BY <2>1, <2>2, <2>3, <1>b DEF TypeOK, Untouched
<1>10. CASE Report(t)
  <2>1. CASE stream[t] = "open"
    <3>1. /\ Send(t, "chat.failed") /\ pc' = [pc EXCEPT ![t] = "end"]
          /\ UNCHANGED <<http, run, outcome, handlerVars, faults>>
      BY <1>10, <2>1 DEF Report, Goto
    <3> QED
      BY <3>1, Sending DEF handlerVars, TypeOK, Untouched, Phase, Event
  <2>2. CASE stream[t] = "idle"
    <3>1. /\ http' = [http EXCEPT ![t] = "error"] /\ pc' = [pc EXCEPT ![t] = "done"]
          /\ UNCHANGED <<run, outcome, handlerVars, streamVars, faults>>
      BY <1>10, <2>2 DEF Report, Goto
    <3> QED
      BY <3>1 DEF handlerVars, streamVars, TypeOK, Untouched, Phase
  <2>3. CASE stream[t] = "closed"
    <3>1. /\ pc' = [pc EXCEPT ![t] = "done"]
          /\ UNCHANGED <<run, outcome, http, handlerVars, streamVars, faults>>
      BY <1>10, <2>3 DEF Report, Goto
    <3> QED
      BY <3>1 DEF handlerVars, streamVars, TypeOK, Untouched, Phase
  <2> QED
    BY <2>1, <2>2, <2>3 DEF TypeOK
<1>11. CASE EndStream(t)
  BY <1>11 DEF EndStream, Goto, handlerVars, TypeOK, Untouched, Phase
<1>12. CASE Drain(t) \/ Disconnect(t)
  BY <1>12 DEF Drain, Disconnect, handlerVars, TypeOK, Untouched
<1> QED
  BY <1>2, <1>3, <1>4, <1>5, <1>6, <1>7, <1>8, <1>9, <1>10, <1>11, <1>12
     DEF Step, Work, Disturb

\* A turn that is not touched keeps what holds of it.
LEMMA Frame ==
  ASSUME NEW t, Untouched(t)
  PROVE  (Answer(t) => Answer(t)') /\ (Progress(t) => Progress(t)')
BY DEF Untouched, Answer, Progress, Legal, LastIn, Has

\* What may precede an event, as sets.
LEMMA BeforeEvents ==
  /\ Before["chat.started"] = {"message.created"}
  /\ Before["assistant.delta"] = {"chat.started", "assistant.delta"}
  /\ Before["generation.queued"] = {"chat.started", "assistant.delta"}
  /\ Before["chat.completed"] = {"chat.started", "assistant.delta", "generation.queued"}
  /\ Before["chat.failed"] = {"message.created", "chat.started", "assistant.delta"}
BY DEF Before, Event

\* A step of the handler that sends nothing.
LEMMA QuietAnswer ==
  ASSUME NEW t \in Turn, Answer(t), NEW next, pc'[t] = next,
         UNCHANGED <<streamVars, http>>,
         pc[t] \notin Over, next \notin Over,
         stream[t] = "idle" => next \in Unopened,
         stream[t] = "open" => Expected(pc[t]) \subseteq Expected(next)
  PROVE  Answer(t)'
BY DEF Answer, LastIn, streamVars, Over

\* A step of the handler that publishes an event.
LEMMA PublishAnswer ==
  ASSUME TypeOK, NEW t \in Turn, Answer(t), NEW event \in Event, NEW next,
         pc'[t] = next, Send(t, event), UNCHANGED http,
         pc[t] \notin Over, next \notin Over,
         event \in Expected(next),
         stream[t] # "closed" => Follows(event, sent[t])
  PROVE  Answer(t)'
<1>1. sent[t] \in Seq(Event) /\ stream[t] \in {"idle", "open", "closed"}
  BY DEF TypeOK
<1>2. CASE stream[t] = "closed"
  <2>1. stream'[t] = "closed" /\ client'[t] = client[t] /\ sent'[t] = sent[t]
    BY <1>2, Sending
  <2> QED
    BY <1>2, <2>1 DEF Answer, Over
<1>3. CASE stream[t] # "closed"
  <2>1. /\ stream'[t] = "open" /\ client'[t] \in {"reading", "slow"}
        /\ sent'[t] = Append(sent[t], event)
    BY <1>3, Sending
  <2>2. Legal(sent'[t]) /\ LastIn(sent'[t], Expected(next))
    BY <1>1, <1>3, <2>1, Appended DEF Answer, LastIn
  <2>3. http[t] # "error"
    BY DEF Answer, Over
  <2> QED
    BY <2>1, <2>2, <2>3 DEF Answer, Over
<1> QED
  BY <1>2, <1>3

\* The events stay in order and answer the request, whatever the handler does.
LEMMA AnswerStep ==
  ASSUME TypeOK, NEW t \in Turn, Answer(t), Step(t)
  PROVE  Answer(t)'
<1>f. /\ pc \in [Turn -> Phase] /\ stream[t] \in {"idle", "open", "closed"}
      /\ client \in [Turn -> {"reading", "slow", "gone"}]
      /\ stream \in [Turn -> {"idle", "open", "closed"}]
  BY DEF TypeOK
<1>q. ASSUME NEW next \in Phase, pc' = [pc EXCEPT ![t] = next],
             UNCHANGED <<streamVars, http>>,
             pc[t] \notin Over, next \notin Over,
             stream[t] = "idle" => next \in Unopened,
             stream[t] = "open" => Expected(pc[t]) \subseteq Expected(next)
      PROVE  Answer(t)'
  BY <1>f, <1>q, QuietAnswer
<1>p. ASSUME NEW event \in Event, NEW next \in Phase, Publish(t, event, next),
             pc[t] \notin Over, next \notin Over, event \in Expected(next),
             stream[t] # "closed" => Follows(event, sent[t])
      PROVE  Answer(t)'
  <2>1. pc'[t] = next /\ Send(t, event) /\ UNCHANGED http
    BY <1>f, <1>p DEF Publish, Goto
  <2> QED
    BY <1>p, <2>1, PublishAnswer
\* An open stream that is not expected to have an event does not exist.
<1>o. stream[t] = "open" => Expected(pc[t]) # {}
  BY DEF Answer, LastIn
<1>1. CASE Receive(t)
  <2>1. /\ pc[t] = "none" /\ pc' = [pc EXCEPT ![t] = "create"]
        /\ UNCHANGED <<streamVars, http>>
    BY <1>1 DEF Receive, Goto
  <2> QED
    BY <2>1, <1>q, <1>o DEF Over, Phase, Unopened, Expected
<1>2. CASE CreateMessage(t)
  <2>1. /\ pc[t] = "create" /\ pc' = [pc EXCEPT ![t] = "announce"]
        /\ UNCHANGED <<streamVars, http>>
    BY <1>2 DEF CreateMessage, At, Goto
  <2> QED
    BY <2>1, <1>q, <1>o DEF Over, Phase, Unopened, Expected
<1>3. CASE CreateRejected(t) \/ CreateError(t)
  <2>1. /\ pc[t] = "create" /\ pc' = [pc EXCEPT ![t] = "report"]
        /\ UNCHANGED <<streamVars, http>>
    BY <1>3 DEF CreateRejected, CreateError, Broken, At, Goto
  <2> QED
    BY <2>1, <1>q, <1>o DEF Over, Phase, Unopened, Expected
<1>4. CASE Announce(t)
  <2>1. pc[t] = "announce" /\ Publish(t, "message.created", "claim")
    BY <1>4 DEF Announce, At
  <2>2. stream[t] # "closed" => sent[t] = <<>>
    BY <2>1, <1>f, <1>o DEF Answer, Expected
  <2> QED
    BY <2>1, <2>2, <1>p DEF Over, Phase, Event, Expected, Follows
<1>5. CASE ClaimChat(t)
  <2>1. /\ pc[t] = "claim" /\ pc' = [pc EXCEPT ![t] = "start"]
        /\ UNCHANGED <<streamVars, http>>
    BY <1>5 DEF ClaimChat, At, Goto
  <2>2. stream[t] # "idle"
    BY <2>1 DEF Answer, Unopened
  <2> QED
    BY <2>1, <2>2, <1>q DEF Over, Phase, Expected
<1>6. CASE ClaimError(t)
  <2>1. /\ pc[t] = "claim" /\ pc' = [pc EXCEPT ![t] = "report"]
        /\ UNCHANGED <<streamVars, http>>
    BY <1>6 DEF ClaimError, Broken, At, Goto
  <2> QED
    BY <2>1, <1>q DEF Over, Phase, Unopened, Expected
<1>7. CASE StartResponse(t)
  <2>1. pc[t] = "start" /\ Publish(t, "chat.started", "respond")
    BY <1>7 DEF StartResponse, At
  <2>2. stream[t] # "closed" => LastIn(sent[t], {"message.created"})
    BY <2>1, <1>f DEF Answer, Unopened, Expected
  <2> QED
    BY <2>1, <2>2, <1>p, BeforeEvents DEF Over, Phase, Event, Expected, Follows, LastIn
<1>8. CASE Delta(t)
  <2>1. pc[t] = "respond" /\ Publish(t, "assistant.delta", "respond")
    BY <1>8 DEF Delta, At
  <2>2. stream[t] # "closed" => LastIn(sent[t], {"chat.started", "assistant.delta"})
    BY <2>1, <1>f DEF Answer, Unopened, Expected
  <2> QED
    BY <2>1, <2>2, <1>p, BeforeEvents DEF Over, Phase, Event, Expected, Follows, LastIn
<1>9. CASE Respond(t) \/ RespondError(t)
  <2>1. /\ pc[t] = "respond" /\ UNCHANGED <<streamVars, http>>
        /\ \E next \in {"complete", "fail"} : pc' = [pc EXCEPT ![t] = next]
    BY <1>9 DEF Respond, RespondError, At, Goto
  <2>2. stream[t] # "idle"
    BY <2>1 DEF Answer, Unopened
  <2> QED
    BY <2>1, <2>2, <1>q DEF Over, Phase, Expected
<1>10. CASE CompleteChat(t)
  <2>1. /\ pc[t] = "complete" /\ UNCHANGED <<streamVars, http>>
        /\ \E next \in {"queued", "completed"} : pc' = [pc EXCEPT ![t] = next]
    BY <1>10 DEF CompleteChat, At, Goto
  <2>2. stream[t] # "idle"
    BY <2>1 DEF Answer, Unopened
  <2> QED
    BY <2>1, <2>2, <1>q DEF Over, Phase, Expected
<1>11. CASE CompleteError(t) \/ FailChat(t) \/ FailChatError(t)
  <2>1. /\ pc[t] \in {"complete", "fail"} /\ UNCHANGED <<streamVars, http>>
        /\ pc' = [pc EXCEPT ![t] = "report"]
    BY <1>11 DEF CompleteError, FailChat, FailChatError, Broken, At, Goto
  <2> QED
    BY <2>1, <1>q DEF Over, Phase, Unopened, Expected
<1>12. CASE PublishQueued(t)
  <2>1. pc[t] = "queued" /\ Publish(t, "generation.queued", "completed")
    BY <1>12 DEF PublishQueued, At
  <2>2. stream[t] # "closed" => LastIn(sent[t], {"chat.started", "assistant.delta"})
    BY <2>1, <1>f DEF Answer, Unopened, Expected
  <2> QED
    BY <2>1, <2>2, <1>p, BeforeEvents DEF Over, Phase, Event, Expected, Follows, LastIn
<1>13. CASE PublishCompleted(t)
  <2>1. pc[t] = "completed" /\ Publish(t, "chat.completed", "end")
    BY <1>13 DEF PublishCompleted, At
  <2>2. stream[t] # "closed" =>
          LastIn(sent[t], {"chat.started", "assistant.delta", "generation.queued"})
    BY <2>1, <1>f DEF Answer, Unopened, Expected
  <2> QED
    BY <2>1, <2>2, <1>p, BeforeEvents
       DEF Over, Phase, Event, Expected, Follows, LastIn, Terminal
<1>14. CASE Report(t)
  <2>0. pc[t] = "report"
    BY <1>14 DEF Report, At
  <2>1. CASE stream[t] = "open"
    <3>1. Send(t, "chat.failed") /\ pc'[t] = "end" /\ UNCHANGED http
      BY <1>14, <1>f, <2>1 DEF Report, Goto
    <3>2. LastIn(sent[t], {"message.created", "chat.started", "assistant.delta"})
      BY <2>0, <2>1 DEF Answer, Expected
    <3>3. Follows("chat.failed", sent[t]) /\ "chat.failed" \in Expected("end")
      BY <3>2, BeforeEvents DEF Follows, LastIn, Expected, Terminal
    <3> QED
      BY <2>0, <3>1, <3>3, PublishAnswer DEF Over, Event
  <2>2. CASE stream[t] = "idle"
    <3>1. /\ http'[t] = "error" /\ pc'[t] = "done" /\ UNCHANGED streamVars
      BY <1>14, <1>f, <2>2 DEF Report, Goto, TypeOK
    <3> QED
      BY <2>2, <3>1 DEF Answer, streamVars, Unopened
  <2>3. CASE stream[t] = "closed"
    <3>1. pc'[t] = "done" /\ UNCHANGED <<streamVars, http>>
      BY <1>14, <1>f, <2>3 DEF Report, Goto
    <3> QED
      BY <2>0, <2>3, <3>1 DEF Answer, streamVars, Over
  <2> QED
    BY <1>f, <2>1, <2>2, <2>3
<1>15. CASE EndStream(t)
  <2>1. /\ pc[t] = "end" /\ pc'[t] = "done" /\ stream'[t] = "closed"
        /\ UNCHANGED <<client, sent, http>>
    BY <1>15, <1>f DEF EndStream, At, Goto
  <2>2. client[t] = "gone" \/ LastIn(sent[t], Terminal)
    BY <2>1, <1>f DEF Answer, Unopened, Expected, Over
  <2> QED
    BY <2>1, <2>2 DEF Answer, Over
<1>16. CASE Drain(t)
  <2>1. /\ client[t] = "slow" /\ client'[t] = "reading"
        /\ UNCHANGED <<pc, stream, sent, http>>
    BY <1>16, <1>f DEF Drain
  <2> QED
    BY <2>1 DEF Answer
<1>17. CASE Disconnect(t)
  <2>1. /\ pc[t] \notin Over /\ client'[t] = "gone" /\ stream'[t] = "closed"
        /\ UNCHANGED <<pc, sent, http>>
    BY <1>17, <1>f DEF Disconnect
  <2> QED
    BY <2>1 DEF Answer, Over
<1> QED
  BY <1>1, <1>2, <1>3, <1>4, <1>5, <1>6, <1>7, <1>8, <1>9, <1>10, <1>11, <1>12,
     <1>13, <1>14, <1>15, <1>16, <1>17 DEF Step, Work, Disturb

\* A step of the handler that publishes an event the database knows of.
LEMMA PublishProgress ==
  ASSUME TypeOK, NEW t \in Turn, Progress(t), NEW event \in Event, Send(t, event),
         UNCHANGED <<run, outcome, handlerVars>>,
         "internal" \notin errors[t] => run[t] \in RunAt(pc'[t]),
         "internal" \in errors[t] => pc'[t] \in {"report", "end", "done", "dead"},
         pc'[t] \in {"complete", "queued", "completed"} => intent[t] # "none",
         pc'[t] # "queued",
         event = "message.created" => run[t] # "absent",
         event = "chat.started" => run[t] \notin {"absent", "pending"},
         event = "generation.queued" => run[t] = "completed" /\ outcome[t] = "generation",
         event = "chat.completed" => run[t] = "completed"
  PROVE  Progress(t)'
<1>1. sent[t] \in Seq(Event)
  BY DEF TypeOK
<1>2. sent'[t] = sent[t] \/ sent'[t] = Append(sent[t], event)
  BY Sending
<1>3. ASSUME NEW e, Has(sent'[t], e) PROVE Has(sent[t], e) \/ e = event
  <2>1. CASE sent'[t] = sent[t]
    BY <1>3, <2>1
  <2>2. CASE sent'[t] = Append(sent[t], event)
    <3>1. Has(Append(sent[t], event), e)
      BY <1>3, <2>2 DEF Has
    <3> QED
      BY <1>1, <3>1, Appended
  <2> QED
    BY <1>2, <2>1, <2>2
<1>4. ASSUME NEW e PROVE Has(sent[t], e)' <=> Has(sent'[t], e)
  BY DEF Has
<1> QED
  BY <1>3, <1>4 DEF Progress, handlerVars

\* What every step but a publication does to the run, at most: it moves on,
\* and an answer is committed with it.
LEMMA QuietProgress ==
  ASSUME NEW t \in Turn, Progress(t), sent'[t] = sent[t],
         run[t] = "completed" => run'[t] = "completed" /\ outcome'[t] = outcome[t]
                                 /\ intent'[t] = intent[t],
         run[t] # "absent" => run'[t] # "absent",
         run[t] \notin {"absent", "pending"} => run'[t] \notin {"absent", "pending"},
         run'[t] = "completed" => outcome'[t] = intent'[t] /\ intent'[t] # "none",
         run'[t] # "completed" => outcome'[t] = outcome[t],
         "internal" \notin errors'[t] => run'[t] \in RunAt(pc'[t]),
         "internal" \in errors'[t] => pc'[t] \in {"report", "end", "done", "dead"},
         pc'[t] \in {"complete", "queued", "completed"} => intent'[t] # "none",
         pc'[t] = "queued" => intent'[t] = "generation"
  PROVE  Progress(t)'
BY DEF Progress, Has

\* The database is never behind what was said, whatever the handler does.
LEMMA ProgressStep ==
  ASSUME TypeOK, NEW t \in Turn, Progress(t), Step(t)
  PROVE  Progress(t)'
<1>f. /\ pc \in [Turn -> Phase] /\ run \in [Turn -> RunStatus]
      /\ outcome \in [Turn -> Outcome] /\ intent \in [Turn -> Outcome]
      /\ errors \in [Turn -> SUBSET {"rejected", "unavailable", "internal"}]
  BY DEF TypeOK
<1>a. pc[t] \notin {"report", "end", "done", "dead"} =>
        "internal" \notin errors[t] /\ run[t] \in RunAt(pc[t])
  BY DEF Progress
\* Move changes the run of this turn alone, if it is where it should be.
<1>m. ASSUME NEW from, NEW to, Move(t, from, to)
      PROVE  run'[t] = IF run[t] = from THEN to ELSE run[t]
  BY <1>f, <1>m DEF Move
<1>g. ASSUME NEW phase, Goto(t, phase) PROVE pc'[t] = phase
  BY <1>f, <1>g DEF Goto
<1>e. ASSUME NEW reason, errors' = [errors EXCEPT ![t] = @ \cup {reason}]
      PROVE  errors'[t] = errors[t] \cup {reason}
  BY <1>f, <1>e
<1>b. \A reason : Broken(t, reason) =>
        /\ pc'[t] = "report" /\ errors'[t] = errors[t] \cup {reason}
        /\ UNCHANGED <<intent, sent>>
  BY <1>g, <1>e DEF Broken, streamVars
<1>c. Commit(t) => /\ run'[t] = IF run[t] = "processing" THEN "completed" ELSE run[t]
                   /\ outcome'[t] = IF run[t] = "processing" THEN intent[t] ELSE outcome[t]
  BY <1>f, <1>m DEF Commit
<1>1. CASE Receive(t)
  <2>1. pc[t] = "none" /\ pc'[t] = "create" /\ UNCHANGED <<run, outcome, intent, errors, sent>>
    BY <1>1, <1>g DEF Receive, handlerVars, streamVars
  <2> QED
    BY <2>1, <1>a, QuietProgress DEF Progress, RunAt
<1>2. CASE CreateMessage(t)
  <2>1. /\ pc[t] = "create" /\ pc'[t] = "announce"
        /\ UNCHANGED <<outcome, intent, errors, sent>>
        /\ run'[t] = IF run[t] = "absent" THEN "pending" ELSE run[t]
    BY <1>2, <1>m, <1>g DEF CreateMessage, At, handlerVars, streamVars
  <2> QED
    BY <2>1, <1>a, QuietProgress DEF Progress, RunAt
<1>3. CASE CreateRejected(t)
  <2>1. /\ pc[t] = "create" /\ pc'[t] = "report" /\ UNCHANGED <<run, outcome, intent, sent>>
        /\ errors'[t] = errors[t] \cup {"rejected"}
    BY <1>3, <1>b DEF CreateRejected, At
  <2> QED
    BY <2>1, <1>a, QuietProgress DEF Progress, RunAt
<1>4. CASE CreateError(t)
  <2>1. /\ pc[t] = "create" /\ pc'[t] = "report" /\ UNCHANGED <<outcome, intent, sent>>
        /\ "internal" \in errors'[t]
        /\ run'[t] \in {run[t], IF run[t] = "absent" THEN "pending" ELSE run[t]}
    BY <1>4, <1>b, <1>m DEF CreateError, At
  <2> QED
    BY <2>1, <1>a, QuietProgress DEF Progress, RunAt
<1>5. CASE Announce(t)
  <2>1. /\ pc[t] = "announce" /\ pc'[t] = "claim" /\ Send(t, "message.created")
        /\ UNCHANGED <<run, outcome, handlerVars>>
    BY <1>5, <1>g DEF Announce, At, Publish
  <2> QED
    BY <2>1, <1>a, PublishProgress DEF RunAt, Event
<1>6. CASE ClaimChat(t)
  <2>1. /\ pc[t] = "claim" /\ pc'[t] = "start"
        /\ UNCHANGED <<outcome, intent, errors, sent>>
        /\ run'[t] = IF run[t] = "pending" THEN "processing" ELSE run[t]
    BY <1>6, <1>m, <1>g DEF ClaimChat, At, handlerVars, streamVars
  <2> QED
    BY <2>1, <1>a, QuietProgress DEF Progress, RunAt
<1>7. CASE ClaimError(t)
  <2>1. /\ pc[t] = "claim" /\ pc'[t] = "report" /\ UNCHANGED <<outcome, intent, sent>>
        /\ "internal" \in errors'[t]
        /\ run'[t] \in {run[t], IF run[t] = "pending" THEN "processing" ELSE run[t]}
    BY <1>7, <1>b, <1>m DEF ClaimError, At
  <2> QED
    BY <2>1, <1>a, QuietProgress DEF Progress, RunAt
<1>8. CASE StartResponse(t)
  <2>1. /\ pc[t] = "start" /\ pc'[t] = "respond" /\ Send(t, "chat.started")
        /\ UNCHANGED <<run, outcome, handlerVars>>
    BY <1>8, <1>g DEF StartResponse, At, Publish
  <2> QED
    BY <2>1, <1>a, PublishProgress DEF RunAt, Event
<1>9. CASE Delta(t)
  <2>1. /\ pc[t] = "respond" /\ pc'[t] = "respond" /\ Send(t, "assistant.delta")
        /\ UNCHANGED <<run, outcome, handlerVars>>
    BY <1>9, <1>g DEF Delta, At, Publish
  <2> QED
    BY <2>1, <1>a, PublishProgress DEF RunAt, Event
<1>10. CASE Respond(t)
  <2>1. /\ pc[t] = "respond" /\ pc'[t] = "complete" /\ UNCHANGED <<run, outcome, errors, sent>>
        /\ intent'[t] # "none"
    BY <1>10, <1>f, <1>g DEF Respond, At, streamVars
  <2> QED
    BY <2>1, <1>a, QuietProgress DEF Progress, RunAt
<1>11. CASE RespondError(t)
  <2>1. /\ pc[t] = "respond" /\ pc'[t] = "fail" /\ UNCHANGED <<run, outcome, intent, sent>>
        /\ errors'[t] = errors[t] \cup {"unavailable"}
    BY <1>11, <1>g, <1>e DEF RespondError, At, streamVars
  <2> QED
    BY <2>1, <1>a, QuietProgress DEF Progress, RunAt
<1>12. CASE CompleteChat(t)
  <2>1. /\ pc[t] = "complete" /\ UNCHANGED <<intent, errors, sent>>
        /\ pc'[t] = IF intent[t] = "generation" THEN "queued" ELSE "completed"
        /\ run[t] = "processing" => run'[t] = "completed" /\ outcome'[t] = intent[t]
    BY <1>12, <1>c, <1>g DEF CompleteChat, At, handlerVars, streamVars
  <2> QED
    BY <2>1, <1>a, QuietProgress DEF Progress, RunAt
<1>13. CASE CompleteError(t)
  <2>1. /\ pc[t] = "complete" /\ pc'[t] = "report" /\ UNCHANGED <<intent, sent>>
        /\ "internal" \in errors'[t]
        /\ \/ run'[t] = run[t] /\ outcome'[t] = outcome[t]
           \/ run[t] = "processing" => run'[t] = "completed" /\ outcome'[t] = intent[t]
    BY <1>13, <1>b, <1>c DEF CompleteError, At
  <2> QED
    BY <2>1, <1>a, QuietProgress DEF Progress, RunAt
<1>14. CASE PublishQueued(t)
  <2>1. /\ pc[t] = "queued" /\ pc'[t] = "completed" /\ Send(t, "generation.queued")
        /\ UNCHANGED <<run, outcome, handlerVars>>
    BY <1>14, <1>g DEF PublishQueued, At, Publish
  <2>2. run[t] = "completed" /\ outcome[t] = "generation" /\ intent[t] # "none"
    BY <2>1, <1>a DEF Progress, RunAt
  <2> QED
    BY <2>1, <2>2, <1>a, PublishProgress DEF RunAt, Event
<1>15. CASE PublishCompleted(t)
  <2>1. /\ pc[t] = "completed" /\ pc'[t] = "end" /\ Send(t, "chat.completed")
        /\ UNCHANGED <<run, outcome, handlerVars>>
    BY <1>15, <1>g DEF PublishCompleted, At, Publish
  <2> QED
    BY <2>1, <1>a, PublishProgress DEF RunAt, Event
<1>16. CASE FailChat(t)
  <2>1. /\ pc[t] = "fail" /\ pc'[t] = "report" /\ UNCHANGED <<outcome, intent, errors, sent>>
        /\ run'[t] = IF run[t] = "processing" THEN "failed" ELSE run[t]
    BY <1>16, <1>m, <1>g DEF FailChat, At, handlerVars, streamVars
  <2> QED
    BY <2>1, <1>a, QuietProgress DEF Progress, RunAt
<1>17. CASE FailChatError(t)
  <2>1. /\ pc[t] = "fail" /\ pc'[t] = "report" /\ UNCHANGED <<outcome, intent, sent>>
        /\ "internal" \in errors'[t]
        /\ run'[t] \in {run[t], IF run[t] = "processing" THEN "failed" ELSE run[t]}
    BY <1>17, <1>b, <1>m DEF FailChatError, At
  <2> QED
    BY <2>1, <1>a, QuietProgress DEF Progress, RunAt
<1>18. CASE Report(t)
  <2>1. /\ pc[t] = "report" /\ UNCHANGED <<run, outcome, handlerVars>>
        /\ stream[t] \in {"idle", "open", "closed"}
    BY <1>18 DEF Report, At, TypeOK
  <2>2. CASE stream[t] = "open"
    <3>1. Send(t, "chat.failed") /\ pc'[t] = "end"
      BY <1>18, <1>g, <2>2 DEF Report
    <3> QED
      BY <2>1, <3>1, PublishProgress DEF Progress, RunAt, Event
  <2>3. CASE stream[t] # "open"
    <3>1. pc'[t] = "done" /\ UNCHANGED sent
      BY <1>18, <1>g, <2>1, <2>3 DEF Report, streamVars
    <3> QED
      BY <2>1, <3>1, QuietProgress DEF Progress, RunAt, handlerVars
  <2> QED
    BY <2>2, <2>3
<1>19. CASE EndStream(t)
  <2>1. pc[t] = "end" /\ pc'[t] = "done" /\ UNCHANGED <<run, outcome, intent, errors, sent>>
    BY <1>19, <1>g DEF EndStream, At, handlerVars
  <2> QED
    BY <2>1, QuietProgress DEF Progress, RunAt
<1>20. CASE Drain(t) \/ Disconnect(t)
  <2>1. UNCHANGED <<run, outcome, pc, intent, errors, sent>>
    BY <1>20 DEF Drain, Disconnect, handlerVars
  <2> QED
    BY <2>1, QuietProgress DEF Progress
<1> QED
  BY <1>1, <1>2, <1>3, <1>4, <1>5, <1>6, <1>7, <1>8, <1>9, <1>10, <1>11, <1>12, <1>13,
     <1>14, <1>15, <1>16, <1>17, <1>18, <1>19, <1>20 DEF Step, Work, Disturb

\* A crash closes the streams of the turns under way and leaves the database.
LEMMA CrashStep ==
  ASSUME TurnInv, Crash
  PROVE  TurnInv'
<1>1. /\ pc' \in [Turn -> Phase] /\ client' \in [Turn -> {"reading", "slow", "gone"}]
      /\ stream' \in [Turn -> {"idle", "open", "closed"}]
      /\ UNCHANGED <<run, outcome, intent, errors, sent, http>>
      /\ \A t \in Turn :
           IF pc[t] \notin Over \cup {"none"}
           THEN pc'[t] = "dead" /\ client'[t] = "gone" /\ stream'[t] = "closed"
           ELSE pc'[t] = pc[t] /\ client'[t] = client[t] /\ stream'[t] = stream[t]
  BY DEF Crash, handlerVars, TurnInv, TypeOK, Phase
<1>2. TypeOK'
  <2>1. faults' \in 0 .. MaxFaults
    BY TurnAssumptions DEF Crash, Fault, TurnInv, TypeOK
  <2> QED
    BY <1>1, <2>1 DEF TurnInv, TypeOK
<1>3. ASSUME NEW t \in Turn PROVE Answer(t)' /\ Progress(t)'
  <2>1. CASE pc[t] \notin Over \cup {"none"}
    <3>1. Answer(t)'
      BY <1>1, <2>1 DEF TurnInv, Answer, Legal, Over
    <3>2. Progress(t)'
      BY <1>1, <2>1 DEF TurnInv, TypeOK, Progress, Has, RunAt
    <3> QED
      BY <3>1, <3>2
  <2>2. CASE pc[t] \in Over \cup {"none"}
    BY <1>1, <2>2, Frame DEF TurnInv, Untouched
  <2> QED
    BY <2>1, <2>2
<1> QED
  BY <1>2, <1>3 DEF TurnInv

\* The invariant of the turns: initially, and whatever one turn does.
LEMMA TurnInit == Init => TurnInv
<1> SUFFICES ASSUME Init PROVE TurnInv
  OBVIOUS
<1>1. <<>> \in Seq(Event) /\ DOMAIN <<>> = {}
  BY EmptySeq
<1>2. TypeOK
  BY <1>1, TurnAssumptions DEF Init, TypeOK, RunStatus, Outcome, Phase
<1>3. ASSUME NEW t \in Turn PROVE Answer(t) /\ Progress(t)
  BY <1>1, <1>3 DEF Init, Answer, Legal, Progress, Has, RunAt, Unopened, Over
<1> QED
  BY <1>2, <1>3 DEF TurnInv

LEMMA TurnNext ==
  ASSUME TurnInv, NEW t \in Turn, Step(t)
  PROVE  TurnInv'
<1>1. TypeOK' /\ \A u \in Turn \ {t} : Untouched(u)
  BY StepTypes DEF TurnInv
<1>2. Answer(t)' /\ Progress(t)'
  BY AnswerStep, ProgressStep DEF TurnInv
<1>3. ASSUME NEW u \in Turn \ {t} PROVE Answer(u)' /\ Progress(u)'
  BY <1>1, <1>3, Frame DEF TurnInv
<1> QED
  BY <1>1, <1>2, <1>3 DEF TurnInv

\* Reads do not touch the turns, and neither do workers.
LEMMA TurnStutter ==
  ASSUME TurnInv,
         UNCHANGED <<run, outcome, pc, handlerVars, streamVars, http>>,
         faults' \in 0 .. MaxFaults
  PROVE  TurnInv'
<1>1. TypeOK'
  BY DEF TurnInv, TypeOK, handlerVars, streamVars
<1>2. ASSUME NEW t \in Turn PROVE Answer(t)' /\ Progress(t)'
  BY Frame DEF TurnInv, Untouched, handlerVars, streamVars
<1> QED
  BY <1>1, <1>2 DEF TurnInv

-------------------------------------------------------------------------------

\* What the database and the client have of a turn only moves forward.
AtMost(s, t) == Rank[s] < Rank[t] \/ s = t

\* A queued generation belongs to a committed media request, and an owned one
\* is being processed.
Queued(t) ==
  /\ outcome[t] = "generation" <=> generation[t] # "absent"
  /\ owner[t] # NoWorker => generation[t] = "processing"

\* What a response request has read was true when it was read.
Read(t) ==
  reading[t] # Nothing =>
    /\ reading[t].chatRun \in RunStatus \ {"absent"}
    /\ AtMost(reading[t].chatRun, run[t])
    /\ reading[t].assistantMessage => HasResult(t)
    /\ reading[t].chatRun = "completed" /\ ~reading[t].assistantMessage =>
         generation[t] # "absent"

\* What the client was told is not ahead of the database, nor of the next read.
Told(t) ==
  /\ seen[t].chatRun # "error" /\ AtMost(seen[t].chatRun, run[t])
  /\ AtMost(seen[t].generation, generation[t])
  /\ seen[t].assistantMessage => HasResult(t)
  /\ reading[t] # Nothing =>
       /\ AtMost(seen[t].chatRun, reading[t].chatRun)
       /\ seen[t].assistantMessage => reading[t].assistantMessage

MediaInv ==
  /\ TurnInv /\ MediaTypeOK
  /\ \A t \in Turn : Queued(t) /\ Read(t) /\ Told(t)

\* The order of statuses.
LEMMA AtMostOrder ==
  /\ \A r \in RunStatus : AtMost(r, r) /\ AtMost("absent", r)
                          /\ (AtMost("completed", r) => r = "completed")
  /\ \A r, s, t \in RunStatus : AtMost(r, s) /\ AtMost(s, t) => AtMost(r, t)
<1>1. /\ Rank["absent"] = 0 /\ Rank["pending"] = 1 /\ Rank["processing"] = 2
      /\ Rank["completed"] = 3 /\ Rank["failed"] = 3
  BY DEF Rank, RunStatus
<1>2. \A r \in RunStatus : Rank[r] \in 0 .. 3
  BY <1>1 DEF RunStatus
<1>3. \A r \in RunStatus : AtMost(r, r) /\ AtMost("absent", r)
                           /\ (AtMost("completed", r) => r = "completed")
  BY <1>1 DEF AtMost, RunStatus
<1>4. \A r, s, t \in RunStatus : AtMost(r, s) /\ AtMost(s, t) => AtMost(r, t)
  BY <1>2 DEF AtMost
<1> QED
  BY <1>3, <1>4

\* A step of a turn moves its run forward, and commits while it is processing.
LEMMA DatabaseStep ==
  ASSUME TypeOK, NEW t \in Turn, Step(t)
  PROVE  /\ AtMost(run[t], run'[t])
         /\ outcome'[t] # outcome[t] => run[t] = "processing"
<1>f. run \in [Turn -> RunStatus] /\ outcome \in [Turn -> Outcome]
  BY DEF TypeOK
<1>r. /\ AtMost(run[t], run[t])
      /\ run[t] = "absent" => AtMost(run[t], "pending")
      /\ run[t] = "pending" => AtMost(run[t], "processing")
      /\ run[t] = "processing" => AtMost(run[t], "completed") /\ AtMost(run[t], "failed")
  BY <1>f DEF AtMost, Rank, RunStatus
<1>m. ASSUME NEW from, NEW to, Move(t, from, to)
      PROVE  run'[t] = IF run[t] = from THEN to ELSE run[t]
  BY <1>f, <1>m DEF Move
<1>1. CASE UNCHANGED <<run, outcome>>
  BY <1>1, <1>r
<1>2. CASE /\ UNCHANGED outcome
           /\ \/ Move(t, "absent", "pending") \/ Move(t, "pending", "processing")
              \/ Move(t, "processing", "failed")
  <2>1. CASE Move(t, "absent", "pending")
    BY <1>2, <2>1, <1>m, <1>r
  <2>2. CASE Move(t, "pending", "processing")
    BY <1>2, <2>2, <1>m, <1>r
  <2>3. CASE Move(t, "processing", "failed")
    BY <1>2, <2>3, <1>m, <1>r
  <2> QED
    BY <1>2, <2>1, <2>2, <2>3
<1>3. CASE Commit(t)
  <2>1. /\ run'[t] = IF run[t] = "processing" THEN "completed" ELSE run[t]
        /\ outcome'[t] = IF run[t] = "processing" THEN intent[t] ELSE outcome[t]
    BY <1>3, <1>f, <1>m DEF Commit
  <2> QED
    BY <2>1, <1>r
<1>4. CASE Receive(t) \/ CreateMessage(t) \/ CreateRejected(t) \/ CreateError(t)
  BY <1>1, <1>2, <1>4 DEF Receive, CreateMessage, CreateRejected, CreateError
<1>5. CASE ClaimChat(t) \/ ClaimError(t) \/ FailChat(t) \/ FailChatError(t)
  BY <1>1, <1>2, <1>5 DEF ClaimChat, ClaimError, FailChat, FailChatError
<1>6. CASE Announce(t) \/ StartResponse(t) \/ Delta(t) \/ PublishQueued(t)
           \/ PublishCompleted(t)
  BY <1>1, <1>6 DEF Announce, StartResponse, Delta, PublishQueued, PublishCompleted, Publish
<1>7. CASE Respond(t) \/ RespondError(t) \/ Report(t) \/ EndStream(t) \/ Drain(t)
           \/ Disconnect(t)
  <2>1. UNCHANGED <<run, outcome>>
    <3>1. CASE Report(t)
      BY <3>1 DEF Report
    <3>2. CASE ~Report(t)
      BY <1>7, <3>2 DEF Respond, RespondError, EndStream, Drain, Disconnect
    <3> QED
      BY <3>1, <3>2
  <2> QED
    BY <2>1, <1>1
<1>8. CASE CompleteChat(t) \/ CompleteError(t)
  BY <1>1, <1>3, <1>8 DEF CompleteChat, CompleteError
<1> QED
  BY <1>4, <1>5, <1>6, <1>7, <1>8 DEF Step, Work, Disturb

\* A turn keeps what was read and told of it when the database moves forward.
LEMMA Forward ==
  ASSUME MediaInv, TypeOK', NEW t \in Turn,
         generation'[t] \in RunStatus,
         AtMost(run[t], run'[t]), AtMost(generation[t], generation'[t]),
         generation[t] # "absent" => generation'[t] # "absent",
         HasResult(t) => HasResult(t)',
         seen'[t] = seen[t],
         reading'[t] \in {reading[t], Nothing}
  PROVE  Read(t)' /\ Told(t)'
<1>1. /\ run[t] \in RunStatus /\ run'[t] \in RunStatus
      /\ generation[t] \in RunStatus /\ seen[t] \in Response /\ reading[t] \in Response
  BY DEF MediaInv, TurnInv, TypeOK, MediaTypeOK
<1>2. \A r \in RunStatus : AtMost(r, run[t]) => AtMost(r, run'[t])
  BY <1>1, AtMostOrder
<1>3. \A r \in RunStatus : AtMost(r, generation[t]) => AtMost(r, generation'[t])
  BY <1>1, AtMostOrder
<1>4. Read(t) /\ Told(t)
  BY DEF MediaInv
<1>5. Read(t)'
  BY <1>1, <1>2, <1>4 DEF Read
<1>6. Told(t)'
  BY <1>1, <1>2, <1>3, <1>4 DEF Told, Response
<1> QED
  BY <1>5, <1>6

LEMMA MediaInitial == MediaInit => MediaInv
<1> SUFFICES ASSUME MediaInit PROVE MediaInv
  OBVIOUS
<1>1. TurnInv
  BY TurnInit DEF MediaInit
<1>2. /\ generation = [t \in Turn |-> "absent"]
      /\ owner = [t \in Turn |-> NoWorker] /\ media = [t \in Turn |-> NoMessage]
      /\ reading = [t \in Turn |-> Nothing] /\ seen = [t \in Turn |-> Nothing]
      /\ outcome = [t \in Turn |-> "none"] /\ run = [t \in Turn |-> "absent"]
  BY DEF MediaInit, Init, Queue!Init
<1>3. Nothing \in Response
  BY DEF Nothing, Response, RunStatus
<1>4. MediaTypeOK
  BY <1>1, <1>2, <1>3 DEF TurnInv, MediaTypeOK, RunStatus
<1>5. ASSUME NEW t \in Turn PROVE Queued(t) /\ Read(t) /\ Told(t)
  BY <1>2, AtMostOrder DEF Queued, Read, Told, Nothing, RunStatus
<1> QED
  BY <1>1, <1>4, <1>5 DEF MediaInv

\* A turn takes a step; if it commits a media request, that is queued with it.
LEMMA TurnStepMedia ==
  ASSUME MediaInv, TurnStep
  PROVE  MediaInv'
<1>0. PICK t \in Turn : Step(t)
  BY DEF TurnStep
<1>1. TurnInv' /\ TypeOK' /\ TypeOK /\ TurnInv
  BY <1>0, TurnNext DEF MediaInv, TurnInv
<1>2. \A u \in Turn \ {t} : run'[u] = run[u] /\ outcome'[u] = outcome[u]
  BY <1>0, <1>1, StepTypes DEF Untouched
<1>3. /\ AtMost(run[t], run'[t])
      /\ outcome'[t] # outcome[t] => run[t] = "processing"
  BY <1>0, <1>1, DatabaseStep
<1>4. /\ generation \in [Turn -> RunStatus] /\ owner \in [Turn -> Worker \cup {NoWorker}]
      /\ media \in [Turn -> Message \cup {NoMessage}]
      /\ reading \in [Turn -> Response] /\ seen \in [Turn -> Response]
      /\ UNCHANGED <<reading, seen>>
  BY DEF MediaInv, MediaTypeOK, TurnStep, pollVars
<1>5. \A u \in Turn : MediaCommitted(u) => u = t
  BY <1>2 DEF MediaCommitted
<1>6. /\ generation' = IF MediaCommitted(t) THEN [generation EXCEPT ![t] = "pending"]
                       ELSE generation
      /\ MediaCommitted(t) => generation[t] = "absent"
      /\ UNCHANGED <<owner, media>>
  <2>1. CASE MediaCommitted(t)
    <3>1. Queue!Submit(t)
      BY <1>5, <2>1 DEF TurnStep, Submitted
    <3> QED
      BY <2>1, <3>1 DEF Queue!Submit
  <2>2. CASE ~MediaCommitted(t)
    BY <1>5, <2>2 DEF TurnStep, Submitted, queueVars
  <2> QED
    BY <2>1, <2>2
<1>7. MediaTypeOK'
  BY <1>1, <1>4, <1>6 DEF MediaTypeOK, RunStatus
<1>8. ASSUME NEW u \in Turn PROVE Queued(u)' /\ Read(u)' /\ Told(u)'
  <2>1. outcome[u] # "none" <=> run[u] = "completed"
    BY <1>1 DEF TurnInv, Progress
  <2>2. outcome[u] = outcome'[u] \/ outcome[u] = "none"
    BY <1>2, <1>3, <2>1
  <2>3. run[u] \in RunStatus /\ generation[u] \in RunStatus /\ generation'[u] \in RunStatus
    BY <1>1, <1>4, <1>7 DEF TypeOK, MediaTypeOK
  <2>4. AtMost(run[u], run'[u])
    BY <1>2, <1>3, <2>3, AtMostOrder
  <2>5. /\ AtMost(generation[u], generation'[u])
        /\ generation[u] # "absent" => generation'[u] # "absent"
    BY <1>4, <1>6, <2>3, AtMostOrder
  <2>6. HasResult(u) => HasResult(u)'
    BY <1>6, <2>2 DEF HasResult
  <2>7. Queued(u)'
    <3>1. Queued(u)
      BY DEF MediaInv
    <3>2. CASE MediaCommitted(t) /\ u = t
      BY <1>4, <1>6, <3>1, <3>2 DEF Queued, MediaCommitted
    <3>3. CASE ~(MediaCommitted(t) /\ u = t)
      <4>1. generation'[u] = generation[u] /\ owner'[u] = owner[u]
        BY <1>4, <1>6, <3>3
      <4>2. outcome[u] = "generation" <=> outcome'[u] = "generation"
        BY <1>2, <2>2, <3>3 DEF MediaCommitted
      <4> QED
        BY <3>1, <4>1, <4>2 DEF Queued
    <3> QED
      BY <3>2, <3>3
  <2>8. Read(u)' /\ Told(u)'
    BY <1>1, <1>4, <2>3, <2>4, <2>5, <2>6, Forward
  <2> QED
    BY <2>7, <2>8
<1> QED
  BY <1>1, <1>7, <1>8 DEF MediaInv

\* The server dies; requests for responses die with it.
LEMMA TurnCrashMedia ==
  ASSUME MediaInv, TurnCrash
  PROVE  MediaInv'
<1>1. /\ TurnInv' /\ TypeOK'
      /\ UNCHANGED <<run, outcome, generation, owner, media, seen>>
      /\ reading' = [t \in Turn |-> Nothing]
  BY CrashStep DEF TurnCrash, Crash, MediaInv, TurnInv, queueVars
<1>2. MediaTypeOK'
  BY <1>1 DEF MediaInv, MediaTypeOK, Nothing, Response, RunStatus
<1>3. ASSUME NEW t \in Turn PROVE Queued(t)' /\ Read(t)' /\ Told(t)'
  <2>1. /\ run[t] \in RunStatus /\ generation[t] \in RunStatus
        /\ HasResult(t) => HasResult(t)'
    BY <1>1 DEF MediaInv, MediaTypeOK, TurnInv, TypeOK, HasResult
  <2>2. Queued(t)'
    BY <1>1 DEF MediaInv, Queued
  <2>3. AtMost(run[t], run'[t]) /\ AtMost(generation[t], generation'[t])
    BY <1>1, <2>1, AtMostOrder
  <2> QED
    BY <1>1, <2>1, <2>2, <2>3, Forward
<1> QED
  BY <1>1, <1>2, <1>3 DEF MediaInv

\* A worker moves a generation forward, and only one that is there.
LEMMA WorkerStepMedia ==
  ASSUME MediaInv, WorkerStep
  PROVE  MediaInv'
<1>0. PICK t \in Turn :
        \/ \E w \in Worker : Queue!Take(w, t)
        \/ Queue!Strand(t) \/ Queue!Release(t)
        \/ Queue!Complete(t) \/ Queue!Fail(t)
  BY DEF WorkerStep
<1>1. /\ UNCHANGED <<run, outcome, pc, handlerVars, streamVars, http, faults>>
      /\ UNCHANGED <<reading, seen>>
  BY DEF WorkerStep, vars, pollVars, handlerVars, streamVars
<1>2. TurnInv' /\ TypeOK'
  <2>1. faults' \in 0 .. MaxFaults
    BY <1>1 DEF MediaInv, TurnInv, TypeOK
  <2> QED
    BY <1>1, <2>1, TurnStutter DEF MediaInv, TurnInv
<1>3. /\ generation \in [Turn -> RunStatus] /\ owner \in [Turn -> Worker \cup {NoWorker}]
      /\ media \in [Turn -> Message \cup {NoMessage}]
      /\ owner[t] # NoWorker => generation[t] = "processing"
  BY DEF MediaInv, MediaTypeOK, Queued
<1>4. /\ \E status \in {"processing", "completed", "failed"} :
            /\ generation' = [generation EXCEPT ![t] = status]
            /\ generation[t] \in {"pending", "processing"}
         \/ UNCHANGED generation
      /\ \/ \E w \in Worker : owner' = [owner EXCEPT ![t] = w] /\ generation'[t] = "processing"
         \/ owner' = [owner EXCEPT ![t] = NoWorker]
         \/ UNCHANGED owner /\ owner[t] = NoWorker
      /\ \/ \E m \in Message : media' = [media EXCEPT ![t] = m]
         \/ UNCHANGED media
  <2>1. CASE \E w \in Worker : Queue!Take(w, t)
    BY <1>3, <2>1 DEF Queue!Take, Queue!Unsettled
  <2>2. CASE Queue!Strand(t)
    BY <1>3, <2>2 DEF Queue!Strand
  <2>3. CASE Queue!Release(t)
    BY <2>3 DEF Queue!Release
  <2>4. CASE Queue!Complete(t)
    BY <1>3, <2>4 DEF Queue!Complete
  <2>5. CASE Queue!Fail(t)
    BY <1>3, <2>5 DEF Queue!Fail
  <2> QED
    BY <1>0, <2>1, <2>2, <2>3, <2>4, <2>5
<1>5. /\ generation' \in [Turn -> RunStatus] /\ owner' \in [Turn -> Worker \cup {NoWorker}]
      /\ media' \in [Turn -> Message \cup {NoMessage}]
      /\ \A u \in Turn \ {t} : generation'[u] = generation[u] /\ owner'[u] = owner[u]
                               /\ media'[u] = media[u]
  BY <1>3, <1>4 DEF RunStatus
<1>6. MediaTypeOK'
  BY <1>1, <1>2, <1>5 DEF MediaInv, MediaTypeOK
<1>7. /\ AtMost(generation[t], generation'[t])
      /\ generation[t] # "absent" <=> generation'[t] # "absent"
      /\ owner'[t] # NoWorker => generation'[t] = "processing"
      /\ media[t] # NoMessage => media'[t] # NoMessage
  <2>1. media[t] # NoMessage => media'[t] # NoMessage
    BY <1>3, <1>4, MediaAssumptions
  <2>2. CASE UNCHANGED generation
    <3>1. AtMost(generation[t], generation'[t])
      BY <1>3, <2>2, AtMostOrder
    <3>2. owner'[t] # NoWorker => generation'[t] = "processing"
      BY <1>3, <1>4, <2>2
    <3> QED
      BY <2>1, <2>2, <3>1, <3>2
  <2>3. ASSUME NEW status \in {"processing", "completed", "failed"},
               generation' = [generation EXCEPT ![t] = status],
               generation[t] \in {"pending", "processing"}
        PROVE  /\ AtMost(generation[t], generation'[t])
               /\ generation[t] # "absent" /\ generation'[t] # "absent"
    <3>1. generation'[t] = status
      BY <1>3, <2>3
    <3> QED
      BY <2>3, <3>1 DEF AtMost, Rank, RunStatus
  <2>4. owner'[t] # NoWorker => generation'[t] = "processing"
    BY <1>3, <1>4
  <2> QED
    BY <1>4, <2>1, <2>2, <2>3, <2>4
<1>8. ASSUME NEW u \in Turn PROVE Queued(u)' /\ Read(u)' /\ Told(u)'
  <2>1. /\ run[u] \in RunStatus /\ generation[u] \in RunStatus /\ generation'[u] \in RunStatus
    BY <1>3, <1>5 DEF MediaInv, TurnInv, TypeOK
  <2>2. /\ AtMost(run[u], run'[u]) /\ AtMost(generation[u], generation'[u])
        /\ generation[u] # "absent" <=> generation'[u] # "absent"
        /\ owner'[u] # NoWorker => generation'[u] = "processing"
        /\ media[u] # NoMessage => media'[u] # NoMessage
    BY <1>1, <1>5, <1>7, <2>1, AtMostOrder DEF MediaInv, Queued
  <2>3. HasResult(u) => HasResult(u)'
    BY <1>1, <2>2 DEF HasResult
  <2>4. Queued(u)'
    BY <1>1, <2>2 DEF MediaInv, Queued
  <2> QED
    BY <1>1, <1>2, <2>1, <2>2, <2>3, <2>4, Forward
<1> QED
  BY <1>2, <1>6, <1>8 DEF MediaInv

\* The run and its result are read: a completed run has a reply, media, or at
\* least a generation.
LEMMA ReadRunMedia ==
  ASSUME MediaInv, NEW t \in Turn, ReadRun(t)
  PROVE  MediaInv'
<1> DEFINE response == [chatRun |-> run[t], generation |-> "absent",
                        assistantMessage |-> HasResult(t)]
<1>1. /\ UNCHANGED <<run, outcome, pc, handlerVars, streamVars, http, faults>>
      /\ UNCHANGED <<generation, owner, media, seen>>
      /\ run[t] # "absent" /\ reading[t] = Nothing
      /\ reading' = [reading EXCEPT ![t] = response]
  BY DEF ReadRun, vars, queueVars, handlerVars, streamVars
<1>2. TurnInv' /\ TypeOK'
  <2>1. faults' \in 0 .. MaxFaults
    BY <1>1 DEF MediaInv, TurnInv, TypeOK
  <2> QED
    BY <1>1, <2>1, TurnStutter DEF MediaInv, TurnInv
<1>3. /\ reading \in [Turn -> Response] /\ run[t] \in RunStatus
      /\ HasResult(t) \in BOOLEAN
  BY DEF MediaInv, MediaTypeOK, TypeOK, HasResult
<1>4. response \in Response
  BY <1>3 DEF Response, RunStatus
<1>5. MediaTypeOK'
  BY <1>1, <1>2, <1>3, <1>4 DEF MediaInv, MediaTypeOK
<1>6. ASSUME NEW u \in Turn PROVE Queued(u)' /\ Read(u)' /\ Told(u)'
  <2>0. /\ run[u] \in RunStatus /\ generation[u] \in RunStatus
        /\ HasResult(u)' <=> HasResult(u)
    BY <1>1 DEF MediaInv, MediaTypeOK, TypeOK, HasResult
  <2>1. Queued(u)'
    BY <1>1 DEF MediaInv, Queued
  <2>2. CASE u # t
    <3>1. reading'[u] = reading[u]
      BY <1>1, <1>3, <2>2
    <3> QED
      BY <1>1, <1>2, <2>0, <2>1, <3>1, AtMostOrder, Forward
  <2>3. CASE u = t
    <3>1. reading'[u] = response
      BY <1>1, <1>3, <2>3
    <3>2. run[t] = "completed" /\ ~HasResult(t) => generation[t] # "absent"
      BY DEF MediaInv, TurnInv, Progress, Queued, HasResult, TypeOK, Outcome
    <3>3. Read(u)'
      BY <1>1, <1>3, <2>0, <2>3, <3>1, <3>2, AtMostOrder DEF Read
    <3>4. Told(u)'
      BY <1>1, <2>0, <2>3, <3>1 DEF MediaInv, Told
    <3> QED
      BY <2>1, <3>3, <3>4
  <2> QED
    BY <2>2, <2>3
<1> QED
  BY <1>2, <1>5, <1>6 DEF MediaInv

\* The generation is read after the run, so it explains a completed run; the
\* answer is not behind an earlier one.
LEMMA ReadRelatedStep ==
  ASSUME MediaInv, NEW t \in Turn, ReadRelated(t)
  PROVE  /\ seen' = [seen EXCEPT ![t] = [reading[t] EXCEPT !.generation = generation[t]]]
         /\ reading' = [reading EXCEPT ![t] = Nothing] /\ reading[t] # Nothing
         /\ [reading[t] EXCEPT !.generation = generation[t]] \in Response
         /\ reading[t].chatRun \in RunStatus
         /\ UNCHANGED <<run, outcome, pc, handlerVars, streamVars, http, faults>>
         /\ UNCHANGED <<generation, owner, media>>
<1> DEFINE response == [reading[t] EXCEPT !.generation = generation[t]]
           unexplained == /\ response.chatRun = "completed"
                          /\ response.generation = "absent"
                          /\ ~response.assistantMessage
<1>1. /\ reading[t] # Nothing /\ reading' = [reading EXCEPT ![t] = Nothing]
      /\ seen' = [seen EXCEPT ![t] =
           IF unexplained THEN [response EXCEPT !.chatRun = "error"] ELSE response]
      /\ UNCHANGED <<run, outcome, pc, handlerVars, streamVars, http, faults>>
      /\ UNCHANGED <<generation, owner, media>>
  BY DEF ReadRelated, vars, queueVars, handlerVars, streamVars
<1>2. reading[t] \in Response /\ generation[t] \in RunStatus /\ Read(t)
  BY DEF MediaInv, MediaTypeOK
<1>3. /\ response.chatRun = reading[t].chatRun /\ response.generation = generation[t]
      /\ response.assistantMessage = reading[t].assistantMessage
      /\ response \in Response
  BY <1>2 DEF Response
<1>4. ~unexplained /\ reading[t].chatRun \in RunStatus
  BY <1>1, <1>2, <1>3 DEF Read
<1> QED
  BY <1>1, <1>3, <1>4

LEMMA ReadRelatedMedia ==
  ASSUME MediaInv, NEW t \in Turn, ReadRelated(t)
  PROVE  MediaInv'
<1> DEFINE response == [reading[t] EXCEPT !.generation = generation[t]]
<1>1. /\ seen' = [seen EXCEPT ![t] = response]
      /\ reading' = [reading EXCEPT ![t] = Nothing] /\ reading[t] # Nothing
      /\ response \in Response /\ reading[t].chatRun \in RunStatus
      /\ UNCHANGED <<run, outcome, pc, handlerVars, streamVars, http, faults>>
      /\ UNCHANGED <<generation, owner, media>>
  BY ReadRelatedStep
<1>2. TurnInv' /\ TypeOK'
  <2>1. faults' \in 0 .. MaxFaults
    BY <1>1 DEF MediaInv, TurnInv, TypeOK
  <2> QED
    BY <1>1, <2>1, TurnStutter DEF MediaInv, TurnInv
<1>3. /\ reading \in [Turn -> Response] /\ seen \in [Turn -> Response]
      /\ Nothing \in Response
  BY DEF MediaInv, MediaTypeOK, Nothing, Response, RunStatus
<1>4. MediaTypeOK'
  BY <1>1, <1>2, <1>3 DEF MediaInv, MediaTypeOK
<1>5. ASSUME NEW u \in Turn PROVE Queued(u)' /\ Read(u)' /\ Told(u)'
  <2>0. /\ run[u] \in RunStatus /\ generation[u] \in RunStatus
        /\ HasResult(u)' <=> HasResult(u)
    BY <1>1 DEF MediaInv, MediaTypeOK, TypeOK, HasResult
  <2>1. Queued(u)'
    BY <1>1 DEF MediaInv, Queued
  <2>2. CASE u # t
    <3>1. reading'[u] = reading[u] /\ seen'[u] = seen[u]
      BY <1>1, <1>3, <2>2
    <3> QED
      BY <1>1, <1>2, <2>0, <2>1, <3>1, AtMostOrder, Forward
  <2>3. CASE u = t
    <3>1. reading'[t] = Nothing /\ seen'[t] = response
      BY <1>1, <1>3
    <3>2. /\ response.chatRun = reading[t].chatRun /\ response.generation = generation[t]
          /\ response.assistantMessage = reading[t].assistantMessage
      BY <1>3 DEF Response
    <3>3. Read(t) /\ Told(t)
      BY DEF MediaInv
    <3>4. Read(u)'
      BY <2>3, <3>1 DEF Read
    <3>5. Told(u)'
      BY <1>1, <2>0, <2>3, <3>1, <3>2, <3>3, AtMostOrder DEF Told, Read, RunStatus
    <3> QED
      BY <2>1, <3>4, <3>5
  <2> QED
    BY <2>2, <2>3
<1> QED
  BY <1>2, <1>4, <1>5 DEF MediaInv

LEMMA ReadErrorMedia ==
  ASSUME MediaInv, NEW t \in Turn, ReadError(t)
  PROVE  MediaInv'
<1>1. /\ reading' = [reading EXCEPT ![t] = Nothing]
      /\ UNCHANGED <<run, outcome, pc, handlerVars, streamVars, http>>
      /\ UNCHANGED <<generation, owner, media, seen>>
      /\ faults' \in 0 .. MaxFaults
  BY TurnAssumptions DEF ReadError, Fault, queueVars, MediaInv, TurnInv, TypeOK
<1>2. TurnInv' /\ TypeOK'
  BY <1>1, TurnStutter DEF MediaInv, TurnInv
<1>3. MediaTypeOK'
  BY <1>1, <1>2 DEF MediaInv, MediaTypeOK, Nothing, Response, RunStatus
<1>4. ASSUME NEW u \in Turn PROVE Queued(u)' /\ Read(u)' /\ Told(u)'
  <2>1. /\ run[u] \in RunStatus /\ generation[u] \in RunStatus
        /\ HasResult(u)' <=> HasResult(u)
        /\ reading'[u] \in {reading[u], Nothing}
    BY <1>1 DEF MediaInv, MediaTypeOK, TypeOK, HasResult
  <2>2. Queued(u)'
    BY <1>1 DEF MediaInv, Queued
  <2> QED
    BY <1>1, <1>2, <2>1, <2>2, AtMostOrder, Forward
<1> QED
  BY <1>2, <1>3, <1>4 DEF MediaInv

-------------------------------------------------------------------------------

\* Every step of turns, workers and clients preserves the invariant.
LEMMA MediaStep == MediaInv /\ [MediaNext]_mediaVars => MediaInv'
<1> SUFFICES ASSUME MediaInv, [MediaNext]_mediaVars PROVE MediaInv'
  OBVIOUS
<1>1. CASE UNCHANGED mediaVars
  <2>1. /\ UNCHANGED <<run, outcome, pc, handlerVars, streamVars, http, faults>>
        /\ UNCHANGED <<generation, owner, media, reading, seen>>
    BY <1>1 DEF mediaVars, vars, queueVars, pollVars, handlerVars, streamVars
  <2>2. TurnInv'
    <3>1. faults' \in 0 .. MaxFaults
      BY <2>1 DEF MediaInv, TurnInv, TypeOK
    <3> QED
      BY <2>1, <3>1, TurnStutter DEF MediaInv
  <2>3. MediaTypeOK'
    BY <2>1, <2>2 DEF MediaInv, MediaTypeOK, TurnInv
  <2> QED
    BY <2>1, <2>2, <2>3 DEF MediaInv, Queued, Read, Told, HasResult
<1> QED
  BY <1>1, TurnStepMedia, TurnCrashMedia, WorkerStepMedia, ReadRunMedia, ReadRelatedMedia,
     ReadErrorMedia DEF MediaNext, Poll

\* The invariant holds always.
LEMMA MediaInvariant == MediaSpec => []MediaInv
BY MediaInitial, MediaStep, PTL DEF MediaSpec

\* Every variable of turns, queue and clients keeps its type.
THEOREM MediaTypeCorrect == MediaSpec => []MediaTypeOK
<1>1. MediaInv => MediaTypeOK
  BY DEF MediaInv
<1> QED
  BY <1>1, MediaInvariant, PTL

\* The client reads a prefix of one legal turn (publishProgressEvent,
\* streamMessageResponse).
THEOREM EventsInOrder == MediaSpec => []EventOrder
<1>1. MediaInv => EventOrder
  BY DEF MediaInv, TurnInv, Answer, Legal, EventOrder
<1> QED
  BY <1>1, MediaInvariant, PTL

\* Events announce what is committed (SendMessageUseCase.execute).
THEOREM EventsStayTrue == MediaSpec => []EventsDurable
<1>1. MediaInv => EventsDurable
  BY DEF MediaInv, TurnInv, Progress, Has, Sent, EventsDurable
<1> QED
  BY <1>1, MediaInvariant, PTL

\* A request gets one answer, unless its client leaves (streamMessageResponse).
THEOREM OneAnswer == MediaSpec => []AnsweredOnce
<1>1. MediaInv => AnsweredOnce
  BY DEF MediaInv, TurnInv, Answer, LastIn, AnsweredOnce
<1> QED
  BY <1>1, MediaInvariant, PTL

\* Only a failed transaction leaves a run unsettled
\* (GenerateAssistantResponseUseCase.execute).
THEOREM NoRunStranded == MediaSpec => []NoStrandedRun
<1>1. MediaInv => NoStrandedRun
  BY DEF MediaInv, TurnInv, Progress, RunAt, NoStrandedRun
<1> QED
  BY <1>1, MediaInvariant, PTL

\* A response request finds what completed the run (getResponse).
THEOREM RunsExplained == MediaSpec => []AlwaysExplained
<1>1. MediaInv => AlwaysExplained
  BY DEF MediaInv, Told, AlwaysExplained
<1> QED
  BY <1>1, MediaInvariant, PTL

\* What a client was told is never taken back (getResponse).
THEOREM NothingTakenBack == MediaSpec => NeverTakenBack
<1> DEFINE Forwards(t) ==
      seen'[t] # seen[t] =>
        /\ AtMost(seen[t].chatRun, seen'[t].chatRun)
        /\ AtMost(seen[t].generation, seen'[t].generation)
        /\ seen[t].assistantMessage => seen'[t].assistantMessage
<1>1. ASSUME MediaInv, MediaNext, NEW t \in Turn PROVE Forwards(t)
  <2>1. CASE ReadRelated(t)
    <3> DEFINE response == [reading[t] EXCEPT !.generation = generation[t]]
    <3>1. /\ seen' = [seen EXCEPT ![t] = response] /\ reading[t] # Nothing
      BY <1>1, <2>1, ReadRelatedStep
    <3>2. reading[t] \in Response /\ seen \in [Turn -> Response] /\ Told(t)
      BY <1>1 DEF MediaInv, MediaTypeOK
    <3>3. /\ response.chatRun = reading[t].chatRun /\ response.generation = generation[t]
          /\ response.assistantMessage = reading[t].assistantMessage
          /\ seen'[t] = response
      BY <3>1, <3>2 DEF Response
    <3> QED
      BY <3>1, <3>2, <3>3 DEF Told
  <2>2. CASE ~ReadRelated(t)
    <3>1. seen'[t] = seen[t]
      <4>1. CASE \E u \in Turn : ReadRelated(u)
        <5>1. PICK u \in Turn : ReadRelated(u)
          BY <4>1
        <5>2. u # t /\ seen \in [Turn -> Response]
          BY <1>1, <2>2, <5>1 DEF MediaInv, MediaTypeOK
        <5> QED
          BY <1>1, <5>1, <5>2, ReadRelatedStep
      <4>2. CASE ~\E u \in Turn : ReadRelated(u)
        BY <1>1, <4>2 DEF MediaNext, Poll, TurnStep, TurnCrash, WorkerStep, ReadRun,
                          ReadError, pollVars
      <4> QED
        BY <4>1, <4>2
    <3> QED
      BY <3>1
  <2> QED
    BY <2>1, <2>2
<1>2. MediaInv /\ [MediaNext]_mediaVars =>
        [\A t \in Turn : seen'[t] # seen[t] =>
           /\ Rank[seen[t].chatRun] < Rank[seen'[t].chatRun]
              \/ seen[t].chatRun = seen'[t].chatRun
           /\ Rank[seen[t].generation] < Rank[seen'[t].generation]
              \/ seen[t].generation = seen'[t].generation
           /\ seen[t].assistantMessage => seen'[t].assistantMessage]_mediaVars
  BY <1>1 DEF AtMost
<1> QED
  BY <1>2, MediaInvariant, PTL DEF MediaSpec, NeverTakenBack
===============================================================================
