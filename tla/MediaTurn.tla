------------------------------ MODULE MediaTurn -------------------------------
(***************************************************************************)
(* Chat turns, the queue of media generations they feed and the clients    *)
(* that follow both with GET .../messages/:messageId/response.             *)
(*                                                                         *)
(* ChatTurn gives the turns, GenerationQueue the workers (GenerationWorker *)
(* implements it); a turn that commits a media request submits it to the   *)
(* queue in the same transaction.                                          *)
(***************************************************************************)
EXTENDS ChatTurn

CONSTANTS
  Worker, NoWorker,     \* of GenerationQueue
  Message, NoMessage    \* of GenerationQueue

ASSUME MediaAssumptions == NoWorker \notin Worker /\ NoMessage \notin Message

VARIABLES
  generation,  \* "ai_generations"."status" of the turn's generation
  owner,       \* the worker that owns it
  media,       \* the assistant message with the generated media
  reading,     \* the response request under way: what it has read so far
  seen         \* the last response the client got

queueVars == <<generation, owner, media>>
pollVars == <<reading, seen>>
mediaVars == <<vars, queueVars, pollVars>>

Queue == INSTANCE GenerationQueue WITH
  Generation <- Turn, state <- generation, owner <- owner, outcome <- media

\* MessageResponseState: two statuses and whether there is an assistant
\* message.  "error" is the exception for a completed run without a result.
Response == [chatRun : RunStatus \cup {"error"}, generation : RunStatus,
             assistantMessage : BOOLEAN]

Nothing == [chatRun |-> "absent", generation |-> "absent", assistantMessage |-> FALSE]

MediaTypeOK ==
  /\ TypeOK
  /\ generation \in [Turn -> RunStatus]
  /\ owner \in [Turn -> Worker \cup {NoWorker}]
  /\ media \in [Turn -> Message \cup {NoMessage}]
  /\ reading \in [Turn -> Response]
  /\ seen \in [Turn -> Response]

MediaInit ==
  /\ Init /\ Queue!Init
  /\ reading = [t \in Turn |-> Nothing]
  /\ seen = [t \in Turn |-> Nothing]

\* Mutant: the assistant message is looked up through the generation.
MediaResultOnly(t) == media[t] # NoMessage

\* "chat_runs"."result_message_id" is set: by completeChat for a reply, by
\* completeClaim for media.
HasResult(t) == outcome[t] = "reply" \/ media[t] # NoMessage

\* A client may stop polling; it asks again after a page reload.
Final(response) ==
  \/ response.assistantMessage
  \/ response.chatRun = "failed"
  \/ response.generation \in {"completed", "failed"}

-----------------------------------------------------------------------------
(* getResponse: one SELECT of the run and one of each relation, in no       *)
(* transaction                                                             *)

ReadRun(t) ==
  /\ run[t] # "absent"
  /\ reading[t] = Nothing
  /\ reading' = [reading EXCEPT ![t] =
       [chatRun |-> run[t], generation |-> "absent", assistantMessage |-> HasResult(t)]]
  /\ UNCHANGED <<vars, queueVars, seen>>

\* The result is looked up by the id the run had.
ReadRelated(t) ==
  /\ reading[t] # Nothing
  /\ LET response == [reading[t] EXCEPT !.generation = generation[t]]
         unexplained == /\ response.chatRun = "completed"
                        /\ response.generation = "absent"
                        /\ ~response.assistantMessage IN
     seen' = [seen EXCEPT ![t] =
       IF unexplained THEN [response EXCEPT !.chatRun = "error"] ELSE response]
  /\ reading' = [reading EXCEPT ![t] = Nothing]
  /\ UNCHANGED <<vars, queueVars>>

\* A SELECT fails; the client will ask again.
ReadError(t) ==
  /\ reading[t] # Nothing
  /\ Fault("db")
  /\ reading' = [reading EXCEPT ![t] = Nothing]
  /\ UNCHANGED <<run, outcome, pc, handlerVars, streamVars, http, queueVars, seen>>

Poll(t) == ReadRun(t) \/ ReadRelated(t)

-----------------------------------------------------------------------------
(* The composition *)

MediaCommitted(t) == outcome[t] # "generation" /\ outcome'[t] = "generation"

\* The generation row is created in the transaction of completeChat.
Submitted ==
  \/ \E t \in Turn : MediaCommitted(t) /\ Queue!Submit(t)
  \/ (\A t \in Turn : ~MediaCommitted(t)) /\ UNCHANGED queueVars

TurnWork(t) == Work(t) /\ Submitted /\ UNCHANGED pollVars

TurnStep == (\E t \in Turn : Step(t)) /\ Submitted /\ UNCHANGED pollVars

\* The process answers the response requests, too.
TurnCrash ==
  /\ Crash
  /\ reading' = [t \in Turn |-> Nothing]
  /\ UNCHANGED <<queueVars, seen>>

WorkerStep ==
  /\ \E t \in Turn :
       \/ \E w \in Worker : Queue!Take(w, t)
       \/ Queue!Strand(t) \/ Queue!Release(t)
       \/ Queue!Complete(t) \/ Queue!Fail(t)
  /\ UNCHANGED <<vars, pollVars>>

MediaNext ==
  \/ TurnStep \/ TurnCrash \/ WorkerStep
  \/ \E t \in Turn : Poll(t) \/ ReadError(t)

\* Turns go on as ChatTurn says, and clients keep polling as long as they should.
MediaFairness == \A t \in Turn : WF_mediaVars(TurnWork(t)) /\ WF_mediaVars(Poll(t))

MediaSpec == MediaInit /\ [][MediaNext]_mediaVars /\ MediaFairness

-----------------------------------------------------------------------------
(* Properties *)

\* A run is never seen completed with neither a reply nor a generation to
\* show for it, although its parts are read one after the other: getResponse
\* never throws "Completed chat run has no reply or media generation".
AlwaysExplained == \A t \in Turn : seen[t].chatRun # "error"

Rank == [status \in RunStatus |->
  CASE status = "absent" -> 0 [] status = "pending" -> 1 [] status = "processing" -> 2
    [] status \in {"completed", "failed"} -> 3]

\* What a client learns never goes back: no later response shows an earlier
\* status of the run or of the generation, another settled status, or takes
\* the assistant message away, whatever workers and handlers do meanwhile.
NeverTakenBack ==
  [][\A t \in Turn : seen'[t] # seen[t] =>
       /\ Rank[seen[t].chatRun] < Rank[seen'[t].chatRun]
          \/ seen[t].chatRun = seen'[t].chatRun
       /\ Rank[seen[t].generation] < Rank[seen'[t].generation]
          \/ seen[t].generation = seen'[t].generation
       /\ seen[t].assistantMessage => seen'[t].assistantMessage]_mediaVars

\* A client that lost its stream, or whose server died, learns by polling how
\* its turn ended, provided that queued generations settle, which is what
\* TimelyWorker's EverySubmissionSettles says of the workers.
PollingSuffices ==
  (\A t \in Turn : generation[t] = "pending" ~> generation[t] \in {"completed", "failed"})
  => \A t \in Turn : run[t] \in {"completed", "failed"} ~> Final(seen[t])

\* A client stops polling once the generation is completed, because then the
\* assistant message is there (docs/chat.md, Messages).
CompletedHasMessage ==
  \A t \in Turn : seen[t].generation = "completed" => seen[t].assistantMessage
==============================================================================
