--------------------------- MODULE GenerationWorker ---------------------------
(***************************************************************************)
(* The media generation workers: the polling loop of AiGenerationWorker,   *)
(* the claim / generate / store / complete sequence of                     *)
(* ProcessNextAiGenerationUseCase with its lease, the SQL statements of     *)
(* AiGenerationPrismaRepository and the files of LocalAssetStorage.         *)
(*                                                                         *)
(* A claim is never recorded as such: a worker owns a row as long as the   *)
(* row's "updated_at" still is the version the worker read, and a row      *)
(* whose "updated_at" is older than the lease may be claimed again.        *)
(***************************************************************************)
EXTENDS Integers, FiniteSets

CONSTANTS
  Worker,         \* workers, one per server process on the same database
  Generation,     \* rows of "ai_generations"
  Key,            \* storage keys (random UUIDs, never drawn twice)
  NoWorker,       \* owner of a generation nobody owns
  NoGeneration,   \* what an idle worker is working on
  Malformed,      \* rows whose type, config or route does not parse
  ChatTriggered,  \* rows whose trigger message has a chat run
  Lease,          \* leaseMs, in ticks
  Skew,           \* how far an application clock may be from the database's
  MaxOutputs,     \* MAX_MESSAGE_ASSET_COUNT
  MaxTime,        \* bound of the model: last tick of the clock
  Faults,         \* the kinds of failure that may happen
  MaxFaults       \* bound of the model: how many of them

(***************************************************************************)
(*   "crash"    a process dies                                             *)
(*   "shutdown" a process is asked to stop and drains its worker           *)
(*   "db"       a statement fails and has no effect                        *)
(*   "reply"    a claim or a renewal takes effect but its answer is lost   *)
(*   "commit"   the completion commits but its answer is lost              *)
(*   "unlink"   a stored file cannot be deleted                            *)
(***************************************************************************)
FaultKind == {"crash", "shutdown", "db", "reply", "commit", "unlink"}

\* Versions of two claims of one row differ only because a lease outlasts the
\* disagreement of the clocks.
ASSUME WorkerAssumptions ==
  /\ NoWorker \notin Worker
  /\ NoGeneration \notin Generation
  /\ Malformed \subseteq Generation
  /\ ChatTriggered \subseteq Generation
  /\ Lease \in Nat \ {0}
  /\ Skew \in Nat /\ Skew <= Lease
  /\ MaxOutputs \in Nat \ {0}
  /\ MaxTime \in Nat
  /\ Faults \subseteq FaultKind
  /\ MaxFaults \in Nat

VARIABLES
  now,          \* the database clock, CURRENT_TIMESTAMP
  status,       \* "ai_generations"."status"
  updatedAt,    \* "ai_generations"."updated_at": claim version and lease start
  messages,     \* assistant messages created for a generation, as sets of keys
  result,       \* "ai_generations"."result_message_id", {} when null
  chatResult,   \* "chat_runs"."result_message_id" of the trigger, {} when null
  files,        \* keys whose file is in the asset storage
  pc,           \* where each worker is
  job,          \* the generation a worker processes, with its lease
  aborted,      \* the worker's AbortSignal
  faults        \* failures so far

rowVars == <<status, updatedAt>>
resultVars == <<messages, result, chatResult>>
vars == <<now, status, updatedAt, messages, result, chatResult, files,
          pc, job, aborted, faults>>

Status == {"absent", "pending", "processing", "completed", "failed"}
Time == 0..MaxTime

Phase == {"stopped", "idle", "rejecting", "generating", "storing",
          "completing", "committing", "discarding", "cleanup", "failing"}

\* The phases in which the renewal timer of the lease runs.
Leasing == {"generating", "storing"}

Job == [gen : Generation \cup {NoGeneration},
        version : Time,                 \* claimVersion
        lost : BOOLEAN,                 \* AiGenerationClaimLease.lost
        outputs : 0..MaxOutputs,        \* how many media the provider returned
        keys : SUBSET Key]              \* storedKeys

NoJob == [gen |-> NoGeneration, version |-> 0, lost |-> FALSE,
          outputs |-> 0, keys |-> {}]

\* A row that does not exist has no meaningful "updated_at".
TypeOK ==
  /\ now \in Time
  /\ status \in [Generation -> Status]
  /\ updatedAt \in [Generation -> Time]
  /\ messages \in [Generation -> SUBSET SUBSET Key]
  /\ result \in [Generation -> SUBSET Key]
  /\ chatResult \in [Generation -> SUBSET Key]
  /\ files \subseteq Key
  /\ pc \in [Worker -> Phase]
  /\ job \in [Worker -> Job]
  /\ aborted \in [Worker -> BOOLEAN]
  /\ faults \in 0..MaxFaults

Init ==
  /\ now = 0
  /\ status = [g \in Generation |-> "absent"]
  /\ updatedAt = [g \in Generation |-> 0]
  /\ messages = [g \in Generation |-> {}]
  /\ result = [g \in Generation |-> {}]
  /\ chatResult = [g \in Generation |-> {}]
  /\ files = {}
  /\ pc = [w \in Worker |-> "stopped"]
  /\ job = [w \in Worker |-> NoJob]
  /\ aborted = [w \in Worker |-> FALSE]
  /\ faults = 0

Fault(kind) ==
  /\ kind \in Faults
  /\ faults < MaxFaults
  /\ faults' = faults + 1

\* The CAS that guards renewal, completion and failure of a claim: status
\* "processing" and the version the worker last read.
Matches(w) ==
  /\ status[job[w].gen] = "processing"
  /\ updatedAt[job[w].gen] = job[w].version

\* Keys that belong to an asset row.
Linked == UNION UNION {messages[g] : g \in Generation}

Held == UNION {job[w].keys : w \in Worker}

\* execute() is over; run() polls again unless the worker is being stopped.
Finish(w) ==
  /\ pc' = [pc EXCEPT ![w] = IF aborted[w] THEN "stopped" ELSE "idle"]
  /\ job' = [job EXCEPT ![w] = NoJob]

Goto(w, phase) == pc' = [pc EXCEPT ![w] = phase]

-----------------------------------------------------------------------------
(* The environment: time, new generations, the worker's life cycle *)

Tick ==
  /\ now < MaxTime
  /\ now' = now + 1
  /\ UNCHANGED <<rowVars, resultVars, files, pc, job, aborted, faults>>

\* A chat turn is completed with a media tool call.  "updated_at" stands for
\* "created_at" here: a pending row is only ever ordered by it.
Submit(g) ==
  /\ status[g] = "absent"
  /\ status' = [status EXCEPT ![g] = "pending"]
  /\ updatedAt' = [updatedAt EXCEPT ![g] = now]
  /\ UNCHANGED <<now, resultVars, files, pc, job, aborted, faults>>

\* AiGenerationWorker.start, or the start of a new process.
Start(w) ==
  /\ pc[w] = "stopped"
  /\ Goto(w, "idle")
  /\ aborted' = [aborted EXCEPT ![w] = FALSE]
  /\ UNCHANGED <<now, rowVars, resultVars, files, job, faults>>

\* AiGenerationWorker.stop aborts the signal; an idle loop ends at once, a
\* busy one when its execute() has returned.
Stop(w) ==
  /\ pc[w] # "stopped" /\ ~aborted[w]
  /\ Fault("shutdown")
  /\ aborted' = [aborted EXCEPT ![w] = TRUE]
  /\ pc' = [pc EXCEPT ![w] = IF @ = "idle" THEN "stopped" ELSE @]
  /\ UNCHANGED <<now, rowVars, resultVars, files, job>>

\* The process dies: its memory is gone, rows and files stay.
Crash(w) ==
  /\ pc[w] # "stopped"
  /\ Fault("crash")
  /\ Goto(w, "stopped")
  /\ job' = [job EXCEPT ![w] = NoJob]
  /\ UNCHANGED <<now, rowVars, resultVars, files, aborted>>
-----------------------------------------------------------------------------
(* claimNext *)

Rows(s) == {g \in Generation : status[g] = s}

\* ORDER BY "created_at" (or "updated_at"), "id" LIMIT 1: ids are random.
Oldest(rows) == {g \in rows : \A h \in rows : updatedAt[g] <= updatedAt[h]}

\* Mutant: any row being processed may be claimed again, stale or not.
CandidatesIgnoringLease(staleBefore) ==
  IF Rows("pending") # {} THEN Oldest(Rows("pending")) ELSE Oldest(Rows("processing"))

\* Mutant: interrupted rows are never picked up.
CandidatesPendingOnly(staleBefore) == Oldest(Rows("pending"))

\* The pending candidates, or the stale ones when no row is pending.
Candidates(staleBefore) ==
  IF Rows("pending") # {}
  THEN Oldest(Rows("pending"))
  ELSE Oldest({g \in Rows("processing") : updatedAt[g] < staleBefore})

\* What "staleBefore" may be: Date.now() - leaseMs on the worker's own clock.
StaleBoundaries == {now + d - Lease : d \in -Skew..Skew}

\* The UPDATE of the claiming statement.
Take(g) ==
  /\ status' = [status EXCEPT ![g] = "processing"]
  /\ updatedAt' = [updatedAt EXCEPT ![g] = now]

\* toClaimedGeneration: a row whose type, config or route does not parse is
\* failed by claimNext itself.
Claimed(g) == IF g \in Malformed THEN "rejecting" ELSE "generating"

ClaimNext(w) ==
  /\ pc[w] = "idle"
  /\ \E staleBefore \in StaleBoundaries : \E g \in Candidates(staleBefore) :
       /\ Take(g)
       /\ job' = [job EXCEPT ![w] = [NoJob EXCEPT !.gen = g, !.version = now]]
       /\ Goto(w, Claimed(g))
  /\ UNCHANGED <<now, resultVars, files, aborted, faults>>

\* The statement ran, the worker got an error: nobody knows of this claim.
ClaimReplyLost(w) ==
  /\ pc[w] = "idle"
  /\ Fault("reply")
  /\ \E staleBefore \in StaleBoundaries : \E g \in Candidates(staleBefore) : Take(g)
  /\ UNCHANGED <<now, resultVars, files, pc, job, aborted>>

-----------------------------------------------------------------------------
(* AiGenerationClaimLease *)

\* UPDATE ... WHERE status = 'processing' AND updated_at = claimVersion.
RenewClaim(w) ==
  /\ pc[w] \in Leasing /\ ~job[w].lost
  /\ IF Matches(w)
     THEN /\ updatedAt' = [updatedAt EXCEPT ![job[w].gen] = now]
          /\ job' = [job EXCEPT ![w].version = now]
     ELSE /\ job' = [job EXCEPT ![w].lost = TRUE]
          /\ UNCHANGED updatedAt
  /\ UNCHANGED <<now, status, resultVars, files, pc, aborted, faults>>

\* A renewal that throws is a lost lease, whether or not it took effect.
RenewError(w) ==
  /\ pc[w] \in Leasing /\ ~job[w].lost
  /\ job' = [job EXCEPT ![w].lost = TRUE]
  /\ \/ /\ Fault("db")
        /\ UNCHANGED updatedAt
     \/ /\ Fault("reply") /\ Matches(w)
        /\ updatedAt' = [updatedAt EXCEPT ![job[w].gen] = now]
  /\ UNCHANGED <<now, status, resultVars, files, pc, aborted>>

-----------------------------------------------------------------------------
(* process: generate, store, complete *)

\* Both providers answered; the text is optional, the media count is checked.
Generate(w) ==
  /\ pc[w] = "generating"
  /\ \E n \in 1..MaxOutputs : job' = [job EXCEPT ![w].outputs = n]
  /\ Goto(w, "storing")
  /\ UNCHANGED <<now, rowVars, resultVars, files, aborted, faults>>

\* No prompt, no usable output, a provider error, a timeout or the abort
\* signal: the exception goes to the catch clause.
GenerateError(w) ==
  /\ pc[w] = "generating"
  /\ Goto(w, "cleanup")
  /\ UNCHANGED <<now, rowVars, resultVars, files, job, aborted, faults>>

\* storeGenerated writes one file under a new name.
StoreGenerated(w) ==
  /\ pc[w] = "storing"
  /\ Cardinality(job[w].keys) < job[w].outputs
  /\ \E k \in Key \ (files \cup Linked \cup Held) :
       /\ files' = files \cup {k}
       /\ job' = [job EXCEPT ![w].keys = @ \cup {k}]
  /\ UNCHANGED <<now, rowVars, resultVars, pc, aborted, faults>>

\* The write fails and removes its own partial file.
StoreError(w) ==
  /\ pc[w] = "storing"
  /\ Cardinality(job[w].keys) < job[w].outputs
  /\ Goto(w, "cleanup")
  /\ UNCHANGED <<now, rowVars, resultVars, files, job, aborted, faults>>

\* lease.stop() waits for the renewal under way and tells whether to go on.
StopLease(w) ==
  /\ pc[w] = "storing"
  /\ Cardinality(job[w].keys) = job[w].outputs
  /\ Goto(w, IF job[w].lost THEN "discarding" ELSE "completing")
  /\ UNCHANGED <<now, rowVars, resultVars, files, job, aborted, faults>>

\* The transaction of completeClaim starts with a SELECT that takes no lock.
FindClaim(w) ==
  /\ pc[w] = "completing"
  /\ Goto(w, IF Matches(w) THEN "committing" ELSE "discarding")
  /\ UNCHANGED <<now, rowVars, resultVars, files, job, aborted, faults>>

\* Asset rows, the assistant message with its links, the conditional update
\* of the generation and the chat run's result, committed together.
WriteResult(g, media) ==
  /\ status' = [status EXCEPT ![g] = "completed"]
  /\ messages' = [messages EXCEPT ![g] = @ \cup {media}]
  /\ result' = [result EXCEPT ![g] = media]
  /\ chatResult' = [chatResult EXCEPT ![g] = IF g \in ChatTriggered THEN media ELSE @]
  /\ UNCHANGED updatedAt

\* Mutant: the count of the conditional update is ignored.
CompleteUnchecked(w) ==
  /\ pc[w] = "committing"
  /\ WriteResult(job[w].gen, job[w].keys) /\ Finish(w)
  /\ UNCHANGED <<now, files, aborted, faults>>

\* Mutant: the stored media are deleted in a "finally" clause.
CompleteThenCleanup(w) ==
  /\ pc[w] = "committing" /\ Matches(w)
  /\ WriteResult(job[w].gen, job[w].keys)
  /\ Goto(w, "cleanup")
  /\ UNCHANGED <<now, files, job, aborted, faults>>

\* Nothing is written when the conditional update counts no row: the
\* transaction rolls back with AiGenerationClaimLostError.
CompleteClaim(w) ==
  /\ pc[w] = "committing"
  /\ IF Matches(w)
     THEN WriteResult(job[w].gen, job[w].keys) /\ Finish(w)
     ELSE Goto(w, "discarding") /\ UNCHANGED <<rowVars, resultVars, job>>
  /\ UNCHANGED <<now, files, aborted, faults>>

CompleteError(w) ==
  /\ pc[w] \in {"completing", "committing"}
  /\ Fault("db")
  /\ Goto(w, "cleanup")
  /\ UNCHANGED <<now, rowVars, resultVars, files, job, aborted>>

\* The COMMIT takes effect, the client sees a timeout or a broken connection.
CommitReplyLost(w) ==
  /\ pc[w] = "committing" /\ Matches(w)
  /\ Fault("commit")
  /\ WriteResult(job[w].gen, job[w].keys)
  /\ Goto(w, "cleanup")
  /\ UNCHANGED <<now, files, job, aborted>>

-----------------------------------------------------------------------------
(* process: undoing *)

\* deleteStoredMedia tries every key; the ones in "kept" could not be deleted.
DeleteStoredMedia(w, kept) ==
  /\ files' = files \ (job[w].keys \ kept)
  /\ IF kept = {} THEN UNCHANGED faults ELSE Fault("unlink")

\* Mutant: execute() returns without deleting what it stored.
DiscardNothing(w) ==
  /\ pc[w] = "discarding"
  /\ Finish(w)
  /\ UNCHANGED <<now, rowVars, resultVars, files, aborted, faults>>

\* After a lost claim the files are deleted and execute() returns, unless a
\* deletion fails: that exception goes to the catch clause as well.
Discard(w) ==
  /\ pc[w] = "discarding"
  /\ \E kept \in SUBSET job[w].keys :
       /\ DeleteStoredMedia(w, kept)
       /\ IF kept = {} THEN Finish(w) ELSE Goto(w, "cleanup") /\ UNCHANGED job
  /\ UNCHANGED <<now, rowVars, resultVars, aborted>>

\* The catch clause: the claim is failed only if the worker is not being
\* stopped and as far as it knows still holds it.
Cleanup(w) ==
  /\ pc[w] = "cleanup"
  /\ \E kept \in SUBSET job[w].keys : DeleteStoredMedia(w, kept)
  /\ IF aborted[w] \/ job[w].lost
     THEN Finish(w)
     ELSE Goto(w, "failing") /\ UNCHANGED job
  /\ UNCHANGED <<now, rowVars, resultVars, aborted>>

\* Mutant: the claim version is left out of the WHERE clause.
FailAnyClaim(w) ==
  /\ pc[w] \in {"failing", "rejecting"}
  /\ status' = [status EXCEPT ![job[w].gen] = IF @ = "processing" THEN "failed" ELSE @]
  /\ Finish(w)
  /\ UNCHANGED <<now, updatedAt, resultVars, files, aborted, faults>>

\* failClaim, of the catch clause or of claimNext for a malformed row.
FailClaim(w) ==
  /\ pc[w] \in {"failing", "rejecting"}
  /\ status' = [status EXCEPT ![job[w].gen] = IF Matches(w) THEN "failed" ELSE @]
  /\ Finish(w)
  /\ UNCHANGED <<now, updatedAt, resultVars, files, aborted, faults>>

FailError(w) ==
  /\ pc[w] \in {"failing", "rejecting"}
  /\ Fault("db")
  /\ Finish(w)
  /\ UNCHANGED <<now, rowVars, resultVars, files, aborted>>

-----------------------------------------------------------------------------

\* The worker's loop; the renewal timer runs beside it.
Process(w) ==
  \/ ClaimNext(w)
  \/ Generate(w) \/ GenerateError(w)
  \/ StoreGenerated(w) \/ StoreError(w) \/ StopLease(w)
  \/ FindClaim(w) \/ CompleteClaim(w)
  \/ Discard(w) \/ Cleanup(w) \/ FailClaim(w)

\* What is done to it.
Disturb(w) ==
  \/ Stop(w) \/ Crash(w)
  \/ ClaimReplyLost(w) \/ RenewError(w)
  \/ CompleteError(w) \/ CommitReplyLost(w) \/ FailError(w)

Next ==
  \/ Tick
  \/ \E g \in Generation : Submit(g)
  \/ \E w \in Worker : Start(w) \/ Process(w) \/ RenewClaim(w) \/ Disturb(w)

Spec == Init /\ [][Next]_vars

-----------------------------------------------------------------------------
(* Properties *)

\* The worker's claim on g is the current one and the worker relies on it.
Owns(w, g) == job[w].gen = g /\ ~job[w].lost /\ Matches(w)

\* Two workers never hold the current claim of one generation, however often
\* it was reclaimed from slow or dead workers: versions are clock readings,
\* and this is what makes them identify one claim (claimNext, renewClaim).
UniqueOwner ==
  \A g \in Generation : \A v, w \in Worker : Owns(v, g) /\ Owns(w, g) => v = w

\* At most one assistant message is ever written for a generation, exactly
\* when it is completed, and generation and chat run point to that message:
\* a worker that lost its claim between the SELECT and the conditional UPDATE
\* of completeClaim leaves nothing behind.
OneResult ==
  \A g \in Generation :
    /\ IF status[g] = "completed"
       THEN result[g] # {} /\ messages[g] = {result[g]}
       ELSE result[g] = {} /\ messages[g] = {}
    /\ chatResult[g] = IF g \in ChatTriggered THEN result[g] ELSE {}

\* Every media file a message links to can be read: no worker that undoes its
\* own attempt (Discard, Cleanup) deletes what a result refers to.
ResultsReadable == \A g \in Generation : result[g] \subseteq files

\* As long as no process dies and no deletion fails, a stored file belongs to
\* a message or to the attempt of a worker that will still attach or delete
\* it: no path through process() forgets a file.
NoOrphanedFiles ==
  Faults \cap {"crash", "unlink"} = {} => files \subseteq Linked \cup Held

\* The owner of a generation, for the abstract specification.
OwnerOf(g) ==
  IF \E w \in Worker : Owns(w, g) THEN CHOOSE w \in Worker : Owns(w, g) ELSE NoWorker

Queue == INSTANCE GenerationQueue WITH
  Message <- (SUBSET Key) \ {{}},
  NoMessage <- {},
  state <- status,
  owner <- [g \in Generation |-> OwnerOf(g)],
  outcome <- result

\* The workers implement the queue: only the current owner of a generation
\* settles it, a settled generation never changes again, and a worker that
\* answers late (after a reclaim) has no effect on the row.
ImplementsQueue == Queue!Spec
==============================================================================
