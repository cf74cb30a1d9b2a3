------------------------------ MODULE MediaBatch ------------------------------
(***************************************************************************)
(* One claimed generation at the provider: the worker asks AiService for   *)
(* the media and, at the same time, for a completion text; GeminiProvider  *)
(* makes images in batches of concurrent requests, or polls the operation  *)
(* of a video and downloads it, until its timeout or the worker's signal.  *)
(*                                                                         *)
(* GenerationWorker takes all of this for one step with an outcome.        *)
(***************************************************************************)
EXTENDS Integers

CONSTANTS
  MaxOutputs,    \* MAX_AI_GENERATION_OUTPUT_COUNT
  Concurrency,   \* IMAGE_GENERATION_CONCURRENCY
  PollInterval,  \* config.videoPollIntervalMs
  PollCeiling,   \* VIDEO_POLL_MAX_INTERVAL_MS
  MaxAttempts    \* bound of the model: polls that are told apart

ASSUME MediaBatchAssumptions ==
  /\ MaxOutputs \in Nat \ {0}
  /\ Concurrency \in Nat \ {0}
  /\ PollInterval \in Nat \ {0}
  /\ PollCeiling \in Nat \ {0}
  /\ MaxAttempts \in Nat

VARIABLES
  type,       \* type of the generation
  count,      \* config.outputCount
  supported,  \* the provider is registered for the type and takes the config
  phase,      \* where the provider's call is
  offset,     \* of the next batch of images
  requests,   \* what the provider made of each request for an output
  attempt,    \* pollAttempt
  wait,       \* the last delay before a poll
  directory,  \* the temporary directory of a download
  stopped,    \* why boundedSignal has aborted, if it has
  outcome,    \* how the provider's call ended
  outputs,    \* requests whose media it returned
  failure,    \* failureType of the error it threw
  text,       \* what became of the request for the completion text
  worker      \* what the worker makes of both

vars == <<type, count, supported, phase, offset, requests, attempt, wait, directory,
          stopped, outcome, outputs, failure, text, worker>>

configVars == <<type, count, supported>>
imageVars == <<offset>>
videoVars == <<attempt, wait, directory>>
resultVars == <<outcome, outputs, failure>>
workerVars == <<text, worker>>

Request == 1 .. MaxOutputs
FailureType == {"blocked", "invalid", "retryable", "unknown"}

\* Why there is no media: an error was thrown with a reason for it, or there
\* was an answer without usable media, whatever reason it gives.
Failed == FailureType \cup {"withheld"}

Longest == IF PollInterval > PollCeiling THEN PollInterval ELSE PollCeiling

TypeOK ==
  /\ type \in {"image", "video"}
  /\ count \in Request
  /\ supported \in BOOLEAN
  /\ phase \in {"start", "batch", "create", "wait", "sleep", "poll", "download",
                "remove", "over"}
  /\ offset \in Nat
  /\ requests \in [Request -> {"none", "sent", "media"} \cup Failed]
  /\ attempt \in 0 .. MaxAttempts
  /\ directory \in {"none", "made", "stuck"}
  /\ stopped \in {"no", "timeout", "shutdown"}
  /\ outcome \in {"none", "outputs", "failed"}
  /\ outputs \subseteq Request
  /\ failure \in {"none"} \cup FailureType
  /\ text \in {"asked", "told", "missing"}
  /\ worker \in {"waiting", "store", "failed"}

Init ==
  /\ type \in {"image", "video"}
  /\ count \in Request
  /\ supported \in BOOLEAN
  /\ phase = "start"
  /\ offset = 0
  /\ requests = [r \in Request |-> "none"]
  /\ attempt = 0 /\ wait = 0 /\ directory = "none"
  /\ stopped = "no"
  /\ outcome = "none" /\ outputs = {} /\ failure = "none"
  /\ text = "asked" /\ worker = "waiting"

-------------------------------------------------------------------------------
(* Errors of the provider *)

\* What an error says: the class of its first textual code, and its first number.
ProviderError ==
  [code : {"none", "blocked", "invalid", "retryable"}, status : {0, 400, 404, 429, 503}]

\* classifySingleProviderError; a status of 0 stands for none.
Classified(error) ==
  IF error.code = "blocked" THEN "blocked"
  ELSE IF error.code = "invalid" \/ error.status \in {400, 412, 416, 422} THEN "invalid"
  ELSE IF error.code = "retryable" \/ error.status = 429 \/ error.status >= 500 THEN "retryable"
  ELSE "unknown"

\* A request that the provider rejects, or that is aborted or times out.
Rejection == {Classified(error) : error \in ProviderError}

\* The type of a failure.  An answer is not asked for its reason: whether an
\* operation failed, or media is missing or not what it should be, the error
\* thrown has neither code nor status.
Reported(result) == IF result = "withheld" THEN "unknown" ELSE result

\* Defective: what may be retried comes first.
GravestRetried(failures) ==
  IF "retryable" \in failures THEN "retryable"
  ELSE IF "blocked" \in failures THEN "blocked"
  ELSE IF "invalid" \in failures THEN "invalid"
  ELSE "unknown"
\* classifyProviderError, for an AggregateError.
Gravest(failures) ==
  IF "blocked" \in failures THEN "blocked"
  ELSE IF "invalid" \in failures THEN "invalid"
  ELSE IF "retryable" \in failures THEN "retryable"
  ELSE "unknown"

-------------------------------------------------------------------------------
(* runMediaGeneration *)

Return(made) ==
  /\ phase' = "over"
  /\ outcome' = "outputs" /\ outputs' = made
  /\ UNCHANGED failure

Throw(kind) ==
  /\ phase' = "over"
  /\ outcome' = "failed" /\ failure' = kind
  /\ UNCHANGED outputs

\* AbortSignal.any: the provider's own timeout, or the worker's signal.
Stop(why) ==
  /\ stopped = "no"
  /\ stopped' = why
  /\ UNCHANGED <<configVars, phase, imageVars, requests, videoVars, resultVars, workerVars>>

\* No provider is registered for the type, or it does not take the config.
Unsupported == ~supported \/ (type = "video" /\ count # 1)

\* AiService.generate and the checks of the config.
Begin ==
  /\ phase = "start"
  /\ IF Unsupported
     THEN Throw("unknown") /\ UNCHANGED requests
     ELSE /\ phase' = (IF type = "image" THEN "batch" ELSE "create")
          /\ requests' = IF type = "image" THEN requests ELSE [requests EXCEPT ![1] = "sent"]
          /\ UNCHANGED resultVars
  /\ UNCHANGED <<configVars, imageVars, videoVars, stopped, workerVars>>

-------------------------------------------------------------------------------
(* generateImage *)

InFlight == {r \in Request : requests[r] = "sent"}
Made == {r \in Request : requests[r] = "media"}

Batch == {r \in Request : offset < r /\ r <= offset + Concurrency /\ r <= count}

\* Defective: the first rejection ends the batch.
SettledByFirst == InFlight = {} \/ \E r \in Request : requests[r] \in Failed
\* Promise.allSettled.
Settled == InFlight = {}

\* Defective: the signal is not looked at between batches.
MayGoOnBlindly == TRUE
\* signal.throwIfAborted.
MayGoOn == stopped = "no"

SendBatch ==
  /\ phase = "batch" /\ Settled
  /\ offset < count
  /\ IF MayGoOn
     THEN /\ requests' = [r \in Request |-> IF r \in Batch THEN "sent" ELSE requests[r]]
          /\ offset' = offset + Concurrency
          /\ UNCHANGED <<phase, resultVars>>
     ELSE Throw("unknown") /\ UNCHANGED <<requests, offset>>
  /\ UNCHANGED <<configVars, videoVars, stopped, workerVars>>

\* generateSingleImage: media, an answer without usable media, or an error; a
\* request that is aborted or takes longer than requestTimeoutMs rejects.
Settle ==
  /\ phase = "batch"
  /\ \E r \in InFlight, result \in {"media", "withheld"} \cup Rejection :
       requests' = [requests EXCEPT ![r] = result]
  /\ UNCHANGED <<configVars, phase, imageVars, videoVars, stopped, resultVars, workerVars>>

\* Defective: one failure spoils them all.
EnoughIfAll == Made # {} /\ \A r \in Request : requests[r] \notin Failed
Enough == Made # {}

\* AggregateError.errors, each with its type.
Failures == {Reported(requests[r]) : r \in {x \in Request : requests[x] \in Failed}}

Collect ==
  /\ phase = "batch" /\ Settled
  /\ offset >= count
  /\ IF Enough THEN Return(Made)
     ELSE Throw(Gravest(Failures))
  /\ UNCHANGED <<configVars, imageVars, requests, videoVars, stopped, workerVars>>

-------------------------------------------------------------------------------
(* generateVideo *)

Rounded(x, y) == (2 * x + y) \div (2 * y)

Power(base, n) ==
  LET power[k \in 0 .. n] == IF k = 0 THEN 1 ELSE base * power[k - 1] IN power[n]

\* calculateVideoPollDelay before poll n, with the jitter in percent:
\* PollInterval * 1.5^n, at most Longest before and after it is jittered.
PollDelay(n, jitter) ==
  LET grown == PollInterval * Power(3, n)
      most == Longest * Power(2, n)
      delay == Rounded((IF grown > most THEN most ELSE grown) * (100 + jitter),
                       100 * Power(2, n))
  IN IF delay > Longest THEN Longest ELSE IF delay < 1 THEN 1 ELSE delay

\* The bound of the model lies behind the ceiling: no delay differs after it.
ASSUME CeilingReached ==
  Longest * Power(2, MaxAttempts) <= PollInterval * Power(3, MaxAttempts)

\* The request for the operation, or for its state: the operation is still
\* running, or done without an error; or it is done with operation.error, or
\* the request was rejected.
Operation(phases) ==
  /\ phase \in phases
  /\ \/ phase' \in {"wait", "download"} /\ UNCHANGED <<requests, resultVars>>
     \/ \E result \in {"withheld"} \cup Rejection :
          requests' = [requests EXCEPT ![1] = result] /\ Throw(Reported(result))

Create ==
  /\ Operation({"create"})
  /\ UNCHANGED <<configVars, imageVars, videoVars, stopped, workerVars>>

Sleep ==
  /\ phase = "wait"
  /\ \E jitter \in -10 .. 9 : wait' = PollDelay(attempt, jitter)
  /\ phase' = "sleep"
  /\ UNCHANGED <<configVars, imageVars, requests, attempt, directory, stopped, resultVars,
                 workerVars>>

\* Defective: neither the delay nor what follows it looks at the signal.
AwakeBlindly == phase' = "poll" /\ UNCHANGED <<requests, resultVars>>
\* The delay rejects when the signal aborts, and throwIfAborted follows it.
Awake ==
  IF stopped = "no" THEN phase' = "poll" /\ UNCHANGED <<requests, resultVars>>
  ELSE requests' = [requests EXCEPT ![1] = "unknown"] /\ Throw("unknown")

Wake ==
  /\ phase = "sleep"
  /\ Awake
  /\ UNCHANGED <<configVars, imageVars, videoVars, stopped, workerVars>>

\* Defective: the polls are not counted.
SameAttempt == attempt
NextAttempt == IF attempt < MaxAttempts THEN attempt + 1 ELSE attempt

\* getVideosOperation, which the signal does not reach.
Polled ==
  /\ Operation({"poll"})
  /\ attempt' = NextAttempt
  /\ UNCHANGED <<configVars, imageVars, wait, directory, stopped, workerVars>>

\* downloadVideo: no video in the answer, or no directory to be had, ...
NoDownload ==
  /\ phase = "download" /\ directory = "none"
  /\ \E result \in {"withheld", "unknown"} : requests' = [requests EXCEPT ![1] = result]
  /\ Throw("unknown")
  /\ UNCHANGED <<configVars, imageVars, videoVars, stopped, workerVars>>

MakeDirectory ==
  /\ phase = "download" /\ directory = "none"
  /\ directory' = "made"
  /\ UNCHANGED <<configVars, phase, imageVars, requests, attempt, wait, stopped, resultVars,
                 workerVars>>

\* ... download, readFile and the check of the bytes, ...
Download ==
  /\ phase = "download" /\ directory = "made"
  /\ \E result \in {"media", "withheld"} \cup Rejection : requests' = [requests EXCEPT ![1] = result]
  /\ phase' = "remove"
  /\ UNCHANGED <<configVars, imageVars, videoVars, stopped, resultVars, workerVars>>

\* Defective: only a download that succeeded is cleaned up.
RemovedIfMade == directory' = IF Made # {} THEN "none" ELSE directory
Removed == directory' = "none"

\* ... and in any case rm, whose own error takes the place of what it ends.
Remove ==
  /\ phase = "remove"
  /\ \/ Removed /\ (IF Enough THEN Return(Made) ELSE Throw(Reported(requests[1])))
     \/ directory' = "stuck" /\ Throw("unknown")
  /\ UNCHANGED <<configVars, imageVars, requests, attempt, wait, stopped, workerVars>>

-------------------------------------------------------------------------------
(* The worker *)

\* generateText and normalizeCompletionText; any error leaves no text.
Tell ==
  /\ text = "asked"
  /\ text' \in {"told", "missing"}
  /\ UNCHANGED <<configVars, phase, imageVars, requests, videoVars, stopped, resultVars, worker>>

\* Promise.all: the first rejection, or both results and their number.
Join ==
  /\ worker = "waiting"
  /\ \/ outcome = "failed" /\ worker' = "failed"
     \/ /\ outcome = "outputs" /\ text # "asked"
        /\ worker' = IF outputs # {} THEN "store" ELSE "failed"
  /\ UNCHANGED <<configVars, phase, imageVars, requests, videoVars, stopped, resultVars, text>>

Provider ==
  \/ Begin
  \/ SendBatch \/ Settle \/ Collect
  \/ Create \/ Sleep \/ Wake \/ Polled
  \/ NoDownload \/ MakeDirectory \/ Download \/ Remove

Next ==
  \/ Provider
  \/ Stop("timeout") \/ Stop("shutdown")
  \/ Tell \/ Join

\* Each request has a timeout, and so has the whole.
Fairness ==
  /\ WF_vars(Provider)
  /\ WF_vars(Stop("timeout"))
  /\ WF_vars(Tell) /\ WF_vars(Join)

Spec == Init /\ [][Next]_vars /\ Fairness

-------------------------------------------------------------------------------
(* Properties *)

(***************************************************************************)
(* Images that were made are not lost to the failures beside them: what is *)
(* returned is all of them, and an error means that there was none, unless *)
(* the signal has aborted or the directory of the video would not go.      *)
(***************************************************************************)
KeepsSuccesses ==
  /\ outcome = "outputs" => outputs = Made /\ outputs # {}
  /\ outcome = "failed" /\ stopped = "no" /\ directory # "stuck" => Made = {}

(***************************************************************************)
(* When the worker goes on, to store the media, to fail the claim or to    *)
(* shut down, no request for media is left running behind it and no        *)
(* temporary directory that could have been removed.                       *)
(***************************************************************************)
NothingLeftBehind == outcome # "none" => InFlight = {} /\ directory # "made"

(***************************************************************************)
(* The type of a failure is one that a request was rejected with, and that *)
(* is not worth a retry goes before what is, in whatever order and batch   *)
(* the requests fail; unless the signal or the directory ended the call.   *)
(* It says nothing of a reason that came in an answer: that is dropped.    *)
(***************************************************************************)
FailureExplained ==
  outcome = "failed" =>
    /\ failure # "unknown" => \E r \in Request : requests[r] = failure
    /\ stopped = "no" /\ directory # "stuck" =>
         /\ (\E r \in Request : requests[r] = "blocked") => failure = "blocked"
         /\ (\E r \in Request : requests[r] = "invalid") => failure \in {"blocked", "invalid"}
         /\ (\E r \in Request : requests[r] = "retryable") => failure # "unknown"

\* Polls grow rarer, up to the ceiling: no delay exceeds it, and one is shorter
\* than the one before it only where the jitter is all that is left: a tenth of
\* the ceiling, but for the rounding to a whole number.
PollsBackOff ==
  [][wait' # wait =>
       /\ wait' \in 1 .. Longest
       /\ wait' < wait => 10 * wait' + 5 > 9 * Longest]_vars

\* Once the signal has aborted no batch and no poll is started.
Started == [requests |-> {r \in Request : requests[r] # "none"}, polling |-> phase = "poll"]
StopsAsking ==
  [][stopped # "no" /\ phase \notin {"start", "over"} =>
       Started'.requests = Started.requests /\ (Started'.polling => Started.polling)]_vars

\* The worker gets an answer, even of a video that is never done.
AlwaysAnswered == <>(worker # "waiting")
===============================================================================
