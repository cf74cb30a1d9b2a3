--------------------------- MODULE MediaBatchProofs ---------------------------
(***************************************************************************)
(* Theorems about MediaBatch, for any number of outputs, any concurrency   *)
(* and any poll interval.                                                  *)
(*                                                                         *)
(* The three invariants speak of the end of the call; the strengthening    *)
(* says which requests may be under way in which phase, what the temporary *)
(* directory has to do with it, and what was promised at the end.  The     *)
(* last part is about the delays between polls, which grow with a power.   *)
(***************************************************************************)
EXTENDS MediaBatch, NaturalsInduction, WellFoundedInduction, TLAPS

\* The types of what the invariants are about.
Types ==
  /\ type \in {"image", "video"}
  /\ requests \in [Request -> {"none", "sent", "media"} \cup Failed]
  /\ directory \in {"none", "made", "stuck"}
  /\ stopped \in {"no", "timeout", "shutdown"}
  /\ failure \in {"none"} \cup FailureType

\* The call has an outcome exactly when it is over.
OverWithOutcome == (phase = "over") <=> (outcome # "none")

\* A call that has not begun has sent nothing.
NothingBefore == phase = "start" => \A r \in Request : requests[r] = "none"

\* A batch is one of images, and has no directory.
ImagesOnly == phase = "batch" => directory = "none"

\* All there is of a video is its first request.
OneVideo ==
  phase \notin {"start", "batch", "over"} =>
    /\ \A r \in Request \ {1} : requests[r] = "none"
    /\ phase # "remove" => requests[1] = "sent"
    /\ phase = "remove" => requests[1] \in {"media"} \cup Failed

\* The directory is there while it is downloaded to, until it is removed.
DirectoryInUse ==
  /\ directory = "made" => phase \in {"download", "remove"}
  /\ directory = "stuck" => phase = "over"

MInv ==
  /\ Types /\ OverWithOutcome /\ NothingBefore /\ ImagesOnly /\ OneVideo /\ DirectoryInUse
  /\ KeepsSuccesses /\ NothingLeftBehind /\ FailureExplained

-------------------------------------------------------------------------------

\* The first request is one.
LEMMA FirstRequest == 1 \in Request
BY MediaBatchAssumptions DEF Request

\* Every error is of a known type.
LEMMA RejectionTyped == Rejection \subseteq FailureType /\ FailureType \subseteq Failed
BY DEF Rejection, Classified, FailureType, Failed

\* What is reported of a failure is its reason, or nothing.
LEMMA ReportedType ==
  ASSUME NEW result \in Failed
  PROVE  Reported(result) \in FailureType /\ Reported(result) \in {result, "unknown"}
BY DEF Failed, Reported, FailureType

\* The gravest of some failures is one of them, if it has a reason, and is
\* not worth a retry if any of them is not.
LEMMA GravestReported ==
  ASSUME NEW failures
  PROVE  /\ Gravest(failures) \in FailureType
         /\ Gravest(failures) # "unknown" => Gravest(failures) \in failures
         /\ "blocked" \in failures => Gravest(failures) = "blocked"
         /\ "invalid" \in failures => Gravest(failures) \in {"blocked", "invalid"}
         /\ "retryable" \in failures => Gravest(failures) # "unknown"
BY DEF Gravest, FailureType

LEMMA MediaInit == Init => MInv
BY DEF Init, MInv, Types, OverWithOutcome, NothingBefore, ImagesOnly, OneVideo,
   DirectoryInUse, KeepsSuccesses, NothingLeftBehind, FailureExplained, InFlight, Made

\* A step of the provider that is not the last one.
LEMMA BeginKeeps == MInv /\ Begin => MInv'
<1> SUFFICES ASSUME MInv, Begin PROVE MInv'
  OBVIOUS
<1> USE DEF MInv, Begin, configVars, imageVars, videoVars, workerVars, resultVars
<1>1. 1 \in Request
  BY FirstRequest
<1>2. Types'
  BY <1>1 DEF Types, Throw, FailureType
<1>3. (OverWithOutcome /\ NothingBefore /\ ImagesOnly /\ DirectoryInUse)'
  BY DEF Types, Throw, OverWithOutcome, NothingBefore, ImagesOnly, DirectoryInUse
<1>4. OneVideo'
  BY <1>1 DEF Types, Throw, NothingBefore, OneVideo
<1>5. (KeepsSuccesses /\ NothingLeftBehind /\ FailureExplained)'
  BY DEF Throw, OverWithOutcome, NothingBefore, DirectoryInUse, KeepsSuccesses,
     NothingLeftBehind, FailureExplained, InFlight, Made
<1> QED
  BY <1>2, <1>3, <1>4, <1>5

LEMMA SendBatchKeeps == MInv /\ SendBatch => MInv'
<1> SUFFICES ASSUME MInv, SendBatch PROVE MInv'
  OBVIOUS
<1> USE DEF MInv, SendBatch, configVars, videoVars, workerVars, resultVars, Settled
<1>1. Types'
  BY DEF Types, Throw, FailureType
<1>2. (OverWithOutcome /\ NothingBefore /\ ImagesOnly /\ OneVideo /\ DirectoryInUse)'
  BY DEF Throw, OverWithOutcome, NothingBefore, ImagesOnly, OneVideo, DirectoryInUse
<1>3. (KeepsSuccesses /\ NothingLeftBehind /\ FailureExplained)'
  BY DEF Throw, MayGoOn, OverWithOutcome, DirectoryInUse, KeepsSuccesses, NothingLeftBehind,
     FailureExplained, InFlight
<1> QED
  BY <1>1, <1>2, <1>3

LEMMA SettleKeeps == MInv /\ Settle => MInv'
<1> SUFFICES ASSUME MInv, Settle PROVE MInv'
  OBVIOUS
<1> USE DEF MInv, Settle, configVars, imageVars, videoVars, workerVars, resultVars
<1>1. Types'
  BY RejectionTyped DEF Types, InFlight, Failed
<1>2. (OverWithOutcome /\ NothingBefore /\ ImagesOnly /\ OneVideo /\ DirectoryInUse)'
  BY DEF OverWithOutcome, NothingBefore, ImagesOnly, OneVideo, DirectoryInUse
<1>3. (KeepsSuccesses /\ NothingLeftBehind /\ FailureExplained)'
  BY DEF OverWithOutcome, KeepsSuccesses, NothingLeftBehind, FailureExplained
<1> QED
  BY <1>1, <1>2, <1>3

LEMMA CollectKeeps == MInv /\ Collect => MInv'
<1> SUFFICES ASSUME MInv, Collect PROVE MInv'
  OBVIOUS
<1> USE DEF MInv, Collect, configVars, imageVars, videoVars, workerVars, Settled
<1>1. /\ Gravest(Failures) \in FailureType
      /\ Gravest(Failures) # "unknown" => Gravest(Failures) \in Failures
      /\ "blocked" \in Failures => Gravest(Failures) = "blocked"
      /\ "invalid" \in Failures => Gravest(Failures) \in {"blocked", "invalid"}
      /\ "retryable" \in Failures => Gravest(Failures) # "unknown"
  BY GravestReported
<1>2. Types'
  BY <1>1 DEF Types, Throw, Return
<1>3. (OverWithOutcome /\ NothingBefore /\ ImagesOnly /\ OneVideo /\ DirectoryInUse)'
  BY DEF Throw, Return, OverWithOutcome, NothingBefore, ImagesOnly, OneVideo, DirectoryInUse
<1>4. (KeepsSuccesses /\ NothingLeftBehind)'
  BY DEF Throw, Return, ImagesOnly, Enough, KeepsSuccesses, NothingLeftBehind, InFlight, Made
<1>5. FailureExplained'
  <2>1. CASE Enough
    BY <2>1 DEF Return, FailureExplained
  <2>2. CASE ~Enough
    <3>1. \A r \in Request : requests[r] \in FailureType => requests[r] \in Failures
      BY DEF Failures, Failed, FailureType, Reported
    <3>2. \A kind \in Failures : kind # "unknown" => \E r \in Request : requests[r] = kind
      BY ReportedType DEF Failures
    <3>3. failure' = Gravest(Failures) /\ requests' = requests
      BY <2>2 DEF Throw
    <3> QED
      BY <1>1, <3>1, <3>2, <3>3 DEF FailureExplained, FailureType
  <2> QED
    BY <2>1, <2>2
<1> QED
  BY <1>2, <1>3, <1>4, <1>5

\* The operation of a video is asked for once more, or has failed.
LEMMA OperationKeeps ==
  ASSUME MInv, NEW phases \in SUBSET {"create", "poll"}, Operation(phases),
         UNCHANGED <<type, directory, stopped>>
  PROVE  MInv'
<1> USE DEF MInv, Operation, resultVars
<1>1. phase \in {"create", "poll"} /\ requests[1] = "sent"
      /\ (\A r \in Request \ {1} : requests[r] = "none") /\ 1 \in Request
  BY FirstRequest DEF OneVideo
<1>2. CASE phase' \in {"wait", "download"} /\ UNCHANGED <<requests, outcome, outputs, failure>>
  BY <1>1, <1>2 DEF Types, OverWithOutcome, NothingBefore, ImagesOnly, OneVideo, DirectoryInUse,
     KeepsSuccesses, NothingLeftBehind, FailureExplained
<1>3. CASE \E result \in {"withheld"} \cup Rejection :
             requests' = [requests EXCEPT ![1] = result] /\ Throw(Reported(result))
  <2>1. PICK result \in Failed :
          requests' = [requests EXCEPT ![1] = result] /\ Throw(Reported(result))
    BY <1>3, RejectionTyped DEF Failed
  <2>a. /\ Reported(result) \in FailureType /\ Reported(result) \in {result, "unknown"}
        /\ result # "withheld" => Reported(result) = result
    BY ReportedType DEF Reported
  <2>2. requests'[1] = result /\ \A r \in Request \ {1} : requests'[r] = "none"
    BY <1>1, <2>1 DEF Types
  <2>3. Types' /\ OverWithOutcome' /\ NothingBefore' /\ ImagesOnly' /\ OneVideo'
        /\ DirectoryInUse'
    BY <1>1, <2>1, <2>a DEF Throw, Types, OverWithOutcome, NothingBefore, ImagesOnly, OneVideo,
       DirectoryInUse
  <2>4. KeepsSuccesses' /\ NothingLeftBehind'
    BY <1>1, <2>1, <2>2 DEF Throw, Failed, FailureType, DirectoryInUse, KeepsSuccesses,
       NothingLeftBehind, InFlight, Made
  <2>5. FailureExplained'
    BY <1>1, <2>1, <2>2, <2>a DEF Throw, FailureExplained
  <2> QED
    BY <2>3, <2>4, <2>5
<1> QED
  BY <1>2, <1>3

LEMMA WaitKeeps == MInv /\ (Sleep \/ Wake \/ NoDownload) => MInv'
<1> SUFFICES ASSUME MInv, Sleep \/ Wake \/ NoDownload PROVE MInv'
  OBVIOUS
<1> USE DEF MInv, configVars, imageVars, videoVars, workerVars, resultVars
<1>1. phase \in {"wait", "sleep", "download"} /\ 1 \in Request
  BY FirstRequest DEF Sleep, Wake, NoDownload
<1>2. CASE Sleep
  BY <1>1, <1>2 DEF Sleep, Types, OverWithOutcome, NothingBefore, ImagesOnly, OneVideo,
     DirectoryInUse, KeepsSuccesses, NothingLeftBehind, FailureExplained
<1>3. CASE Wake /\ phase' = "poll" /\ UNCHANGED <<requests, resultVars>>
  BY <1>1, <1>3 DEF Wake, Types, OverWithOutcome, NothingBefore, ImagesOnly, OneVideo,
     DirectoryInUse, KeepsSuccesses, NothingLeftBehind, FailureExplained
<1>4. ASSUME NEW result \in {"withheld", "unknown"},
             requests' = [requests EXCEPT ![1] = result], Throw("unknown"),
             UNCHANGED <<type, directory, stopped>>, directory = "none"
      PROVE  MInv'
  <2>1. requests'[1] = result /\ \A r \in Request \ {1} : requests'[r] = "none"
    BY <1>1, <1>4 DEF Types, OneVideo
  <2>2. Types' /\ OverWithOutcome' /\ NothingBefore' /\ ImagesOnly' /\ OneVideo'
        /\ DirectoryInUse'
    BY <1>1, <1>4 DEF Throw, Types, FailureType, Failed, OverWithOutcome, NothingBefore, ImagesOnly,
       OneVideo, DirectoryInUse
  <2>3. KeepsSuccesses' /\ NothingLeftBehind' /\ FailureExplained'
    BY <1>1, <1>4, <2>1 DEF Throw, KeepsSuccesses, NothingLeftBehind, FailureExplained,
       InFlight, Made
  <2> QED
    BY <2>2, <2>3
<1>5. Wake => directory = "none"
  BY DEF Wake, DirectoryInUse, Types
<1> QED
  BY <1>2, <1>3, <1>4, <1>5 DEF Sleep, Wake, Awake, NoDownload

LEMMA DownloadKeeps == MInv /\ (MakeDirectory \/ Download) => MInv'
<1> SUFFICES ASSUME MInv, MakeDirectory \/ Download PROVE MInv'
  OBVIOUS
<1> USE DEF MInv, configVars, imageVars, videoVars, workerVars, resultVars
<1>1. phase = "download" /\ 1 \in Request
  BY FirstRequest DEF MakeDirectory, Download
<1>2. CASE MakeDirectory
  BY <1>1, <1>2 DEF MakeDirectory, Types, OverWithOutcome, NothingBefore, ImagesOnly, OneVideo,
     DirectoryInUse, KeepsSuccesses, NothingLeftBehind, FailureExplained
<1>3. CASE Download
  BY <1>1, <1>3, RejectionTyped DEF Download, Types, Failed, OverWithOutcome, NothingBefore,
     ImagesOnly, OneVideo, DirectoryInUse, KeepsSuccesses, NothingLeftBehind, FailureExplained
<1> QED
  BY <1>2, <1>3

LEMMA RemoveKeeps == MInv /\ Remove => MInv'
<1> SUFFICES ASSUME MInv, Remove PROVE MInv'
  OBVIOUS
<1> USE DEF MInv, Remove, configVars, imageVars, workerVars
<1>1. phase = "remove" /\ 1 \in Request /\ requests' = requests
      /\ requests[1] \in {"media"} \cup Failed
      /\ \A r \in Request \ {1} : requests[r] = "none"
  BY FirstRequest DEF OneVideo
<1>2. InFlight' = {}
  BY <1>1 DEF InFlight, Failed, FailureType
<1>3. CASE Removed /\ Enough /\ Return(Made)
  BY <1>1, <1>2, <1>3 DEF Removed, Enough, Return, Types, OverWithOutcome, NothingBefore,
     ImagesOnly, OneVideo, DirectoryInUse, KeepsSuccesses, NothingLeftBehind,
     FailureExplained, Made
<1>4. CASE Removed /\ ~Enough /\ Throw(Reported(requests[1]))
  <2>1. requests[1] \in Failed
    BY <1>1, <1>4 DEF Enough, Made
  <2>a. /\ Reported(requests[1]) \in FailureType
        /\ Reported(requests[1]) \in {requests[1], "unknown"}
        /\ requests[1] # "withheld" => Reported(requests[1]) = requests[1]
    BY <2>1, ReportedType DEF Reported
  <2>2. Types' /\ OverWithOutcome' /\ NothingBefore' /\ ImagesOnly' /\ OneVideo'
        /\ DirectoryInUse'
    BY <1>1, <1>4, <2>1, <2>a DEF Removed, Throw, Types, OverWithOutcome, NothingBefore, ImagesOnly,
       OneVideo, DirectoryInUse
  <2>3. KeepsSuccesses' /\ NothingLeftBehind'
    BY <1>1, <1>2, <1>4 DEF Removed, Throw, Enough, KeepsSuccesses, NothingLeftBehind, Made
  <2>4. FailureExplained'
    BY <1>1, <1>4, <2>a DEF Throw, FailureExplained
  <2> QED
    BY <2>2, <2>3, <2>4
<1>5. CASE directory' = "stuck" /\ Throw("unknown")
  BY <1>1, <1>2, <1>5 DEF Throw, Types, FailureType, OverWithOutcome, NothingBefore, ImagesOnly,
     OneVideo, DirectoryInUse, KeepsSuccesses, NothingLeftBehind, FailureExplained
<1> QED
  BY <1>3, <1>4, <1>5

\* Neither the signal, nor the text, nor the worker touches what was made.
LEMMA AroundKeeps ==
  MInv /\ ((\E why \in {"timeout", "shutdown"} : Stop(why)) \/ Tell \/ Join \/ UNCHANGED vars)
    => MInv'
BY DEF MInv, Stop, Tell, Join, vars, configVars, imageVars, videoVars, workerVars, resultVars,
   Types, OverWithOutcome, NothingBefore, ImagesOnly, OneVideo, DirectoryInUse, KeepsSuccesses,
   NothingLeftBehind, FailureExplained, InFlight, Made

LEMMA MediaStep == MInv /\ [Next]_vars => MInv'
<1> SUFFICES ASSUME MInv, [Next]_vars PROVE MInv'
  OBVIOUS
<1>1. CASE Create
  BY <1>1, OperationKeeps DEF Create, configVars, videoVars
<1>2. CASE Polled
  BY <1>2, OperationKeeps DEF Polled, configVars
<1> QED
  BY <1>1, <1>2, BeginKeeps, SendBatchKeeps, SettleKeeps, CollectKeeps, WaitKeeps,
     DownloadKeeps, RemoveKeeps, AroundKeeps DEF Next, Provider

LEMMA MediaInvariant == Spec => []MInv
BY MediaInit, MediaStep, PTL DEF Spec

(***************************************************************************)
(* Every variable keeps its type: outputs are requests, every error has a  *)
(* failure type, and so on.  The delay between polls is left to TLC.       *)
(***************************************************************************)
THEOREM MediaBatchTypeCorrect == Spec => []TypeOK
<1>1. Init => TypeOK
  BY MediaBatchAssumptions DEF Init, TypeOK
<1>2. MInv /\ TypeOK /\ [Next]_vars => TypeOK'
  <2> SUFFICES ASSUME MInv, TypeOK, [Next]_vars PROVE TypeOK'
    OBVIOUS
  <2> USE MediaBatchAssumptions, FirstRequest
      DEF TypeOK, configVars, imageVars, videoVars, resultVars, workerVars
  <2>1. CASE Begin
    BY <2>1 DEF Begin, Throw, FailureType
  <2>2. CASE SendBatch
    BY <2>2 DEF SendBatch, Throw, FailureType
  <2>3. CASE Settle
    BY <2>3, RejectionTyped DEF Settle, InFlight, Failed
  <2>4. CASE Collect
    BY <2>4, GravestReported DEF Collect, Return, Throw, Made
  <2>5. CASE Create
    BY <2>5, RejectionTyped, ReportedType DEF Create, Operation, Throw, Failed
  <2>6. CASE Sleep \/ Wake
    BY <2>6 DEF Sleep, Wake, Awake, Throw, Failed, FailureType
  <2>7. CASE Polled
    BY <2>7, RejectionTyped, ReportedType DEF Polled, NextAttempt, Operation, Throw, Failed
  <2>8. CASE NoDownload \/ MakeDirectory \/ Download
    BY <2>8, RejectionTyped DEF NoDownload, MakeDirectory, Download, Throw, Failed, FailureType
  <2>9. CASE Remove
    <3>1. ~Enough => Reported(requests[1]) \in FailureType
      BY <2>9, ReportedType DEF Remove, MInv, OneVideo, Enough, Made
    <3> QED
      BY <2>9, <3>1 DEF Remove, Removed, Return, Throw, Made, FailureType
  <2>10. CASE (\E why \in {"timeout", "shutdown"} : Stop(why)) \/ Tell \/ Join \/ UNCHANGED vars
    BY <2>10 DEF Stop, Tell, Join, vars
  <2> QED
    BY <2>1, <2>2, <2>3, <2>4, <2>5, <2>6, <2>7, <2>8, <2>9, <2>10 DEF Next, Provider
<1> QED
  BY <1>1, <1>2, MediaInvariant, PTL DEF Spec

(***************************************************************************)
(* For any number of outputs and any concurrency: what generateImage and   *)
(* generateVideo return is all that was made, and they throw with media in *)
(* hand only if the signal aborted or the directory could not be removed.  *)
(***************************************************************************)
THEOREM SuccessesKept == Spec => []KeepsSuccesses
<1>1. MInv => KeepsSuccesses
  BY DEF MInv
<1> QED
  BY <1>1, MediaInvariant, PTL

\* No request is under way and no directory in use once the call has ended.
THEOREM CallsEndClean == Spec => []NothingLeftBehind
<1>1. MInv => NothingLeftBehind
  BY DEF MInv
<1> QED
  BY <1>1, MediaInvariant, PTL

(***************************************************************************)
(* For any number of requests and batches: the reported type of a failure  *)
(* is that of a rejected request, the one least worth a retry; reasons     *)
(* that came in an answer are not reported at all.                         *)
(***************************************************************************)
THEOREM FailuresExplained == Spec => []FailureExplained
<1>1. MInv => FailureExplained
  BY DEF MInv
<1> QED
  BY <1>1, MediaInvariant, PTL

\* The same requests have been started, and no poll begins.
NothingNew ==
  /\ \A r \in Request : requests'[r] # "none" <=> requests[r] # "none"
  /\ phase' = "poll" => phase = "poll"

\* After the signal aborted, a step of the provider starts nothing.
LEMMA NothingStarted ==
  ASSUME MInv, Provider, stopped # "no", phase \notin {"start", "over"}
  PROVE  NothingNew
<1> USE DEF NothingNew, configVars, imageVars, videoVars, resultVars, workerVars
<1>f. requests \in [Request -> {"none", "sent", "media"} \cup Failed] /\ 1 \in Request
  BY FirstRequest DEF MInv, Types
<1>v. phase \notin {"batch", "start", "over"} => requests[1] # "none"
  BY DEF MInv, OneVideo, Failed, FailureType
<1>1. CASE SendBatch
  BY <1>1 DEF SendBatch, MayGoOn, Throw
<1>2. CASE Settle
  <2> PICK r \in InFlight, result \in {"media", "withheld"} \cup Rejection :
        requests' = [requests EXCEPT ![r] = result]
    BY <1>2 DEF Settle
  <2>1. requests[r] # "none" /\ result # "none" /\ r \in Request
    BY RejectionTyped DEF InFlight, FailureType
  <2> QED
    BY <1>2, <1>f, <2>1 DEF Settle
<1>3. CASE Collect
  BY <1>3 DEF Collect, Return, Throw
<1>4. CASE Create \/ Polled
  <2>1. phase \in {"create", "poll"}
    BY <1>4 DEF Create, Polled, Operation
  <2>2. CASE phase' \in {"wait", "download"} /\ UNCHANGED requests
    BY <2>2
  <2>3. CASE \E result \in {"withheld"} \cup Rejection :
               requests' = [requests EXCEPT ![1] = result] /\ Throw(Reported(result))
    <3> PICK result \in Failed : requests' = [requests EXCEPT ![1] = result] /\ phase' = "over"
      BY <2>3, RejectionTyped DEF Throw, Failed
    <3> QED
      BY <1>f, <1>v, <2>1 DEF Failed, FailureType
  <2> QED
    BY <1>4, <2>2, <2>3 DEF Create, Polled, Operation
<1>5. CASE Sleep \/ MakeDirectory
  BY <1>5 DEF Sleep, MakeDirectory
<1>6. CASE Wake \/ NoDownload
  <2>1. CASE phase' = "poll"
    BY <1>6, <2>1 DEF Wake, Awake, NoDownload, Throw
  <2>2. CASE phase' # "poll"
    <3>1. PICK result \in {"withheld", "unknown"} :
            requests' = [requests EXCEPT ![1] = result] /\ requests[1] # "none"
      BY <1>6, <1>v, <2>2 DEF Wake, Awake, NoDownload, Throw
    <3> QED
      BY <1>f, <2>2, <3>1
  <2> QED
    BY <2>1, <2>2
<1>7. CASE Download
  <2> PICK result \in {"media"} \cup Failed : requests' = [requests EXCEPT ![1] = result]
    BY <1>7, RejectionTyped DEF Download, Failed
  <2> QED
    BY <1>7, <1>f, <1>v DEF Download, Failed, FailureType
<1>8. CASE Remove
  BY <1>8 DEF Remove, Return, Throw
<1> QED
  BY <1>1, <1>2, <1>3, <1>4, <1>5, <1>6, <1>7, <1>8 DEF Provider, Begin

\* Neither a batch nor a poll is started for a worker that is being stopped or
\* a call whose time is up, however the abort falls between the steps.
THEOREM AbortedAsksNothing == Spec => StopsAsking
<1>1. ASSUME MInv, [Next]_vars, stopped # "no", phase \notin {"start", "over"}
      PROVE  Started'.requests = Started.requests /\ (Started'.polling => Started.polling)
  <2>1. CASE Provider
    BY <1>1, <2>1, NothingStarted DEF NothingNew, Started
  <2>2. CASE (\E why \in {"timeout", "shutdown"} : Stop(why)) \/ Tell \/ Join \/ UNCHANGED vars
    <3>1. UNCHANGED <<requests, phase>>
      BY <2>2 DEF Stop, Tell, Join, vars
    <3> QED
      BY <3>1 DEF Started
  <2> QED
    BY <1>1, <2>1, <2>2 DEF Next
<1> QED
  BY <1>1, MediaInvariant, PTL DEF Spec, StopsAsking

-------------------------------------------------------------------------------
(* Induction over numbers, stated with sets: the provers find a set where   *)
(* they do not find an operator.                                            *)

\* A nonempty set of numbers has a least one.
LEMMA Least ==
  ASSUME NEW S, S \subseteq Nat, S # {}
  PROVE  \E n \in S : \A m \in S : n <= m
<1>1. IsWellFoundedOn(OpToRel(<, Nat), Nat)
  BY NatLessThanWellFounded
<1>2. PICK n \in S : \A m \in S : ~(<<m, n>> \in OpToRel(<, Nat))
  BY <1>1, WFMin
<1>3. \A m \in S : ~(m < n)
  BY <1>2 DEF OpToRel
<1> QED
  BY <1>3

\* A set that holds 0 and with every number the next one holds them all.
LEMMA SetInduction ==
  ASSUME NEW S, 0 \in S, \A n \in Nat : n \in S => n + 1 \in S
  PROVE  Nat \subseteq S
<1> SUFFICES ASSUME NEW k \in Nat, k \notin S PROVE FALSE
  OBVIOUS
<1> DEFINE T == {n \in Nat : n \notin S}
<1>1. PICK n \in T : \A m \in T : n <= m
  BY Least
<1>2. n # 0 /\ n - 1 \in Nat /\ n - 1 \notin T
  BY <1>1
<1>3. n - 1 \in S
  BY <1>2
<1> QED
  BY <1>1, <1>2, <1>3

-------------------------------------------------------------------------------
(* Delays between polls.                                                    *)

\* The function that Power defines exists, and obeys its equation.
LEMMA PowerFunction ==
  ASSUME NEW base, NEW n \in Nat
  PROVE  \E f : /\ Power(base, n) = f[n] /\ f[0] = 1
                /\ \A k \in 1 .. n : f[k] = base * f[k - 1]
<1> DEFINE Step(f, k) == IF k = 0 THEN 1 ELSE base * f[k - 1]
           Defined == {m \in Nat : \E f : f = [k \in 0 .. m |-> Step(f, k)]}
           found == CHOOSE f : f = [k \in 0 .. n |-> Step(f, k)]
<1>1. 0 \in Defined
  <2> DEFINE f == [k \in 0 .. 0 |-> 1]
  <2>1. f = [k \in 0 .. 0 |-> Step(f, k)]
    OBVIOUS
  <2> QED
    BY <2>1
<1>2. ASSUME NEW m \in Nat, m \in Defined PROVE m + 1 \in Defined
  <2> PICK f : f = [k \in 0 .. m |-> Step(f, k)]
    BY <1>2
  <2> DEFINE g == [k \in 0 .. m + 1 |-> IF k <= m THEN f[k] ELSE Step(f, k)]
  <2>1. ASSUME NEW k \in 0 .. m + 1 PROVE g[k] = Step(g, k)
    <3>1. k # 0 => g[k - 1] = f[k - 1]
      OBVIOUS
    <3>2. Step(g, k) = Step(f, k)
      <4> HIDE DEF g
      <4> QED
        BY <3>1
    <3>3. k <= m => f[k] = Step(f, k)
      <4> HIDE DEF Step
      <4> QED
        OBVIOUS
    <3> HIDE DEF Step
    <3> QED
      BY <3>2, <3>3
  <2>2. g = [k \in 0 .. m + 1 |-> Step(g, k)]
    <3>1. g = [k \in 0 .. m + 1 |-> g[k]]
      OBVIOUS
    <3> HIDE DEF g, Step
    <3> QED
      BY <2>1, <3>1
  <2>3. \E h : h = [k \in 0 .. m + 1 |-> Step(h, k)]
    <3> HIDE DEF g, Step
    <3> QED
      BY <2>2
  <2> HIDE DEF Step
  <2> QED
    BY <2>3
<1>3. \E f : f = [k \in 0 .. n |-> Step(f, k)]
  <2> HIDE DEF Step
  <2> QED
    BY <1>1, <1>2, SetInduction
<1>4. found = [k \in 0 .. n |-> Step(found, k)]
  BY <1>3
<1>5. Power(base, n) = found[n]
  BY DEF Power
<1>6. \A k \in 0 .. n : found[k] = Step(found, k)
  <2> HIDE DEF Step, found
  <2> QED
    BY <1>4
<1> HIDE DEF found
<1> QED
  BY <1>5, <1>6

LEMMA PowerNext ==
  ASSUME NEW base, NEW n \in Nat
  PROVE  Power(base, n + 1) = base * Power(base, n)
<1>1. PICK f : /\ Power(base, n) = f[n] /\ f[0] = 1
               /\ \A k \in 1 .. n : f[k] = base * f[k - 1]
  BY PowerFunction
<1>2. PICK g : /\ Power(base, n + 1) = g[n + 1] /\ g[0] = 1
               /\ \A k \in 1 .. n + 1 : g[k] = base * g[k - 1]
  BY PowerFunction
<1> DEFINE Same == {k \in Nat : k <= n => f[k] = g[k]}
<1>3. 0 \in Same
  BY <1>1, <1>2
<1>4. ASSUME NEW k \in Nat, k \in Same PROVE k + 1 \in Same
  <2>1. SUFFICES ASSUME k + 1 <= n PROVE f[k + 1] = g[k + 1]
    OBVIOUS
  <2>2. f[k] = g[k] /\ k + 1 \in 1 .. n /\ k + 1 \in 1 .. n + 1 /\ (k + 1) - 1 = k
    BY <1>4, <2>1
  <2>3. f[k + 1] = base * f[k] /\ g[k + 1] = base * g[k]
    <3>1. f[k + 1] = base * f[(k + 1) - 1] /\ g[k + 1] = base * g[(k + 1) - 1]
      BY <1>1, <1>2, <2>2
    <3> QED
      BY <2>2, <3>1
  <2> QED
    BY <2>2, <2>3
<1>5. f[n] = g[n]
  <2>1. n \in Same
    <3> HIDE DEF Same
    <3> QED
      BY <1>3, <1>4, SetInduction
  <2> QED
    BY <2>1
<1>6. g[n + 1] = base * g[(n + 1) - 1] /\ (n + 1) - 1 = n
  BY <1>2
<1> QED
  BY <1>1, <1>2, <1>5, <1>6

LEMMA PowerType ==
  ASSUME NEW base \in Nat \ {0}, NEW n \in Nat
  PROVE  Power(base, n) \in Nat \ {0}
<1> DEFINE Typed == {m \in Nat : Power(base, m) \in Nat \ {0}}
<1>1. Power(base, 0) = 1
  BY PowerFunction
<1>2. 0 \in Typed
  BY <1>1
<1>3. ASSUME NEW m \in Nat, m \in Typed PROVE m + 1 \in Typed
  <2>1. Power(base, m + 1) = base * Power(base, m) /\ Power(base, m) \in Nat \ {0}
    BY <1>3, PowerNext
  <2> DEFINE p == Power(base, m)
  <2>2. base * p \in Nat \ {0}
    <3> HIDE DEF p
    <3>1. p \in Nat \ {0}
      BY <2>1 DEF p
    <3> QED
      BY <3>1
  <2> QED
    BY <2>1, <2>2
<1>4. n \in Typed
  <2> HIDE DEF Typed
  <2> QED
    BY <1>2, <1>3, SetInduction
<1> QED
  BY <1>4

\* What a quotient is, ...
LEMMA Quotient ==
  ASSUME NEW a \in Int, NEW b \in Nat \ {0}
  PROVE  a \div b \in Int /\ b * (a \div b) <= a /\ a < b * (a \div b) + b
OBVIOUS

LEMMA Cancel ==
  ASSUME NEW b \in Nat \ {0}, NEW x \in Int, NEW y \in Int, b * x < b * y
  PROVE  x < y
OBVIOUS

\* ... and a rounded one.
LEMMA RoundedBounds ==
  ASSUME NEW x \in Int, NEW y \in Nat \ {0}
  PROVE  /\ Rounded(x, y) \in Int
         /\ 2 * (y * Rounded(x, y)) <= 2 * x + y
         /\ 2 * x + y < 2 * (y * Rounded(x, y)) + 2 * y
<1>1. 2 * x + y \in Int /\ 2 * y \in Nat \ {0}
  OBVIOUS
<1> DEFINE a == 2 * x + y
           b == 2 * y
           r == a \div b
<1>2. r \in Int /\ b * r <= a /\ a < b * r + b
  BY <1>1, Quotient
<1>3. b * r = 2 * (y * r)
  BY <1>2
<1>4. r = Rounded(x, y)
  BY DEF Rounded
<1> HIDE DEF r
<1> QED
  BY <1>2, <1>3, <1>4

\* A quotient that is at least as large is not rounded to less.
LEMMA RoundedGrows ==
  ASSUME NEW x \in Int, NEW z \in Int, NEW y \in Nat \ {0}, z >= 2 * x
  PROVE  Rounded(z, 2 * y) >= Rounded(x, y)
<1> DEFINE r == Rounded(x, y)
           s == Rounded(z, 2 * y)
<1>1. r \in Int /\ 2 * (y * r) <= 2 * x + y
  BY RoundedBounds
<1>2. s \in Int /\ 2 * z + 2 * y < 2 * ((2 * y) * s) + 2 * (2 * y)
  <2>1. 2 * y \in Nat \ {0}
    OBVIOUS
  <2> QED
    BY <2>1, RoundedBounds
<1> HIDE DEF r, s
<1>3. (2 * y) * s = 2 * (y * s) /\ y * s \in Int /\ y * r \in Int
  BY <1>1, <1>2
<1>4. 4 * (y * r) <= 4 * x + 2 * y
  BY <1>1, <1>3
<1>5. 4 * x + 2 * y < 4 * (y * s) + 4 * y
  BY <1>2, <1>3
<1>6. y * r < y * s + y
  BY <1>3, <1>4, <1>5
<1>7. y * s + y = y * (s + 1) /\ s + 1 \in Int
  BY <1>2
<1>8. r < s + 1
  BY <1>1, <1>6, <1>7, Cancel
<1> QED
  BY <1>1, <1>2, <1>8 DEF r, s

\* The delay before poll n, times 2^n, without the jitter, ...
Base(n) ==
  IF PollInterval * Power(3, n) > Longest * Power(2, n)
  THEN Longest * Power(2, n) ELSE PollInterval * Power(3, n)

\* ... and the delay with it.
Jittered(n, jitter) == Rounded(Base(n) * (100 + jitter), 100 * Power(2, n))

Jitter == -10 .. 9

LEMMA DelayFits ==
  ASSUME NEW n \in Nat, NEW jitter \in Jitter
  PROVE  /\ Longest \in Nat \ {0} /\ Power(2, n) \in Nat \ {0} /\ Power(3, n) \in Nat \ {0}
         /\ Base(n) \in Nat \ {0} /\ Jittered(n, jitter) \in Int
         /\ PollDelay(n, jitter) \in 1 .. Longest
         /\ Jittered(n, jitter) <= PollDelay(n, jitter) \/ PollDelay(n, jitter) = Longest
         /\ PollDelay(n, jitter) <= Jittered(n, jitter) \/ PollDelay(n, jitter) = 1
<1>1. Longest \in Nat \ {0} /\ PollInterval \in Nat \ {0}
  BY MediaBatchAssumptions DEF Longest
<1>2. Power(2, n) \in Nat \ {0} /\ Power(3, n) \in Nat \ {0}
  <2>1. 2 \in Nat \ {0} /\ 3 \in Nat \ {0}
    OBVIOUS
  <2> QED
    BY <2>1, PowerType
<1>3. Base(n) \in Nat \ {0}
  <2>1. \A a, b \in Nat \ {0} : a * b \in Nat \ {0}
    OBVIOUS
  <2>2. Longest * Power(2, n) \in Nat \ {0} /\ PollInterval * Power(3, n) \in Nat \ {0}
    BY <1>1, <1>2, <2>1
  <2> QED
    BY <2>2 DEF Base
<1>4. Jittered(n, jitter) \in Int
  <2>1. Base(n) * (100 + jitter) \in Int /\ 100 * Power(2, n) \in Nat \ {0}
    BY <1>2, <1>3 DEF Jitter
  <2> QED
    BY <2>1, RoundedBounds DEF Jittered
<1>5. PollDelay(n, jitter) = IF Jittered(n, jitter) > Longest THEN Longest
                             ELSE IF Jittered(n, jitter) < 1 THEN 1 ELSE Jittered(n, jitter)
  BY DEF PollDelay, Jittered, Base
<1> QED
  BY <1>1, <1>2, <1>3, <1>4, <1>5

\* Without the jitter it grows by half, up to the ceiling.
LEMMA BaseGrows ==
  ASSUME NEW n \in Nat
  PROVE  Base(n + 1) >= 3 * Base(n) \/ Base(n + 1) = Longest * Power(2, n + 1)
<1>1. 0 \in Jitter
  BY DEF Jitter
<1>2. /\ Longest \in Nat \ {0} /\ Power(2, n) \in Nat \ {0} /\ Power(3, n) \in Nat \ {0}
      /\ PollInterval \in Nat \ {0}
  BY <1>1, DelayFits, MediaBatchAssumptions
<1>3. Power(3, n + 1) = 3 * Power(3, n)
  BY PowerNext
<1> DEFINE grown == PollInterval * Power(3, n)
<1>4. grown \in Nat /\ PollInterval * Power(3, n + 1) = 3 * grown
  BY <1>2, <1>3
<1>5. Longest * Power(2, n) \in Nat
  BY <1>2
<1>6. Base(n) \in Nat /\ Base(n) <= grown
  BY <1>4, <1>5 DEF Base
<1>7. Base(n + 1) = Longest * Power(2, n + 1) \/ Base(n + 1) = 3 * grown
  BY <1>4 DEF Base
<1> HIDE DEF grown
<1> QED
  BY <1>4, <1>6, <1>7

\* Growth by half outweighs a tenth more before and a tenth less now.
LEMMA JitteredGrows ==
  ASSUME NEW n \in Nat, NEW j \in Jitter, NEW k \in Jitter, Base(n + 1) >= 3 * Base(n)
  PROVE  Jittered(n + 1, k) >= Jittered(n, j)
<1> DEFINE x == Base(n) * (100 + j)
           z == Base(n + 1) * (100 + k)
           y == 100 * Power(2, n)
<1>1. /\ Base(n) \in Nat \ {0} /\ Power(2, n) \in Nat \ {0} /\ Base(n + 1) \in Nat \ {0}
      /\ j \in Int /\ k \in Int /\ j <= 9 /\ -10 <= k
  <2>1. n + 1 \in Nat
    OBVIOUS
  <2>2. j \in Int /\ k \in Int /\ j <= 9 /\ -10 <= k
    BY DEF Jitter
  <2>3. Base(n) \in Nat \ {0} /\ Power(2, n) \in Nat \ {0}
    BY DelayFits
  <2>4. Base(n + 1) \in Nat \ {0}
    BY <2>1, DelayFits
  <2> QED
    BY <2>2, <2>3, <2>4
<1>2. 100 * Power(2, n + 1) = 2 * y /\ y \in Nat \ {0}
  BY <1>1, PowerNext
<1>3. x \in Int /\ x <= 109 * Base(n)
  BY <1>1
<1>4. z \in Int /\ 90 * Base(n + 1) <= z
  BY <1>1
<1>5. z >= 2 * x
  <2> HIDE DEF x, z
  <2> QED
    BY <1>1, <1>3, <1>4
<1>6. Rounded(z, 2 * y) >= Rounded(x, y)
  <2> HIDE DEF x, y, z
  <2> QED
    BY <1>2, <1>3, <1>4, <1>5, RoundedGrows
<1> QED
  BY <1>2, <1>6 DEF Jittered

\* At the ceiling a tenth less is the least there is, but for the rounding.
LEMMA JitteredAtCeiling ==
  ASSUME NEW n \in Nat, NEW k \in Jitter, Base(n) = Longest * Power(2, n)
  PROVE  10 * Jittered(n, k) + 5 > 9 * Longest
<1> DEFINE b == Power(2, n)
           r == Jittered(n, k)
           x == Base(n) * (100 + k)
<1>1. /\ Longest \in Nat \ {0} /\ b \in Nat \ {0} /\ Base(n) \in Nat \ {0} /\ r \in Int
      /\ k \in Int /\ -10 <= k
  <2>1. k \in Int /\ -10 <= k
    BY DEF Jitter
  <2> QED
    BY <2>1, DelayFits
<1>2. x \in Int /\ 90 * Base(n) <= x
  BY <1>1
<1>3. 2 * x + 100 * b < 2 * ((100 * b) * r) + 2 * (100 * b)
  <2>1. 100 * b \in Nat \ {0} /\ r = Rounded(x, 100 * b)
    BY <1>1 DEF Jittered
  <2> HIDE DEF x, b, r
  <2> QED
    BY <1>2, <2>1, RoundedBounds
<1>4. Base(n) = Longest * b
  OBVIOUS
<1> HIDE DEF b, r, x
<1>5. (100 * b) * r = 100 * (b * r) /\ b * r \in Int /\ b * Longest \in Int /\ Longest * b = b * Longest
  BY <1>1
<1>6. 180 * (b * Longest) + 100 * b < 200 * (b * r) + 200 * b
  BY <1>1, <1>2, <1>3, <1>4, <1>5
<1>7. 180 * (b * Longest) + 100 * b = b * (180 * Longest + 100)
  BY <1>1
<1>8. 200 * (b * r) + 200 * b = b * (200 * r + 200)
  BY <1>1
<1>9. 180 * Longest + 100 < 200 * r + 200
  BY <1>1, <1>6, <1>7, <1>8, Cancel
<1> QED
  BY <1>1, <1>9 DEF r

\* A delay is no shorter than the one before it, or at the ceiling.
LEMMA DelayGrows ==
  ASSUME NEW n \in Nat, NEW j \in Jitter, NEW k \in Jitter,
         PollDelay(n + 1, k) < PollDelay(n, j)
  PROVE  10 * PollDelay(n + 1, k) + 5 > 9 * Longest
<1> DEFINE d == PollDelay(n, j)
           e == PollDelay(n + 1, k)
<1>1. /\ d \in 1 .. Longest /\ e \in 1 .. Longest /\ Longest \in Nat
      /\ Jittered(n, j) \in Int /\ Jittered(n + 1, k) \in Int
      /\ d <= Jittered(n, j) \/ d = 1
      /\ Jittered(n + 1, k) <= e \/ e = Longest
  <2>1. n + 1 \in Nat
    OBVIOUS
  <2> QED
    BY <2>1, DelayFits
<1>2. e < d
  OBVIOUS
<1> HIDE DEF d, e
<1>3. Jittered(n + 1, k) <= e /\ d <= Jittered(n, j)
  BY <1>1, <1>2
<1>4. ~(Base(n + 1) >= 3 * Base(n))
  BY <1>1, <1>2, <1>3, JitteredGrows
<1>5. Base(n + 1) = Longest * Power(2, n + 1)
  BY <1>4, BaseGrows
<1>6. 10 * Jittered(n + 1, k) + 5 > 9 * Longest
  BY <1>5, JitteredAtCeiling
<1> QED
  BY <1>1, <1>3, <1>6 DEF e

LEMMA DelayAtCeiling ==
  ASSUME NEW j \in Jitter, NEW k \in Jitter,
         PollDelay(MaxAttempts, k) < PollDelay(MaxAttempts, j)
  PROVE  10 * PollDelay(MaxAttempts, k) + 5 > 9 * Longest
<1>1. MaxAttempts \in Nat
  BY MediaBatchAssumptions
<1>2. /\ Longest \in Nat /\ PollDelay(MaxAttempts, k) \in 1 .. Longest
      /\ PollDelay(MaxAttempts, j) \in 1 .. Longest /\ Jittered(MaxAttempts, k) \in Int
      /\ Jittered(MaxAttempts, k) <= PollDelay(MaxAttempts, k)
           \/ PollDelay(MaxAttempts, k) = Longest
      /\ Power(2, MaxAttempts) \in Nat /\ Power(3, MaxAttempts) \in Nat
  BY <1>1, DelayFits
<1>3. Base(MaxAttempts) = Longest * Power(2, MaxAttempts)
  BY <1>2, CeilingReached, MediaBatchAssumptions DEF Base
<1>4. 10 * Jittered(MaxAttempts, k) + 5 > 9 * Longest
  BY <1>1, <1>3, JitteredAtCeiling
<1> QED
  BY <1>2, <1>4

\* The delay before poll n, if there was one.
Delayed(n) == wait = 0 \/ \E jitter \in Jitter : wait = PollDelay(n, jitter)

\* What the last delay was: that of the attempt, or of the one before it.
PollInv ==
  /\ phase \in {"start", "batch", "create"} => wait = 0
  /\ phase \in {"sleep", "poll"} => Delayed(attempt)
  /\ phase = "wait" =>
       \/ attempt > 0 /\ Delayed(attempt - 1)
       \/ attempt = MaxAttempts /\ Delayed(attempt)
       \/ wait = 0

LEMMA PollInit == Init => PollInv
BY DEF Init, PollInv

LEMMA PollStep ==
  ASSUME TypeOK, PollInv, [Next]_vars
  PROVE  PollInv'
<1>a. attempt \in 0 .. MaxAttempts /\ MaxAttempts \in Nat
  BY MediaBatchAssumptions DEF TypeOK
<1>1. CASE Sleep
  BY <1>1 DEF Sleep, PollInv, Delayed, Jitter
<1>2. CASE Polled
  <2>1. /\ phase = "poll" /\ UNCHANGED wait
        /\ phase' \notin {"start", "batch", "create", "sleep", "poll"}
    BY <1>2 DEF Polled, Operation, Throw
  <2>2. Delayed(attempt)
    BY <2>1 DEF PollInv
  <2>3. \A n : Delayed(n) => Delayed(n)'
    BY <2>1 DEF Delayed
  <2>4. CASE attempt < MaxAttempts
    <3>1. attempt' = attempt + 1
      BY <1>2, <2>4 DEF Polled, NextAttempt
    <3>2. attempt' > 0 /\ attempt' - 1 = attempt
      BY <1>a, <3>1
    <3>3. wait' = 0 \/ \E jitter \in Jitter : wait' = PollDelay(attempt' - 1, jitter)
      BY <2>1, <2>2, <3>2 DEF Delayed
    <3> QED
      BY <2>1, <3>2, <3>3 DEF PollInv, Delayed
  <2>5. CASE attempt = MaxAttempts
    <3>1. attempt' = attempt
      BY <1>2, <1>a, <2>5 DEF Polled, NextAttempt
    <3> QED
      BY <2>1, <2>2, <2>5, <3>1 DEF PollInv, Delayed
  <2> QED
    BY <1>a, <2>4, <2>5
<1>3. CASE Begin \/ SendBatch \/ Settle \/ Collect
  <2>1. /\ UNCHANGED <<wait, attempt>> /\ phase \in {"start", "batch"}
        /\ phase' \in {"batch", "create", "over"}
    BY <1>3 DEF Begin, SendBatch, Settle, Collect, Throw, Return, videoVars
  <2> QED
    BY <2>1 DEF PollInv
<1>6. CASE Create
  <2>1. /\ UNCHANGED <<wait, attempt>> /\ phase = "create"
        /\ phase' \in {"wait", "download", "remove", "over"}
    BY <1>6 DEF Create, Operation, Throw, videoVars
  <2> QED
    BY <2>1 DEF PollInv
<1>7. CASE Wake
  <2>1. UNCHANGED <<wait, attempt>> /\ phase = "sleep" /\ phase' \in {"poll", "over"}
    BY <1>7 DEF Wake, Awake, Throw, videoVars
  <2> QED
    BY <2>1 DEF PollInv, Delayed
<1>4. CASE NoDownload \/ MakeDirectory \/ Download \/ Remove
  <2>1. UNCHANGED <<wait, attempt>> /\ phase' \in {"download", "remove", "over"}
    BY <1>4 DEF NoDownload, MakeDirectory, Download, Remove, Throw, Return, videoVars
  <2> QED
    BY <2>1 DEF PollInv
<1>5. CASE (\E why \in {"timeout", "shutdown"} : Stop(why)) \/ Tell \/ Join \/ UNCHANGED vars
  <2>1. UNCHANGED <<wait, attempt, phase>>
    BY <1>5 DEF Stop, Tell, Join, vars, videoVars
  <2> QED
    BY <2>1 DEF PollInv, Delayed
<1> QED
  BY <1>1, <1>2, <1>3, <1>4, <1>5, <1>6, <1>7 DEF Next, Provider

\* The only step that delays a poll.
LEMMA SleepsLonger ==
  ASSUME TypeOK, PollInv, [Next]_vars, wait' # wait
  PROVE  wait' \in 1 .. Longest /\ (wait' < wait => 10 * wait' + 5 > 9 * Longest)
<1>a. attempt \in 0 .. MaxAttempts /\ MaxAttempts \in Nat
  BY MediaBatchAssumptions DEF TypeOK
<1>1. Sleep
  BY DEF Next, Provider, Begin, SendBatch, Settle, Collect, Create, Wake, Polled, NoDownload,
         MakeDirectory, Download, Remove, Stop, Tell, Join, vars, videoVars
<1>2. PICK k \in Jitter : wait' = PollDelay(attempt, k)
  BY <1>1 DEF Sleep, Jitter
<1>3. wait' \in 1 .. Longest /\ Longest \in Nat
  BY <1>a, <1>2, DelayFits
<1>4. ASSUME attempt > 0, NEW j \in Jitter, wait = PollDelay(attempt - 1, j), wait' < wait
      PROVE  10 * wait' + 5 > 9 * Longest
  <2>1. attempt - 1 \in Nat /\ (attempt - 1) + 1 = attempt
    BY <1>a, <1>4
  <2> QED
    BY <1>2, <1>4, <2>1, DelayGrows
<1>5. ASSUME attempt = MaxAttempts, NEW j \in Jitter, wait = PollDelay(attempt, j), wait' < wait
      PROVE  10 * wait' + 5 > 9 * Longest
  BY <1>2, <1>5, DelayAtCeiling
<1>6. ~(wait = 0 /\ wait' < wait)
  BY <1>3
<1>7. phase = "wait"
  BY <1>1 DEF Sleep
<1> QED
  BY <1>3, <1>4, <1>5, <1>6, <1>7 DEF PollInv, Delayed

\* Polls back off for every interval and ceiling: growth by half per poll outweighs
\* the jitter until the ceiling is reached.
THEOREM PollsGrowRarer == Spec => PollsBackOff
<1>1. TypeOK /\ PollInv /\ [Next]_vars => PollInv'
  BY PollStep
<1>2. TypeOK /\ PollInv /\ [Next]_vars =>
        (wait' # wait =>
           /\ wait' \in 1 .. Longest
           /\ wait' < wait => 10 * wait' + 5 > 9 * Longest)
  BY SleepsLonger
<1> QED
  BY <1>1, <1>2, PollInit, MediaBatchTypeCorrect, PTL DEF Spec, PollsBackOff
===============================================================================
