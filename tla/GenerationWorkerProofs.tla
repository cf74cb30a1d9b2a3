------------------------ MODULE GenerationWorkerProofs ------------------------
(***************************************************************************)
(* Theorems about GenerationWorker for any number of workers, generations  *)
(* and keys, any lease, any skew up to the lease, and any failures: types, *)
(* claims, results, files, and that the workers implement GenerationQueue. *)
(* The last part is about TimelyWorker, and only there are the assumptions *)
(* on its timing cited.                                                    *)
(***************************************************************************)
EXTENDS TimelyWorker, FiniteSetTheorems, TLAPS

Busy(w) == job[w].gen # NoGeneration

\* A worker is on a generation exactly while it is inside process().
Engaged ==
  \A w \in Worker : Busy(w) <=> pc[w] \notin {"stopped", "idle"}

\* No timestamp is in the future, a claimed row was claimed, and no version
\* held by a worker is newer than the row's.
Versions ==
  /\ \A g \in Generation : updatedAt[g] <= now
  /\ \A w \in Worker : Busy(w) =>
       /\ status[job[w].gen] \in {"processing", "completed", "failed"}
       /\ job[w].version <= updatedAt[job[w].gen]

\* A version names one claim: two workers on one generation hold different
\* versions of it.
Distinct ==
  \A v, w \in Worker :
    v # w /\ Busy(v) /\ job[v].gen = job[w].gen => job[v].version # job[w].version

ClaimBase == TypeOK /\ Engaged /\ Versions

ClaimInv == TypeOK /\ Engaged /\ Versions /\ Distinct

-----------------------------------------------------------------------------
(* Types *)

LEMMA NoJobType == NoJob \in Job
BY WorkerAssumptions DEF NoJob, Job, Time

\* Each field of a job can be updated on its own.
LEMMA JobUpdate ==
  ASSUME NEW j \in Job
  PROVE  /\ \A t \in Time : [j EXCEPT !.version = t] \in Job
         /\ [j EXCEPT !.lost = TRUE] \in Job
         /\ \A n \in 0..MaxOutputs : [j EXCEPT !.outputs = n] \in Job
         /\ \A ks \in SUBSET Key : [j EXCEPT !.keys = ks] \in Job
BY DEF Job

\* What WriteResult does to the tables stays typed.
LEMMA WriteResultType ==
  ASSUME TypeOK, NEW g, NEW media \in SUBSET Key, WriteResult(g, media)
  PROVE  /\ status' \in [Generation -> Status]
         /\ updatedAt' \in [Generation -> Time]
         /\ messages' \in [Generation -> SUBSET SUBSET Key]
         /\ result' \in [Generation -> SUBSET Key]
         /\ chatResult' \in [Generation -> SUBSET Key]
<1> USE DEF TypeOK, WriteResult
<1>1. status' \in [Generation -> Status] /\ updatedAt' \in [Generation -> Time]
  BY DEF Status
<1>2. messages' \in [Generation -> SUBSET SUBSET Key]
  OBVIOUS
<1>3. result' \in [Generation -> SUBSET Key]
  OBVIOUS
<1>4. chatResult' \in [Generation -> SUBSET Key]
  OBVIOUS
<1> QED
  BY <1>1, <1>2, <1>3, <1>4

\* The step lemma of TypeOK: no handler of the worker leaves the types.
LEMMA TypeStep == TypeOK /\ [Next]_vars => TypeOK'
<1> SUFFICES ASSUME TypeOK, [Next]_vars PROVE TypeOK'
  OBVIOUS
<1> USE WorkerAssumptions, NoJobType DEF TypeOK, Time
<1>1. CASE Tick
  BY <1>1 DEF Tick, rowVars, resultVars
<1>2. ASSUME NEW g \in Generation, Submit(g) PROVE TypeOK'
  BY <1>2 DEF Submit, resultVars, Status
<1>3. ASSUME NEW w \in Worker, Start(w) PROVE TypeOK'
  BY <1>3 DEF Start, rowVars, resultVars, Goto, Phase
<1>4. ASSUME NEW w \in Worker, Stop(w) PROVE TypeOK'
  BY <1>4 DEF Stop, Fault, rowVars, resultVars, Phase
<1>5. ASSUME NEW w \in Worker, Crash(w) PROVE TypeOK'
  BY <1>5 DEF Crash, Fault, rowVars, resultVars, Goto, Phase
<1>6. ASSUME NEW w \in Worker, ClaimNext(w) PROVE TypeOK'
  <2> PICK g \in Generation :
        /\ Take(g)
        /\ job' = [job EXCEPT ![w] = [NoJob EXCEPT !.gen = g, !.version = now]]
        /\ Goto(w, Claimed(g))
    BY <1>6 DEF ClaimNext, Candidates, Oldest, Rows
  <2>1. [NoJob EXCEPT !.gen = g, !.version = now] \in Job
    BY DEF Job, NoJob
  <2> QED
    BY <1>6, <2>1 DEF ClaimNext, Claimed, Take, Goto, Phase, Status, resultVars
<1>7. ASSUME NEW w \in Worker, ClaimReplyLost(w) PROVE TypeOK'
  <2> PICK g \in Generation : Take(g)
    BY <1>7 DEF ClaimReplyLost, Candidates, Oldest, Rows
  <2> QED
    BY <1>7 DEF ClaimReplyLost, Fault, Take, Status, resultVars
<1>8. ASSUME NEW w \in Worker, RenewClaim(w) PROVE TypeOK'
  <2>1. job' \in [Worker -> Job]
    <3>1. job[w] \in Job
      OBVIOUS
    <3>2. CASE Matches(w)
      <4>1. job' = [job EXCEPT ![w] = [job[w] EXCEPT !.version = now]]
        BY <1>8, <3>2 DEF RenewClaim
      <4>2. [job[w] EXCEPT !.version = now] \in Job
        BY <3>1, JobUpdate
      <4> QED
        BY <4>1, <4>2
    <3>3. CASE ~Matches(w)
      BY <1>8, <3>1, <3>3, JobUpdate DEF RenewClaim
    <3> QED
      BY <3>2, <3>3
  <2>2. updatedAt' \in [Generation -> Time]
    BY <1>8 DEF RenewClaim, Job
  <2> QED
    BY <1>8, <2>1, <2>2 DEF RenewClaim, resultVars
<1>9. ASSUME NEW w \in Worker, RenewError(w) PROVE TypeOK'
  <2>1. job' \in [Worker -> Job]
    <3>1. job' = [job EXCEPT ![w].lost = TRUE]
      BY <1>9 DEF RenewError
    <3>2. job[w] \in Job
      OBVIOUS
    <3> QED
      BY <3>1, <3>2, JobUpdate
  <2>2. updatedAt' \in [Generation -> Time]
    BY <1>9 DEF RenewError, Job
  <2> QED
    BY <1>9, <2>1, <2>2 DEF RenewError, Fault, resultVars
<1>10. ASSUME NEW w \in Worker, Generate(w) PROVE TypeOK'
  <2>1. job' \in [Worker -> Job]
    <3> PICK n \in 1..MaxOutputs : job' = [job EXCEPT ![w].outputs = n]
      BY <1>10 DEF Generate
    <3>1. job[w] \in Job /\ n \in 0..MaxOutputs
      OBVIOUS
    <3> QED
      BY <3>1, JobUpdate
  <2> QED
    BY <1>10, <2>1 DEF Generate, Goto, Phase, rowVars, resultVars
<1>11. ASSUME NEW w \in Worker, GenerateError(w) PROVE TypeOK'
  BY <1>11 DEF GenerateError, rowVars, resultVars, Goto, Phase
<1>12. ASSUME NEW w \in Worker, StoreGenerated(w) PROVE TypeOK'
  <2> PICK k \in Key : files' = files \cup {k} /\ job' = [job EXCEPT ![w].keys = @ \cup {k}]
    BY <1>12 DEF StoreGenerated
  <2>1. job' \in [Worker -> Job] /\ files' \subseteq Key
    <3>1. job[w] \in Job /\ job[w].keys \cup {k} \in SUBSET Key
      BY DEF Job
    <3> QED
      BY <3>1, JobUpdate
  <2> QED
    BY <1>12, <2>1 DEF StoreGenerated, rowVars, resultVars
<1>13. ASSUME NEW w \in Worker, StoreError(w) PROVE TypeOK'
  BY <1>13 DEF StoreError, rowVars, resultVars, Goto, Phase
<1>14. ASSUME NEW w \in Worker, StopLease(w) PROVE TypeOK'
  BY <1>14 DEF StopLease, rowVars, resultVars, Goto, Phase
<1>15. ASSUME NEW w \in Worker, FindClaim(w) PROVE TypeOK'
  BY <1>15 DEF FindClaim, rowVars, resultVars, Goto, Phase
<1>16. ASSUME NEW w \in Worker, CompleteClaim(w) PROVE TypeOK'
  <2>1. CASE Matches(w)
    <3>1. WriteResult(job[w].gen, job[w].keys) /\ Finish(w)
      BY <1>16, <2>1 DEF CompleteClaim
    <3>2. job[w].keys \in SUBSET Key
      BY DEF Job
    <3>3. pc' \in [Worker -> Phase] /\ job' \in [Worker -> Job]
      BY <3>1 DEF Finish, Phase
    <3> QED
      BY <1>16, <3>1, <3>2, <3>3, WriteResultType DEF CompleteClaim
  <2>2. CASE ~Matches(w)
    BY <1>16, <2>2 DEF CompleteClaim, Goto, Phase, rowVars, resultVars
  <2> QED
    BY <2>1, <2>2
<1>17. ASSUME NEW w \in Worker, CompleteError(w) PROVE TypeOK'
  BY <1>17 DEF CompleteError, Fault, rowVars, resultVars, Goto, Phase
<1>18. ASSUME NEW w \in Worker, CommitReplyLost(w) PROVE TypeOK'
  <2>1. WriteResult(job[w].gen, job[w].keys) /\ job[w].keys \in SUBSET Key
    BY <1>18 DEF CommitReplyLost, Job
  <2> QED
    BY <1>18, <2>1, WriteResultType DEF CommitReplyLost, Fault, Goto, Phase
<1>19. ASSUME NEW w \in Worker, Discard(w) PROVE TypeOK'
  BY <1>19 DEF Discard, DeleteStoredMedia, Fault, rowVars, resultVars, Finish, Goto, Phase
<1>20. ASSUME NEW w \in Worker, Cleanup(w) PROVE TypeOK'
  BY <1>20 DEF Cleanup, DeleteStoredMedia, Fault, rowVars, resultVars, Finish, Goto, Phase
<1>21. ASSUME NEW w \in Worker, FailClaim(w) PROVE TypeOK'
  BY <1>21 DEF FailClaim, resultVars, Finish, Phase, Status
<1>22. ASSUME NEW w \in Worker, FailError(w) PROVE TypeOK'
  BY <1>22 DEF FailError, Fault, rowVars, resultVars, Finish, Phase
<1>23. CASE UNCHANGED vars
  BY <1>23 DEF vars
<1> QED
  BY <1>1, <1>2, <1>3, <1>4, <1>5, <1>6, <1>7, <1>8, <1>9, <1>10, <1>11,
     <1>12, <1>13, <1>14, <1>15, <1>16, <1>17, <1>18, <1>19, <1>20, <1>21,
     <1>22, <1>23 DEF Next, Process, Disturb

\* Every state of the workers is well typed: no path leaves a phase without
\* handler, a timestamp outside the clock or more outputs than allowed.
THEOREM TypeCorrect == Spec => []TypeOK
<1>1. Init => TypeOK
  BY WorkerAssumptions, NoJobType DEF Init, TypeOK, Time, Status, Phase
<1> QED
  BY <1>1, TypeStep, PTL DEF Spec

-----------------------------------------------------------------------------
(* Claims *)

\* What is the same in every step that neither takes nor renews a claim: no
\* timestamp of a row changes, a row can only be settled, and a worker keeps
\* its generation and version or drops both.
Calm ==
  /\ now' >= now
  /\ updatedAt' = updatedAt
  /\ \A g \in Generation :
       \/ status'[g] = status[g]
       \/ status[g] = "processing" /\ status'[g] \in {"completed", "failed"}
  /\ \A w \in Worker :
       \/ job'[w].gen = job[w].gen /\ job'[w].version = job[w].version
       \/ job'[w].gen = NoGeneration

LEMMA JobFields ==
  ASSUME TypeOK, NEW w \in Worker
  PROVE  /\ job[w].gen \in Generation \cup {NoGeneration}
         /\ Busy(w) => job[w].gen \in Generation
         /\ job[w].version \in Time /\ job[w].version \in Int
BY WorkerAssumptions DEF TypeOK, Job, Time, Busy

LEMMA CalmStep ==
  ASSUME TypeOK, TypeOK', Versions, Calm
  PROVE  Versions' /\ (Distinct => Distinct')
<1>1. \A g \in Generation : updatedAt[g] \in Int /\ now \in Int /\ now' \in Int
  BY WorkerAssumptions DEF TypeOK, Time
<1>2. Versions'
  <2>1. \A g \in Generation : updatedAt'[g] <= now'
    BY <1>1 DEF Calm, Versions
  <2>2. ASSUME NEW w \in Worker, Busy(w)'
        PROVE  /\ status'[job'[w].gen] \in {"processing", "completed", "failed"}
               /\ job'[w].version <= updatedAt'[job'[w].gen]
    BY <2>2, JobFields DEF Calm, Versions, Busy
  <2> QED
    BY <2>1, <2>2 DEF Versions
<1>3. Distinct => Distinct'
  BY DEF Calm, Distinct, Busy
<1> QED
  BY <1>2, <1>3

\* The step lemma of ClaimInv, in two parts because TimelyWorker keeps the
\* first without the second.  Only four actions touch a claim, and each puts
\* the database clock into the row: a renewal is the newest version because it
\* replaces the newest one, a claim of a stale row because the row's version
\* is more than Lease - Skew old.
LEMMA BaseStep == ClaimBase /\ [Next]_vars => ClaimBase' /\ (Distinct => Distinct')
<1> DEFINE Kept == ClaimBase' /\ (Distinct => Distinct')
<1> SUFFICES ASSUME ClaimBase, [Next]_vars PROVE Kept
  OBVIOUS
<1>a. TypeOK /\ TypeOK'
  BY TypeStep DEF ClaimBase
<1>b. Engaged /\ Versions
  BY DEF ClaimBase
<1>c. ASSUME Calm, Engaged' PROVE Kept
  BY <1>a, <1>b, <1>c, CalmStep DEF ClaimBase
<1>d. /\ now \in Int
      /\ \A g \in Generation : updatedAt[g] \in Int
  BY <1>a, WorkerAssumptions DEF TypeOK, Time
<1>e. \A w \in Worker : pc[w] \in Phase
  BY <1>a DEF TypeOK
<1>f. pc \in [Worker -> Phase] /\ job \in [Worker -> Job]
  BY <1>a DEF TypeOK
<1> USE DEF Busy
<1>1. ASSUME Tick PROVE Kept
  <2>1. Calm
    BY <1>1, <1>a, <1>d, <1>f DEF Calm, Tick, rowVars, NoJob, TypeOK
  <2>2. Engaged'
    BY <1>1, <1>b, <1>f DEF Engaged, Tick, NoJob
  <2> QED
    BY <2>1, <2>2, <1>c
<1>2. ASSUME NEW g \in Generation, Submit(g) PROVE Kept
  <2>1. \A w \in Worker : Busy(w) => job[w].gen # g
    BY <1>2, <1>b DEF Submit, Versions
  <2>2. Engaged' /\ (Distinct => Distinct')
    BY <1>2, <1>b DEF Submit, Engaged, Distinct
  <2>3. Versions'
    BY <1>2, <2>1, <1>a, <1>b, <1>d, JobFields DEF Submit, Versions, TypeOK
  <2> QED
    BY <2>2, <2>3, <1>a DEF ClaimBase
<1>3. ASSUME NEW w \in Worker, Start(w) PROVE Kept
  <2>1. Calm
    BY <1>3, <1>a, <1>d, <1>f DEF Calm, Start, Goto, rowVars, NoJob, TypeOK
  <2>2. Engaged'
    BY <1>3, <1>b, <1>f DEF Engaged, Start, Goto, NoJob
  <2> QED
    BY <2>1, <2>2, <1>c
<1>4. ASSUME NEW w \in Worker, Stop(w) PROVE Kept
  <2>1. Calm
    BY <1>4, <1>a, <1>d, <1>f DEF Calm, Stop, rowVars, NoJob, TypeOK
  <2>2. Engaged'
    BY <1>4, <1>b, <1>f DEF Engaged, Stop, NoJob
  <2> QED
    BY <2>1, <2>2, <1>c
<1>5. ASSUME NEW w \in Worker, Crash(w) PROVE Kept
  <2>1. Calm
    BY <1>5, <1>a, <1>d, <1>f DEF Calm, Crash, Goto, rowVars, NoJob, TypeOK
  <2>2. Engaged'
    BY <1>5, <1>b, <1>f DEF Engaged, Crash, Goto, NoJob
  <2> QED
    BY <2>1, <2>2, <1>c
<1>6. ASSUME NEW w \in Worker, ClaimNext(w) PROVE Kept
  <2> PICK staleBefore \in StaleBoundaries : \E h \in Candidates(staleBefore) :
        /\ Take(h)
        /\ job' = [job EXCEPT ![w] = [NoJob EXCEPT !.gen = h, !.version = now]]
        /\ Goto(w, Claimed(h))
    BY <1>6 DEF ClaimNext
  <2> PICK g \in Candidates(staleBefore) :
        /\ Take(g)
        /\ job' = [job EXCEPT ![w] = [NoJob EXCEPT !.gen = g, !.version = now]]
        /\ Goto(w, Claimed(g))
    BY <1>6 DEF ClaimNext
  <2>1. g \in Generation /\ g # NoGeneration
    BY WorkerAssumptions DEF Candidates, Oldest, Rows
  <2>2. job'[w].gen = g /\ job'[w].version = now
    BY <1>f DEF NoJob
  <2>3. \A v \in Worker : v # w => job'[v] = job[v]
    BY <1>f
  <2>4. \A v \in Worker : Busy(v) /\ job[v].gen = g => job[v].version < now
    <3> SUFFICES ASSUME NEW v \in Worker, Busy(v), job[v].gen = g
                 PROVE  job[v].version < now
      OBVIOUS
    <3>1. job[v].version <= updatedAt[g] /\ status[g] # "pending"
      BY <1>b DEF Versions
    <3>2. g \in Rows("processing") /\ updatedAt[g] < staleBefore
      BY <3>1, <2>1 DEF Candidates, Oldest, Rows
    <3>3. staleBefore \in Int /\ staleBefore <= now
      BY <1>d, WorkerAssumptions DEF StaleBoundaries
    <3> QED
      BY <3>1, <3>2, <3>3, <2>1, <1>a, <1>d, JobFields
  <2>5. Engaged'
    BY <1>b, <1>f, <2>1, <2>2, <2>3, <1>6 DEF Engaged, Goto, ClaimNext, Claimed
  <2>6. Versions'
    <3>1. now' = now /\ updatedAt'[g] = now /\ status'[g] = "processing"
      BY <1>6, <2>1, <1>a DEF ClaimNext, Take, TypeOK
    <3>2. \A h \in Generation : h # g => updatedAt'[h] = updatedAt[h] /\ status'[h] = status[h]
      BY <1>a DEF Take, TypeOK
    <3>3. \A h \in Generation : updatedAt'[h] <= now'
      BY <3>1, <3>2, <1>b, <1>d DEF Versions
    <3>4. ASSUME NEW v \in Worker, Busy(v)'
          PROVE  /\ status'[job'[v].gen] \in {"processing", "completed", "failed"}
                 /\ job'[v].version <= updatedAt'[job'[v].gen]
      BY <3>1, <3>2, <3>4, <2>2, <2>3, <2>4, <1>a, <1>b, <1>d, JobFields DEF Versions
    <3> QED
      BY <3>3, <3>4 DEF Versions
  <2>7. Distinct => Distinct'
    BY <2>1, <2>2, <2>3, <2>4, <1>a, <1>b, <1>d, JobFields DEF Distinct
  <2> QED
    BY <2>5, <2>6, <2>7, <1>a DEF ClaimBase
<1>7. ASSUME NEW w \in Worker, ClaimReplyLost(w) PROVE Kept
  <2> PICK g \in Generation : Take(g) /\ status[g] \in {"pending", "processing"}
    BY <1>7 DEF ClaimReplyLost, Candidates, Oldest, Rows
  <2>1. Engaged' /\ (Distinct => Distinct')
    BY <1>7, <1>b DEF ClaimReplyLost, Engaged, Distinct
  <2>2. Versions'
    BY <1>7, <1>a, <1>b, <1>d, JobFields DEF ClaimReplyLost, Take, Versions, TypeOK
  <2> QED
    BY <2>1, <2>2, <1>a DEF ClaimBase
<1>8. ASSUME NEW w \in Worker, RenewClaim(w) PROVE Kept
  <2>1. CASE Matches(w)
    <3>1. /\ updatedAt' = [updatedAt EXCEPT ![job[w].gen] = now]
          /\ job' = [job EXCEPT ![w].version = now]
          /\ UNCHANGED <<now, status, pc>>
      BY <1>8, <2>1 DEF RenewClaim
    <3>2. Busy(w) /\ job[w].gen \in Generation
      BY <1>8, <1>a, <1>b, JobFields DEF RenewClaim, Engaged, Leasing
    <3>3. job'[w].version = now /\ job'[w].gen = job[w].gen
      BY <3>1, <1>f DEF Job
    <3>4. \A v \in Worker : v # w => job'[v] = job[v]
      BY <3>1, <1>f
    <3>5. \A v \in Worker : v # w /\ Busy(v) /\ job[v].gen = job[w].gen
                               => job[v].version <= now
      BY <2>1, <3>2, <1>a, <1>b, <1>d, JobFields DEF Matches, Versions
    <3>10. Distinct => \A v \in Worker : v # w /\ Busy(v) /\ job[v].gen = job[w].gen
                               => job[v].version < now
      BY <2>1, <3>2, <1>a, <1>b, <1>d, JobFields DEF Matches, Versions, Distinct
    <3>6. Engaged'
      BY <3>1, <3>3, <3>4, <1>b DEF Engaged
    <3>7. Distinct => Distinct'
      BY <3>2, <3>3, <3>4, <3>10, <1>a, <1>b, <1>d, JobFields DEF Distinct
    <3>8. updatedAt'[job[w].gen] = now
          /\ \A h \in Generation : h # job[w].gen => updatedAt'[h] = updatedAt[h]
      BY <3>1, <3>2, <1>a DEF TypeOK
    <3>9. Versions'
      BY <3>1, <3>2, <3>3, <3>4, <3>5, <3>8, <1>a, <1>b, <1>d, JobFields DEF Versions
    <3> QED
      BY <3>6, <3>7, <3>9, <1>a DEF ClaimBase
  <2>2. CASE ~Matches(w)
    <3>1. Calm
      BY <1>8, <2>2, <1>d, <1>f DEF Calm, RenewClaim, Job
    <3>2. Engaged'
      BY <1>8, <2>2, <1>b, <1>f DEF Engaged, RenewClaim, Job
    <3> QED
      BY <3>1, <3>2, <1>c
  <2> QED
    BY <2>1, <2>2
<1>9. ASSUME NEW w \in Worker, RenewError(w) PROVE Kept
  <2>1. \A v \in Worker : job'[v].gen = job[v].gen /\ job'[v].version = job[v].version
    BY <1>9, <1>f DEF RenewError, Job
  <2>2. Engaged' /\ (Distinct => Distinct')
    BY <1>9, <2>1, <1>b DEF RenewError, Engaged, Distinct
  <2>3. \A g \in Generation : updatedAt'[g] \in {updatedAt[g], now}
    BY <1>9, <1>a DEF RenewError, TypeOK
  <2>4. Versions'
    BY <1>9, <2>1, <2>3, <1>a, <1>b, <1>d, JobFields DEF RenewError, Versions
  <2> QED
    BY <2>2, <2>4, <1>a DEF ClaimBase
<1>10. ASSUME NEW w \in Worker, Generate(w) PROVE Kept
  <2>1. Calm
    BY <1>10, <1>a, <1>d, <1>f DEF Calm, Generate, Goto, Job, rowVars, NoJob, TypeOK
  <2>2. Engaged'
    BY <1>10, <1>b, <1>f DEF Engaged, Generate, Goto, Job, NoJob
  <2> QED
    BY <2>1, <2>2, <1>c
<1>11. ASSUME NEW w \in Worker, GenerateError(w) PROVE Kept
  <2>1. Calm
    BY <1>11, <1>a, <1>d, <1>f DEF Calm, GenerateError, Goto, rowVars, NoJob, TypeOK
  <2>2. Engaged'
    BY <1>11, <1>b, <1>f DEF Engaged, GenerateError, Goto, NoJob
  <2> QED
    BY <2>1, <2>2, <1>c
<1>12. ASSUME NEW w \in Worker, StoreGenerated(w) PROVE Kept
  <2>1. Calm
    BY <1>12, <1>a, <1>d, <1>f DEF Calm, StoreGenerated, Job, rowVars, NoJob, TypeOK
  <2>2. Engaged'
    BY <1>12, <1>b, <1>f DEF Engaged, StoreGenerated, Job, NoJob
  <2> QED
    BY <2>1, <2>2, <1>c
<1>13. ASSUME NEW w \in Worker, StoreError(w) PROVE Kept
  <2>1. Calm
    BY <1>13, <1>a, <1>d, <1>f DEF Calm, StoreError, Goto, rowVars, NoJob, TypeOK
  <2>2. Engaged'
    BY <1>13, <1>b, <1>f DEF Engaged, StoreError, Goto, NoJob
  <2> QED
    BY <2>1, <2>2, <1>c
<1>14. ASSUME NEW w \in Worker, StopLease(w) PROVE Kept
  <2>1. Calm
    BY <1>14, <1>a, <1>d, <1>f DEF Calm, StopLease, Goto, rowVars, NoJob, TypeOK
  <2>2. Engaged'
    BY <1>14, <1>b, <1>f DEF Engaged, StopLease, Goto, NoJob
  <2> QED
    BY <2>1, <2>2, <1>c
<1>15. ASSUME NEW w \in Worker, FindClaim(w) PROVE Kept
  <2>1. Calm
    BY <1>15, <1>a, <1>d, <1>f DEF Calm, FindClaim, Goto, rowVars, NoJob, TypeOK
  <2>2. Engaged'
    BY <1>15, <1>b, <1>f DEF Engaged, FindClaim, Goto, NoJob
  <2> QED
    BY <2>1, <2>2, <1>c
<1>16. ASSUME NEW w \in Worker, CompleteClaim(w) PROVE Kept
  <2>1. Calm
    BY <1>16, <1>a, <1>d, <1>f DEF Calm, CompleteClaim, WriteResult, Matches, Finish, Goto, rowVars, NoJob, TypeOK
  <2>2. Engaged'
    BY <1>16, <1>b, <1>f DEF Engaged, CompleteClaim, WriteResult, Matches, Finish, Goto, NoJob
  <2> QED
    BY <2>1, <2>2, <1>c
<1>17. ASSUME NEW w \in Worker, CompleteError(w) PROVE Kept
  <2>1. Calm
    BY <1>17, <1>a, <1>d, <1>f DEF Calm, CompleteError, Goto, rowVars, NoJob, TypeOK
  <2>2. Engaged'
    BY <1>17, <1>b, <1>f DEF Engaged, CompleteError, Goto, NoJob
  <2> QED
    BY <2>1, <2>2, <1>c
<1>18. ASSUME NEW w \in Worker, CommitReplyLost(w) PROVE Kept
  <2>1. Calm
    BY <1>18, <1>a, <1>d, <1>f DEF Calm, CommitReplyLost, WriteResult, Matches, Goto, rowVars, NoJob, TypeOK
  <2>2. Engaged'
    BY <1>18, <1>b, <1>f DEF Engaged, CommitReplyLost, WriteResult, Matches, Goto, NoJob
  <2> QED
    BY <2>1, <2>2, <1>c
<1>19. ASSUME NEW w \in Worker, Discard(w) PROVE Kept
  <2>1. Calm
    BY <1>19, <1>a, <1>d, <1>f DEF Calm, Discard, Finish, Goto, rowVars, NoJob, TypeOK
  <2>2. Engaged'
    BY <1>19, <1>b, <1>f DEF Engaged, Discard, Finish, Goto, NoJob
  <2> QED
    BY <2>1, <2>2, <1>c
<1>20. ASSUME NEW w \in Worker, Cleanup(w) PROVE Kept
  <2>1. Calm
    BY <1>20, <1>a, <1>d, <1>f DEF Calm, Cleanup, Finish, Goto, rowVars, NoJob, TypeOK
  <2>2. Engaged'
    BY <1>20, <1>b, <1>f DEF Engaged, Cleanup, Finish, Goto, NoJob
  <2> QED
    BY <2>1, <2>2, <1>c
<1>21. ASSUME NEW w \in Worker, FailClaim(w) PROVE Kept
  <2>1. Calm
    BY <1>21, <1>a, <1>d, <1>f DEF Calm, FailClaim, Matches, Finish, rowVars, NoJob, TypeOK
  <2>2. Engaged'
    BY <1>21, <1>b, <1>f DEF Engaged, FailClaim, Matches, Finish, NoJob
  <2> QED
    BY <2>1, <2>2, <1>c
<1>22. ASSUME NEW w \in Worker, FailError(w) PROVE Kept
  <2>1. Calm
    BY <1>22, <1>a, <1>d, <1>f DEF Calm, FailError, Finish, rowVars, NoJob, TypeOK
  <2>2. Engaged'
    BY <1>22, <1>b, <1>f DEF Engaged, FailError, Finish, NoJob
  <2> QED
    BY <2>1, <2>2, <1>c
<1>23. ASSUME UNCHANGED vars PROVE Kept
  BY <1>23, <1>a, <1>b DEF vars, ClaimBase, Engaged, Versions, Distinct, TypeOK
<1> QED
  BY <1>1, <1>2, <1>3, <1>4, <1>5, <1>6, <1>7, <1>8, <1>9, <1>10, <1>11,
     <1>12, <1>13, <1>14, <1>15, <1>16, <1>17, <1>18, <1>19, <1>20, <1>21,
     <1>22, <1>23 DEF Next, Process, Disturb

LEMMA ClaimStep == ClaimInv /\ [Next]_vars => ClaimInv'
BY BaseStep DEF ClaimInv, ClaimBase

LEMMA InitClaim == Init => ClaimInv
BY WorkerAssumptions, NoJobType
DEF Init, ClaimInv, TypeOK, Time, Status, Phase, Engaged, Versions, Distinct,
    Busy, NoJob

LEMMA ClaimInvariant == Spec => []ClaimInv
BY InitClaim, ClaimStep, PTL DEF Spec

\* At no time do two workers hold the current claim of one generation, for any
\* number of workers and any pattern of stalls, crashes and lost answers, as
\* long as application and database clocks differ by no more than the lease.
THEOREM OneOwner == Spec => []UniqueOwner
<1>1. ClaimInv => UniqueOwner
  <2> SUFFICES ASSUME ClaimInv, NEW g \in Generation, NEW v \in Worker, NEW w \in Worker,
                      Owns(v, g), Owns(w, g)
               PROVE  v = w
    BY DEF UniqueOwner
  <2>1. Busy(v) /\ job[v].gen = job[w].gen /\ job[v].version = job[w].version
    BY WorkerAssumptions DEF Owns, Matches, Busy
  <2> QED
    BY <2>1 DEF ClaimInv, Distinct
<1> QED
  BY <1>1, ClaimInvariant, PTL

-----------------------------------------------------------------------------
(* Results *)

\* A worker that goes to complete a claim has stored at least one file.
Collected ==
  \A w \in Worker :
    /\ pc[w] = "storing" => job[w].outputs # 0
    /\ pc[w] \in {"completing", "committing"} => job[w].keys # {}

ResultInv == ClaimInv /\ Collected /\ OneResult

\* Keys belong to one attempt, are not linked before the attempt commits, and
\* their files exist until then.
Attempts ==
  /\ \A v, w \in Worker : v # w => job[v].keys \cap job[w].keys = {}
  /\ \A w \in Worker, g \in Generation : job[w].keys \cap result[g] = {}
  /\ \A w \in Worker :
       pc[w] \in {"generating", "storing", "completing", "committing"} =>
         job[w].keys \subseteq files

FileInv == ResultInv /\ Attempts /\ ResultsReadable

\* Outside of an attempt a worker holds no key, and what the catch clause gave
\* up is deleted before the claim is failed.
Released ==
  \A w \in Worker :
    /\ pc[w] \in {"stopped", "idle", "rejecting", "generating"} => job[w].keys = {}
    /\ pc[w] = "failing" => job[w].keys \cap files = {}

LEMMA EmptyCardinality == Cardinality({}) = 0
BY FS_EmptySet

\* A step that writes no result and completes nothing keeps OneResult.
LEMMA NoResultWritten ==
  ASSUME OneResult, UNCHANGED resultVars,
         \A g \in Generation : status'[g] = "completed" <=> status[g] = "completed"
  PROVE  OneResult'
BY DEF OneResult, resultVars

\* The completing transaction of a row that is still being processed.
LEMMA ResultWritten ==
  ASSUME TypeOK, OneResult, NEW g \in Generation, NEW media \in (SUBSET Key) \ {{}},
         status[g] = "processing", WriteResult(g, media)
  PROVE  OneResult'
<1> USE DEF TypeOK, WriteResult, OneResult
<1>1. ASSUME NEW h \in Generation, h # g
      PROVE  /\ status'[h] = status[h] /\ messages'[h] = messages[h]
             /\ result'[h] = result[h] /\ chatResult'[h] = chatResult[h]
  BY <1>1
<1>2. /\ status'[g] = "completed" /\ messages'[g] = {media} /\ result'[g] = media
      /\ chatResult'[g] = IF g \in ChatTriggered THEN media ELSE {}
  OBVIOUS
<1>3. ASSUME NEW h \in Generation
      PROVE  /\ IF status'[h] = "completed"
                THEN result'[h] # {} /\ messages'[h] = {result'[h]}
                ELSE result'[h] = {} /\ messages'[h] = {}
             /\ chatResult'[h] = IF h \in ChatTriggered THEN result'[h] ELSE {}
  <2> HIDE DEF TypeOK, WriteResult
  <2>1. CASE h = g
    BY <1>2, <2>1
  <2>2. CASE h # g
    BY <1>1, <2>2
  <2> QED
    BY <2>1, <2>2
<1> QED
  BY <1>3

\* The step lemma of ResultInv.
LEMMA ResultStep == ResultInv /\ [Next]_vars => ResultInv'
<1> SUFFICES ASSUME ResultInv, [Next]_vars PROVE ResultInv'
  OBVIOUS
<1> DEFINE Goal == Collected' /\ OneResult'
<1> HIDE DEF Goal
<1>a. TypeOK /\ TypeOK' /\ ClaimInv /\ ClaimInv' /\ Engaged
  BY TypeStep, ClaimStep DEF ResultInv, ClaimInv
<1>b. Collected /\ OneResult
  BY DEF ResultInv
<1>c. ASSUME Goal PROVE ResultInv'
  BY <1>a, <1>c DEF ResultInv, Goal
<1>f. /\ pc \in [Worker -> Phase] /\ job \in [Worker -> Job]
      /\ status \in [Generation -> Status]
  BY <1>a DEF TypeOK
<1>g. \A w \in Worker : pc[w] \notin {"stopped", "idle"} => job[w].gen \in Generation
  BY <1>a, JobFields DEF Engaged
<1>1. ASSUME Tick PROVE Goal
  <2>1. Collected'
    BY <1>1, <1>b, <1>f DEF Collected, Tick, rowVars
  <2>2. OneResult'
    BY <1>1, <1>b, <1>f, NoResultWritten DEF Tick, rowVars
  <2> QED
    BY <2>1, <2>2 DEF Goal
<1>2. ASSUME NEW g \in Generation, Submit(g) PROVE Goal
  <2>1. Collected'
    BY <1>2, <1>b, <1>f DEF Collected, Submit
  <2>2. OneResult'
    BY <1>2, <1>b, <1>f, NoResultWritten DEF Submit
  <2> QED
    BY <2>1, <2>2 DEF Goal
<1>3. ASSUME NEW w \in Worker, Start(w) PROVE Goal
  <2>1. Collected'
    BY <1>3, <1>b, <1>f DEF Collected, Start, Goto, rowVars
  <2>2. OneResult'
    BY <1>3, <1>b, <1>f, NoResultWritten DEF Start, Goto, rowVars
  <2> QED
    BY <2>1, <2>2 DEF Goal
<1>4. ASSUME NEW w \in Worker, Stop(w) PROVE Goal
  <2>1. Collected'
    BY <1>4, <1>b, <1>f DEF Collected, Stop, rowVars
  <2>2. OneResult'
    BY <1>4, <1>b, <1>f, NoResultWritten DEF Stop, rowVars
  <2> QED
    BY <2>1, <2>2 DEF Goal
<1>5. ASSUME NEW w \in Worker, Crash(w) PROVE Goal
  <2>1. Collected'
    BY <1>5, <1>b, <1>f DEF Collected, Crash, Goto, NoJob, rowVars
  <2>2. OneResult'
    BY <1>5, <1>b, <1>f, NoResultWritten DEF Crash, Goto, NoJob, rowVars
  <2> QED
    BY <2>1, <2>2 DEF Goal
<1>6. ASSUME NEW w \in Worker, ClaimNext(w) PROVE Goal
  <2> PICK g \in Generation : Take(g) /\ status[g] \in {"pending", "processing"}
    BY <1>6 DEF ClaimNext, Candidates, Oldest, Rows
  <2>1. Collected'
    BY <1>6, <1>b, <1>f DEF Collected, ClaimNext, Claimed, Goto
  <2>2. OneResult'
    BY <1>6, <1>b, <1>f, NoResultWritten DEF ClaimNext, Take
  <2> QED
    BY <2>1, <2>2 DEF Goal
<1>7. ASSUME NEW w \in Worker, ClaimReplyLost(w) PROVE Goal
  <2> PICK g \in Generation : Take(g) /\ status[g] \in {"pending", "processing"}
    BY <1>7 DEF ClaimReplyLost, Candidates, Oldest, Rows
  <2>1. Collected'
    BY <1>7, <1>b DEF Collected, ClaimReplyLost
  <2>2. OneResult'
    BY <1>7, <1>b, <1>f, NoResultWritten DEF ClaimReplyLost, Take
  <2> QED
    BY <2>1, <2>2 DEF Goal
<1>8. ASSUME NEW w \in Worker, RenewClaim(w) PROVE Goal
  <2>1. Collected'
    BY <1>8, <1>b, <1>f DEF Collected, RenewClaim, Job
  <2>2. OneResult'
    BY <1>8, <1>b, <1>f, NoResultWritten DEF RenewClaim, Job
  <2> QED
    BY <2>1, <2>2 DEF Goal
<1>9. ASSUME NEW w \in Worker, RenewError(w) PROVE Goal
  <2>1. Collected'
    BY <1>9, <1>b, <1>f DEF Collected, RenewError, Job
  <2>2. OneResult'
    BY <1>9, <1>b, <1>f, NoResultWritten DEF RenewError, Job
  <2> QED
    BY <2>1, <2>2 DEF Goal
<1>10. ASSUME NEW w \in Worker, Generate(w) PROVE Goal
  <2>1. Collected'
    BY <1>10, <1>b, <1>f DEF Collected, Generate, Goto, Job, rowVars
  <2>2. OneResult'
    BY <1>10, <1>b, <1>f, NoResultWritten DEF Generate, Goto, Job, rowVars
  <2> QED
    BY <2>1, <2>2 DEF Goal
<1>11. ASSUME NEW w \in Worker, GenerateError(w) PROVE Goal
  <2>1. Collected'
    BY <1>11, <1>b, <1>f DEF Collected, GenerateError, Goto, rowVars
  <2>2. OneResult'
    BY <1>11, <1>b, <1>f, NoResultWritten DEF GenerateError, Goto, rowVars
  <2> QED
    BY <2>1, <2>2 DEF Goal
<1>12. ASSUME NEW w \in Worker, StoreGenerated(w) PROVE Goal
  <2>1. Collected'
    BY <1>12, <1>b, <1>f DEF Collected, StoreGenerated, Job, rowVars
  <2>2. OneResult'
    BY <1>12, <1>b, <1>f, NoResultWritten DEF StoreGenerated, Job, rowVars
  <2> QED
    BY <2>1, <2>2 DEF Goal
<1>13. ASSUME NEW w \in Worker, StoreError(w) PROVE Goal
  <2>1. Collected'
    BY <1>13, <1>b, <1>f DEF Collected, StoreError, Goto, rowVars
  <2>2. OneResult'
    BY <1>13, <1>b, <1>f, NoResultWritten DEF StoreError, Goto, rowVars
  <2> QED
    BY <2>1, <2>2 DEF Goal
<1>14. ASSUME NEW w \in Worker, StopLease(w) PROVE Goal
  <2>1. job[w].keys # {}
    BY <1>14, <1>b, EmptyCardinality DEF StopLease, Collected
  <2>2. Collected'
    BY <1>14, <2>1, <1>b, <1>f DEF Collected, StopLease, Goto
  <2>3. OneResult'
    BY <1>14, <1>b, NoResultWritten DEF StopLease, rowVars
  <2> QED
    BY <2>2, <2>3 DEF Goal
<1>15. ASSUME NEW w \in Worker, FindClaim(w) PROVE Goal
  <2>1. Collected'
    BY <1>15, <1>b, <1>f DEF Collected, FindClaim, Goto, rowVars
  <2>2. OneResult'
    BY <1>15, <1>b, <1>f, NoResultWritten DEF FindClaim, Goto, rowVars
  <2> QED
    BY <2>1, <2>2 DEF Goal
<1>16. ASSUME NEW w \in Worker, CompleteClaim(w) PROVE Goal
  <2>1. job[w].keys \in (SUBSET Key) \ {{}} /\ job[w].gen \in Generation
    <3>1. job[w].keys \in SUBSET Key
      BY <1>f DEF Job
    <3>2. pc[w] = "committing"
      BY <1>16 DEF CompleteClaim
    <3> QED
      BY <3>1, <3>2, <1>b, <1>g DEF Collected
  <2>2. CASE Matches(w)
    <3>1. WriteResult(job[w].gen, job[w].keys) /\ status[job[w].gen] = "processing"
      BY <1>16, <2>2 DEF CompleteClaim, Matches
    <3>2. OneResult'
      BY <3>1, <2>1, <1>a, <1>b, ResultWritten
    <3>3. Collected'
      BY <1>16, <2>2, <1>b, <1>f DEF Collected, CompleteClaim, Finish, NoJob
    <3> QED
      BY <3>2, <3>3 DEF Goal
  <2>3. CASE ~Matches(w)
    <3>1. Collected'
      BY <1>16, <2>3, <1>b, <1>f DEF Collected, CompleteClaim, Goto
    <3>2. OneResult'
      BY <1>16, <2>3, <1>b, NoResultWritten DEF CompleteClaim, rowVars
    <3> QED
      BY <3>1, <3>2 DEF Goal
  <2> QED
    BY <2>2, <2>3
<1>17. ASSUME NEW w \in Worker, CompleteError(w) PROVE Goal
  <2>1. Collected'
    BY <1>17, <1>b, <1>f DEF Collected, CompleteError, Goto, rowVars
  <2>2. OneResult'
    BY <1>17, <1>b, <1>f, NoResultWritten DEF CompleteError, Goto, rowVars
  <2> QED
    BY <2>1, <2>2 DEF Goal
<1>18. ASSUME NEW w \in Worker, CommitReplyLost(w) PROVE Goal
  <2>1. job[w].keys \in (SUBSET Key) \ {{}} /\ job[w].gen \in Generation
    <3>1. job[w].keys \in SUBSET Key
      BY <1>f DEF Job
    <3>2. pc[w] = "committing"
      BY <1>18 DEF CommitReplyLost
    <3> QED
      BY <3>1, <3>2, <1>b, <1>g DEF Collected
  <2>2. CASE Matches(w)
    <3>1. WriteResult(job[w].gen, job[w].keys) /\ status[job[w].gen] = "processing"
      BY <1>18, <2>2 DEF CommitReplyLost, Matches
    <3>2. OneResult'
      BY <3>1, <2>1, <1>a, <1>b, ResultWritten
    <3>3. Collected'
      BY <1>18, <2>2, <1>b, <1>f DEF Collected, CommitReplyLost, Goto
    <3> QED
      BY <3>2, <3>3 DEF Goal
  <2> QED
    BY <1>18, <2>2 DEF CommitReplyLost
<1>19. ASSUME NEW w \in Worker, Discard(w) PROVE Goal
  <2>1. Collected'
    BY <1>19, <1>b, <1>f DEF Collected, Discard, Goto, Finish, NoJob, rowVars
  <2>2. OneResult'
    BY <1>19, <1>b, <1>f, NoResultWritten DEF Discard, Goto, Finish, NoJob, rowVars
  <2> QED
    BY <2>1, <2>2 DEF Goal
<1>20. ASSUME NEW w \in Worker, Cleanup(w) PROVE Goal
  <2>1. Collected'
    BY <1>20, <1>b, <1>f DEF Collected, Cleanup, Goto, Finish, NoJob, rowVars
  <2>2. OneResult'
    BY <1>20, <1>b, <1>f, NoResultWritten DEF Cleanup, Goto, Finish, NoJob, rowVars
  <2> QED
    BY <2>1, <2>2 DEF Goal
<1>21. ASSUME NEW w \in Worker, FailClaim(w) PROVE Goal
  <2>1. Collected'
    BY <1>21, <1>b, <1>f DEF Collected, FailClaim, Finish, NoJob, Matches
  <2>2. OneResult'
    BY <1>21, <1>b, <1>f, NoResultWritten DEF FailClaim, Finish, NoJob, Matches
  <2> QED
    BY <2>1, <2>2 DEF Goal
<1>22. ASSUME NEW w \in Worker, FailError(w) PROVE Goal
  <2>1. Collected'
    BY <1>22, <1>b, <1>f DEF Collected, FailError, Finish, NoJob, rowVars
  <2>2. OneResult'
    BY <1>22, <1>b, <1>f, NoResultWritten DEF FailError, Finish, NoJob, rowVars
  <2> QED
    BY <2>1, <2>2 DEF Goal
<1>23. ASSUME UNCHANGED vars PROVE Goal
  BY <1>23, <1>b DEF vars, Collected, OneResult, Goal
<1> QED
  BY <1>c, <1>1, <1>2, <1>3, <1>4, <1>5, <1>6, <1>7, <1>8, <1>9, <1>10, <1>11,
     <1>12, <1>13, <1>14, <1>15, <1>16, <1>17, <1>18, <1>19, <1>20, <1>21,
     <1>22, <1>23 DEF Next, Process, Disturb

LEMMA ResultInvariant == Spec => []ResultInv
<1>1. Init => ResultInv
  <2> SUFFICES ASSUME Init PROVE ResultInv
    OBVIOUS
  <2>1. ClaimInv
    BY InitClaim
  <2>2. Collected /\ OneResult
    BY DEF Init, Collected, OneResult
  <2> QED
    BY <2>1, <2>2 DEF ResultInv
<1> QED
  BY <1>1, ResultStep, PTL DEF Spec

\* However many workers process one generation at the same time, one assistant
\* message at most results from it, and generation and chat run agree on it.
THEOREM OneResultAlways == Spec => []OneResult
<1>1. ResultInv => OneResult
  BY DEF ResultInv
<1> QED
  BY <1>1, ResultInvariant, PTL
-----------------------------------------------------------------------------
(* Files *)

\* The phases in which a worker relies on the files it stored.
Relying == {"generating", "storing", "completing", "committing"}

\* A step that writes neither files nor results, and in which no worker gets
\* keys or starts to rely on the ones it has.
Undisturbed ==
  /\ UNCHANGED <<files, result>>
  /\ \A w \in Worker :
       \/ job'[w].keys = {}
       \/ job'[w].keys = job[w].keys /\ (pc'[w] \in Relying => pc[w] \in Relying)

LEMMA UndisturbedStep ==
  ASSUME Attempts, ResultsReadable, Undisturbed
  PROVE  Attempts' /\ ResultsReadable'
<1>1. Attempts'
  BY DEF Attempts, Undisturbed, Relying
<1>2. ResultsReadable'
  BY DEF ResultsReadable, Undisturbed
<1> QED
  BY <1>1, <1>2

\* Deleting keys of one's own attempt harms neither a result nor an attempt of
\* another worker.
LEMMA DeletionStep ==
  ASSUME Attempts, ResultsReadable, NEW w \in Worker, NEW kept,
         UNCHANGED result,
         files' = files \ (job[w].keys \ kept),
         pc'[w] \notin Relying, job'[w].keys = {} \/ job'[w].keys = job[w].keys,
         \A v \in Worker : v # w => job'[v] = job[v] /\ pc'[v] = pc[v]
  PROVE  Attempts' /\ ResultsReadable'
<1>1. \A g \in Generation : result'[g] \subseteq files'
  BY DEF Attempts, ResultsReadable
<1>2. \A v \in Worker : pc'[v] \in Relying => job'[v].keys \subseteq files'
  <2> SUFFICES ASSUME NEW v \in Worker, pc'[v] \in Relying
               PROVE  job'[v].keys \subseteq files'
    OBVIOUS
  <2>1. v # w /\ job'[v] = job[v] /\ pc'[v] = pc[v]
    OBVIOUS
  <2>2. job[v].keys \subseteq files /\ job[v].keys \cap job[w].keys = {}
    BY <2>1 DEF Attempts, Relying
  <2> QED
    BY <2>1, <2>2
<1>3. \A u, v \in Worker : u # v => job'[u].keys \cap job'[v].keys = {}
  BY DEF Attempts
<1>4. \A v \in Worker, g \in Generation : job'[v].keys \cap result'[g] = {}
  BY DEF Attempts
<1> QED
  BY <1>1, <1>2, <1>3, <1>4 DEF Attempts, ResultsReadable, Relying

\* The step lemma of FileInv, for commits whose answer always arrives.
LEMMA FileStep ==
  ASSUME "commit" \notin Faults, FileInv, [Next]_vars
  PROVE  FileInv'
<1> DEFINE Goal == Attempts' /\ ResultsReadable'
<1> HIDE DEF Goal
<1>a. ResultInv /\ ResultInv' /\ TypeOK /\ TypeOK' /\ Engaged /\ OneResult
  BY ResultStep, TypeStep DEF FileInv, ResultInv, ClaimInv
<1>b. Attempts /\ ResultsReadable
  BY DEF FileInv
<1>c. ASSUME Goal PROVE FileInv'
  BY <1>a, <1>c DEF FileInv, Goal
<1>d. ASSUME Undisturbed PROVE Goal
  BY <1>b, <1>d, UndisturbedStep DEF Goal
<1>f. pc \in [Worker -> Phase] /\ job \in [Worker -> Job]
  BY <1>a DEF TypeOK
<1>1. ASSUME Tick PROVE Goal
  BY <1>1, <1>d, <1>f DEF Undisturbed, Relying, resultVars, Tick
<1>2. ASSUME NEW g \in Generation, Submit(g) PROVE Goal
  BY <1>2, <1>d, <1>f DEF Undisturbed, Relying, resultVars, Submit
<1>3. ASSUME NEW w \in Worker, Start(w) PROVE Goal
  BY <1>3, <1>d, <1>f DEF Undisturbed, Relying, resultVars, Start, Goto
<1>4. ASSUME NEW w \in Worker, Stop(w) PROVE Goal
  BY <1>4, <1>d, <1>f DEF Undisturbed, Relying, resultVars, Stop
<1>5. ASSUME NEW w \in Worker, Crash(w) PROVE Goal
  BY <1>5, <1>d, <1>f DEF Undisturbed, Relying, resultVars, Crash, Goto, NoJob
<1>6. ASSUME NEW w \in Worker, ClaimNext(w) PROVE Goal
  <2>1. \E g \in Generation : job' = [job EXCEPT ![w] = [NoJob EXCEPT !.gen = g, !.version = now]]
    BY <1>6 DEF ClaimNext, Candidates, Oldest, Rows
  <2>2. job'[w].keys = {} /\ \A v \in Worker : v # w => job'[v] = job[v] /\ pc'[v] = pc[v]
    BY <1>6, <2>1, <1>f DEF NoJob, ClaimNext, Goto
  <2> QED
    BY <1>6, <2>2, <1>d DEF Undisturbed, resultVars, ClaimNext
<1>7. ASSUME NEW w \in Worker, ClaimReplyLost(w) PROVE Goal
  BY <1>7, <1>d, <1>f DEF Undisturbed, Relying, resultVars, ClaimReplyLost
<1>8. ASSUME NEW w \in Worker, RenewClaim(w) PROVE Goal
  BY <1>8, <1>d, <1>f DEF Undisturbed, Relying, resultVars, RenewClaim, Job
<1>9. ASSUME NEW w \in Worker, RenewError(w) PROVE Goal
  BY <1>9, <1>d, <1>f DEF Undisturbed, Relying, resultVars, RenewError, Job
<1>10. ASSUME NEW w \in Worker, Generate(w) PROVE Goal
  BY <1>10, <1>d, <1>f DEF Undisturbed, Relying, resultVars, Generate, Goto, Job
<1>11. ASSUME NEW w \in Worker, GenerateError(w) PROVE Goal
  BY <1>11, <1>d, <1>f DEF Undisturbed, Relying, resultVars, GenerateError, Goto
<1>12. ASSUME NEW w \in Worker, StoreGenerated(w) PROVE Goal
  <2> PICK k \in Key \ (files \cup Linked \cup Held) :
        /\ files' = files \cup {k}
        /\ job' = [job EXCEPT ![w].keys = @ \cup {k}]
    BY <1>12 DEF StoreGenerated
  <2>1. /\ job'[w].keys = job[w].keys \cup {k}
        /\ \A v \in Worker : v # w => job'[v] = job[v]
        /\ pc' = pc /\ result' = result /\ pc[w] = "storing"
    BY <1>12, <1>f DEF StoreGenerated, resultVars, Job
  <2>2. \A v \in Worker : k \notin job[v].keys
    BY DEF Held
  <2>3. \A g \in Generation : k \notin result[g]
    BY <1>a DEF Linked, OneResult
  <2>4. Attempts'
    BY <2>1, <2>2, <2>3, <1>b DEF Attempts
  <2>5. ResultsReadable'
    BY <2>1, <1>b DEF ResultsReadable
  <2> QED
    BY <2>4, <2>5 DEF Goal
<1>13. ASSUME NEW w \in Worker, StoreError(w) PROVE Goal
  BY <1>13, <1>d, <1>f DEF Undisturbed, Relying, resultVars, StoreError, Goto
<1>14. ASSUME NEW w \in Worker, StopLease(w) PROVE Goal
  BY <1>14, <1>d, <1>f DEF Undisturbed, Relying, resultVars, StopLease, Goto
<1>15. ASSUME NEW w \in Worker, FindClaim(w) PROVE Goal
  BY <1>15, <1>d, <1>f DEF Undisturbed, Relying, resultVars, FindClaim, Goto
<1>16. ASSUME NEW w \in Worker, CompleteClaim(w) PROVE Goal
  <2>1. CASE Matches(w)
    <3>1. /\ result' = [result EXCEPT ![job[w].gen] = job[w].keys]
          /\ pc'[w] \notin Relying /\ job'[w].keys = {} /\ files' = files
          /\ \A v \in Worker : v # w => job'[v] = job[v] /\ pc'[v] = pc[v]
      BY <1>16, <2>1, <1>f DEF CompleteClaim, WriteResult, Finish, NoJob, Relying
    <3>2. \A g \in Generation : result'[g] \in {result[g], job[w].keys}
      BY <3>1, <1>a DEF TypeOK
    <3>3. job[w].keys \subseteq files
      BY <1>16, <1>b DEF CompleteClaim, Attempts
    <3>4. ResultsReadable'
      BY <3>1, <3>2, <3>3, <1>b DEF ResultsReadable
    <3>5. \A v \in Worker, g \in Generation : job'[v].keys \cap result'[g] = {}
      BY <3>1, <3>2, <1>b DEF Attempts
    <3>6. Attempts'
      BY <3>1, <3>5, <1>b DEF Attempts, Relying
    <3> QED
      BY <3>4, <3>6 DEF Goal
  <2>2. CASE ~Matches(w)
    BY <1>16, <2>2, <1>d, <1>f DEF Undisturbed, Relying, CompleteClaim, Goto, resultVars
  <2> QED
    BY <2>1, <2>2
<1>17. ASSUME NEW w \in Worker, CompleteError(w) PROVE Goal
  BY <1>17, <1>d, <1>f DEF Undisturbed, Relying, resultVars, CompleteError, Goto
<1>18. ASSUME NEW w \in Worker, CommitReplyLost(w) PROVE Goal
  BY <1>18 DEF CommitReplyLost, Fault
<1>19. ASSUME NEW w \in Worker, Discard(w) PROVE Goal
  <2> PICK kept \in SUBSET job[w].keys : files' = files \ (job[w].keys \ kept)
    BY <1>19 DEF Discard, DeleteStoredMedia
  <2>1. /\ pc'[w] \notin Relying /\ (job'[w].keys = {} \/ job'[w].keys = job[w].keys)
        /\ \A v \in Worker : v # w => job'[v] = job[v] /\ pc'[v] = pc[v]
        /\ UNCHANGED result
    BY <1>19, <1>f DEF Discard, Finish, Goto, NoJob, Relying, resultVars
  <2> QED
    BY <2>1, <1>b, DeletionStep DEF Goal
<1>20. ASSUME NEW w \in Worker, Cleanup(w) PROVE Goal
  <2> PICK kept \in SUBSET job[w].keys : files' = files \ (job[w].keys \ kept)
    BY <1>20 DEF Cleanup, DeleteStoredMedia
  <2>1. /\ pc'[w] \notin Relying /\ (job'[w].keys = {} \/ job'[w].keys = job[w].keys)
        /\ \A v \in Worker : v # w => job'[v] = job[v] /\ pc'[v] = pc[v]
        /\ UNCHANGED result
    BY <1>20, <1>f DEF Cleanup, Finish, Goto, NoJob, Relying, resultVars
  <2> QED
    BY <2>1, <1>b, DeletionStep DEF Goal
<1>21. ASSUME NEW w \in Worker, FailClaim(w) PROVE Goal
  BY <1>21, <1>d, <1>f DEF Undisturbed, Relying, resultVars, FailClaim, Finish, NoJob
<1>22. ASSUME NEW w \in Worker, FailError(w) PROVE Goal
  BY <1>22, <1>d, <1>f DEF Undisturbed, Relying, resultVars, FailError, Finish, NoJob
<1>23. ASSUME UNCHANGED vars PROVE Goal
  BY <1>23, <1>d DEF vars, Undisturbed
<1> QED
  BY <1>c, <1>1, <1>2, <1>3, <1>4, <1>5, <1>6, <1>7, <1>8, <1>9, <1>10, <1>11,
     <1>12, <1>13, <1>14, <1>15, <1>16, <1>17, <1>18, <1>19, <1>20, <1>21,
     <1>22, <1>23 DEF Next, Process, Disturb

\* If every commit is answered, the media of every result stay readable: no
\* worker ever deletes a file that a message links to.
THEOREM ReadableResults ==
  ASSUME "commit" \notin Faults
  PROVE  Spec => []ResultsReadable
<1>1. Init => FileInv
  <2> SUFFICES ASSUME Init PROVE FileInv
    OBVIOUS
  <2>1. ClaimInv
    BY InitClaim
  <2>2. Collected /\ OneResult /\ Attempts /\ ResultsReadable
    BY DEF Init, Collected, OneResult, Attempts, ResultsReadable, NoJob
  <2> QED
    BY <2>1, <2>2 DEF FileInv, ResultInv
<1>2. FileInv /\ [Next]_vars => FileInv'
  BY FileStep
<1>3. FileInv => ResultsReadable
  BY DEF FileInv
<1> QED
  BY <1>1, <1>2, <1>3, PTL DEF Spec
-----------------------------------------------------------------------------
(* Orphans *)

\* The failures that leave files behind by their nature do not happen.
Careful == Faults \cap {"crash", "unlink"} = {}

\* Nothing becomes an orphan in a step that adds no file, unlinks none, and in
\* which a worker only lets go of keys that are linked or have no file.
LEMMA NoOrphanStep ==
  ASSUME files \subseteq Linked \cup Held,
         files' \subseteq files,
         \A g \in Generation : messages[g] \subseteq messages'[g],
         \A w \in Worker : \A k \in job[w].keys \cap files' :
           k \in job'[w].keys \/ k \in Linked'
  PROVE  files' \subseteq Linked' \cup Held'
<1> SUFFICES ASSUME NEW k \in files', k \notin Linked' PROVE k \in Held'
  OBVIOUS
<1>1. k \notin Linked
  BY DEF Linked
<1>2. PICK w \in Worker : k \in job[w].keys
  BY <1>1 DEF Held
<1> QED
  BY <1>2 DEF Held

\* The step lemma of Released and NoOrphanedFiles.
LEMMA OrphanStep ==
  ASSUME Careful, ClaimInv, Released, files \subseteq Linked \cup Held, [Next]_vars
  PROVE  Released' /\ files' \subseteq Linked' \cup Held'
<1> DEFINE Goal == Released' /\ files' \subseteq Linked' \cup Held'
<1> HIDE DEF Goal
<1>a. TypeOK /\ Engaged
  BY DEF ClaimInv
<1>f. pc \in [Worker -> Phase] /\ job \in [Worker -> Job]
  BY <1>a DEF TypeOK
<1>m. ASSUME UNCHANGED messages
      PROVE  \A g \in Generation : messages[g] \subseteq messages'[g]
  BY <1>m
<1>1. ASSUME Tick PROVE Goal
  <2>1. Released'
    BY <1>1, <1>f DEF Released, resultVars, Tick
  <2>2. /\ files' = files /\ UNCHANGED messages
        /\ \A v \in Worker : \A k \in job[v].keys \cap files : k \in job'[v].keys
    BY <1>1, <1>f DEF Released, resultVars, Tick
  <2> QED
    BY <2>1, <2>2, <1>m, NoOrphanStep DEF Goal
<1>2. ASSUME NEW g \in Generation, Submit(g) PROVE Goal
  <2>1. Released'
    BY <1>2, <1>f DEF Released, resultVars, Submit
  <2>2. /\ files' = files /\ UNCHANGED messages
        /\ \A v \in Worker : \A k \in job[v].keys \cap files : k \in job'[v].keys
    BY <1>2, <1>f DEF Released, resultVars, Submit
  <2> QED
    BY <2>1, <2>2, <1>m, NoOrphanStep DEF Goal
<1>3. ASSUME NEW w \in Worker, Start(w) PROVE Goal
  <2>1. Released'
    BY <1>3, <1>f DEF Released, resultVars, Start, Goto
  <2>2. /\ files' = files /\ UNCHANGED messages
        /\ \A v \in Worker : \A k \in job[v].keys \cap files : k \in job'[v].keys
    BY <1>3, <1>f DEF Released, resultVars, Start, Goto
  <2> QED
    BY <2>1, <2>2, <1>m, NoOrphanStep DEF Goal
<1>4. ASSUME NEW w \in Worker, Stop(w) PROVE Goal
  <2>1. Released'
    BY <1>4, <1>f DEF Released, resultVars, Stop
  <2>2. /\ files' = files /\ UNCHANGED messages
        /\ \A v \in Worker : \A k \in job[v].keys \cap files : k \in job'[v].keys
    BY <1>4, <1>f DEF Released, resultVars, Stop
  <2> QED
    BY <2>1, <2>2, <1>m, NoOrphanStep DEF Goal
<1>5. ASSUME NEW w \in Worker, Crash(w) PROVE Goal
  BY <1>5 DEF Crash, Fault, Careful
<1>6. ASSUME NEW w \in Worker, ClaimNext(w) PROVE Goal
  <2>1. \E g \in Generation : job' = [job EXCEPT ![w] = [NoJob EXCEPT !.gen = g, !.version = now]]
    BY <1>6 DEF ClaimNext, Candidates, Oldest, Rows
  <2>2. /\ job'[w].keys = {} /\ job[w].keys = {} /\ pc'[w] # "failing"
        /\ \A v \in Worker : v # w => job'[v] = job[v] /\ pc'[v] = pc[v]
    BY <1>6, <2>1, <1>f DEF NoJob, ClaimNext, Claimed, Goto, Released
  <2>3. files' = files /\ UNCHANGED messages
    BY <1>6 DEF ClaimNext, resultVars
  <2>4. Released'
    BY <2>2, <2>3 DEF Released
  <2> QED
    BY <2>2, <2>3, <2>4, <1>m, NoOrphanStep DEF Goal
<1>7. ASSUME NEW w \in Worker, ClaimReplyLost(w) PROVE Goal
  <2>1. Released'
    BY <1>7, <1>f DEF Released, resultVars, ClaimReplyLost
  <2>2. /\ files' = files /\ UNCHANGED messages
        /\ \A v \in Worker : \A k \in job[v].keys \cap files : k \in job'[v].keys
    BY <1>7, <1>f DEF Released, resultVars, ClaimReplyLost
  <2> QED
    BY <2>1, <2>2, <1>m, NoOrphanStep DEF Goal
<1>8. ASSUME NEW w \in Worker, RenewClaim(w) PROVE Goal
  <2>1. Released'
    BY <1>8, <1>f DEF Released, resultVars, RenewClaim, Job
  <2>2. /\ files' = files /\ UNCHANGED messages
        /\ \A v \in Worker : \A k \in job[v].keys \cap files : k \in job'[v].keys
    BY <1>8, <1>f DEF Released, resultVars, RenewClaim, Job
  <2> QED
    BY <2>1, <2>2, <1>m, NoOrphanStep DEF Goal
<1>9. ASSUME NEW w \in Worker, RenewError(w) PROVE Goal
  <2>1. Released'
    BY <1>9, <1>f DEF Released, resultVars, RenewError, Job
  <2>2. /\ files' = files /\ UNCHANGED messages
        /\ \A v \in Worker : \A k \in job[v].keys \cap files : k \in job'[v].keys
    BY <1>9, <1>f DEF Released, resultVars, RenewError, Job
  <2> QED
    BY <2>1, <2>2, <1>m, NoOrphanStep DEF Goal
<1>10. ASSUME NEW w \in Worker, Generate(w) PROVE Goal
  <2>1. Released'
    BY <1>10, <1>f DEF Released, resultVars, Generate, Goto, Job
  <2>2. /\ files' = files /\ UNCHANGED messages
        /\ \A v \in Worker : \A k \in job[v].keys \cap files : k \in job'[v].keys
    BY <1>10, <1>f DEF Released, resultVars, Generate, Goto, Job
  <2> QED
    BY <2>1, <2>2, <1>m, NoOrphanStep DEF Goal
<1>11. ASSUME NEW w \in Worker, GenerateError(w) PROVE Goal
  <2>1. Released'
    BY <1>11, <1>f DEF Released, resultVars, GenerateError, Goto
  <2>2. /\ files' = files /\ UNCHANGED messages
        /\ \A v \in Worker : \A k \in job[v].keys \cap files : k \in job'[v].keys
    BY <1>11, <1>f DEF Released, resultVars, GenerateError, Goto
  <2> QED
    BY <2>1, <2>2, <1>m, NoOrphanStep DEF Goal
<1>12. ASSUME NEW w \in Worker, StoreGenerated(w) PROVE Goal
  <2> PICK k \in Key \ (files \cup Linked \cup Held) :
        /\ files' = files \cup {k}
        /\ job' = [job EXCEPT ![w].keys = @ \cup {k}]
    BY <1>12 DEF StoreGenerated
  <2>1. /\ job'[w].keys = job[w].keys \cup {k}
        /\ \A v \in Worker : v # w => job'[v] = job[v]
        /\ pc' = pc /\ messages' = messages /\ pc[w] = "storing"
    BY <1>12, <1>f DEF StoreGenerated, resultVars, Job
  <2>2. \A v \in Worker : k \notin job[v].keys
    BY DEF Held
  <2>3. Released'
    BY <2>1, <2>2 DEF Released
  <2>4. k \in Held' /\ Held \subseteq Held' /\ Linked' = Linked
    BY <2>1 DEF Held, Linked
  <2> QED
    BY <2>3, <2>4 DEF Goal
<1>13. ASSUME NEW w \in Worker, StoreError(w) PROVE Goal
  <2>1. Released'
    BY <1>13, <1>f DEF Released, resultVars, StoreError, Goto
  <2>2. /\ files' = files /\ UNCHANGED messages
        /\ \A v \in Worker : \A k \in job[v].keys \cap files : k \in job'[v].keys
    BY <1>13, <1>f DEF Released, resultVars, StoreError, Goto
  <2> QED
    BY <2>1, <2>2, <1>m, NoOrphanStep DEF Goal
<1>14. ASSUME NEW w \in Worker, StopLease(w) PROVE Goal
  <2>1. Released'
    BY <1>14, <1>f DEF Released, resultVars, StopLease, Goto
  <2>2. /\ files' = files /\ UNCHANGED messages
        /\ \A v \in Worker : \A k \in job[v].keys \cap files : k \in job'[v].keys
    BY <1>14, <1>f DEF Released, resultVars, StopLease, Goto
  <2> QED
    BY <2>1, <2>2, <1>m, NoOrphanStep DEF Goal
<1>15. ASSUME NEW w \in Worker, FindClaim(w) PROVE Goal
  <2>1. Released'
    BY <1>15, <1>f DEF Released, resultVars, FindClaim, Goto
  <2>2. /\ files' = files /\ UNCHANGED messages
        /\ \A v \in Worker : \A k \in job[v].keys \cap files : k \in job'[v].keys
    BY <1>15, <1>f DEF Released, resultVars, FindClaim, Goto
  <2> QED
    BY <2>1, <2>2, <1>m, NoOrphanStep DEF Goal
<1>16. ASSUME NEW w \in Worker, CompleteClaim(w) PROVE Goal
  <2>1. CASE Matches(w)
    <3>1. /\ messages' = [messages EXCEPT ![job[w].gen] = @ \cup {job[w].keys}]
          /\ files' = files
      BY <1>16, <2>1 DEF CompleteClaim, WriteResult
    <3>2. \A g \in Generation : messages[g] \subseteq messages'[g]
      BY <3>1, <1>a DEF TypeOK
    <3>3. job[w].keys \subseteq Linked'
      <4>1. job[w].gen \in Generation
        BY <1>16, <1>a, JobFields DEF CompleteClaim, Engaged
      <4> QED
        BY <3>1, <4>1, <1>a DEF Linked, TypeOK
    <3>4. /\ job'[w].keys = {} /\ pc'[w] # "failing"
          /\ \A v \in Worker : v # w => job'[v] = job[v] /\ pc'[v] = pc[v]
      BY <1>16, <2>1, <1>f DEF CompleteClaim, Finish, NoJob
    <3>5. Released'
      BY <3>1, <3>4 DEF Released
    <3> QED
      BY <3>1, <3>2, <3>3, <3>4, <3>5, NoOrphanStep DEF Goal
  <2>2. CASE ~Matches(w)
    <3>1. Released'
      BY <1>16, <2>2, <1>f DEF Released, CompleteClaim, Goto
    <3>2. files' = files /\ UNCHANGED <<messages, job>>
      BY <1>16, <2>2 DEF CompleteClaim, resultVars
    <3> QED
      BY <3>1, <3>2, <1>m, NoOrphanStep DEF Goal
  <2> QED
    BY <2>1, <2>2
<1>17. ASSUME NEW w \in Worker, CompleteError(w) PROVE Goal
  <2>1. Released'
    BY <1>17, <1>f DEF Released, resultVars, CompleteError, Goto
  <2>2. /\ files' = files /\ UNCHANGED messages
        /\ \A v \in Worker : \A k \in job[v].keys \cap files : k \in job'[v].keys
    BY <1>17, <1>f DEF Released, resultVars, CompleteError, Goto
  <2> QED
    BY <2>1, <2>2, <1>m, NoOrphanStep DEF Goal
<1>18. ASSUME NEW w \in Worker, CommitReplyLost(w) PROVE Goal
  <2>1. Matches(w) /\ UNCHANGED job
    BY <1>18 DEF CommitReplyLost
  <2>2. /\ messages' = [messages EXCEPT ![job[w].gen] = @ \cup {job[w].keys}]
        /\ files' = files
    BY <1>18 DEF CommitReplyLost, WriteResult
  <2>3. \A g \in Generation : messages[g] \subseteq messages'[g]
    BY <2>2, <1>a DEF TypeOK
  <2>4. Released'
    BY <1>18, <2>2, <1>f DEF Released, CommitReplyLost, Goto
  <2> QED
    BY <2>1, <2>2, <2>3, <2>4, NoOrphanStep DEF Goal
<1>19. ASSUME NEW w \in Worker, Discard(w) PROVE Goal
  <2>1. /\ files' = files \ job[w].keys
        /\ UNCHANGED messages
    BY <1>19 DEF Discard, DeleteStoredMedia, Fault, Careful, resultVars
  <2>2. /\ job'[w].keys = {} \/ job'[w].keys = job[w].keys
        /\ pc'[w] \in {"stopped", "idle"} => job'[w].keys = {}
        /\ pc'[w] \notin {"rejecting", "generating"}
        /\ \A v \in Worker : v # w => job'[v] = job[v] /\ pc'[v] = pc[v]
    BY <1>19, <1>f DEF Discard, DeleteStoredMedia, Fault, Finish, Goto, NoJob, Careful
  <2>3. Released'
    BY <2>1, <2>2 DEF Released
  <2> QED
    BY <2>1, <2>2, <2>3, <1>m, NoOrphanStep DEF Goal
<1>20. ASSUME NEW w \in Worker, Cleanup(w) PROVE Goal
  <2>1. /\ files' = files \ job[w].keys
        /\ UNCHANGED messages
    BY <1>20 DEF Cleanup, DeleteStoredMedia, Fault, Careful, resultVars
  <2>2. /\ job'[w].keys = {} \/ job'[w].keys = job[w].keys
        /\ pc'[w] \in {"stopped", "idle"} => job'[w].keys = {}
        /\ pc'[w] \notin {"rejecting", "generating"}
        /\ \A v \in Worker : v # w => job'[v] = job[v] /\ pc'[v] = pc[v]
    BY <1>20, <1>f DEF Cleanup, DeleteStoredMedia, Fault, Finish, Goto, NoJob, Careful
  <2>3. Released'
    BY <2>1, <2>2 DEF Released
  <2> QED
    BY <2>1, <2>2, <2>3, <1>m, NoOrphanStep DEF Goal
<1>21. ASSUME NEW w \in Worker, FailClaim(w) PROVE Goal
  <2>1. /\ job[w].keys \cap files = {} /\ files' = files /\ UNCHANGED messages
        /\ job'[w].keys = {} /\ pc'[w] # "failing"
        /\ \A v \in Worker : v # w => job'[v] = job[v] /\ pc'[v] = pc[v]
    BY <1>21, <1>f DEF FailClaim, Finish, NoJob, Released, resultVars
  <2>2. Released'
    BY <2>1 DEF Released
  <2> QED
    BY <2>1, <2>2, <1>m, NoOrphanStep DEF Goal
<1>22. ASSUME NEW w \in Worker, FailError(w) PROVE Goal
  <2>1. /\ job[w].keys \cap files = {} /\ files' = files /\ UNCHANGED messages
        /\ job'[w].keys = {} /\ pc'[w] # "failing"
        /\ \A v \in Worker : v # w => job'[v] = job[v] /\ pc'[v] = pc[v]
    BY <1>22, <1>f DEF FailError, Finish, NoJob, Released, resultVars
  <2>2. Released'
    BY <2>1 DEF Released
  <2> QED
    BY <2>1, <2>2, <1>m, NoOrphanStep DEF Goal
<1>23. ASSUME UNCHANGED vars PROVE Goal
  BY <1>23 DEF vars, Released, Linked, Held, Goal
<1> QED
  BY <1>1, <1>2, <1>3, <1>4, <1>5, <1>6, <1>7, <1>8, <1>9, <1>10, <1>11,
     <1>12, <1>13, <1>14, <1>15, <1>16, <1>17, <1>18, <1>19, <1>20, <1>21,
     <1>22, <1>23 DEF Next, Process, Disturb, Goal

\* Without crashes and failing deletions no path through process(), lost lease,
\* failed statement, shutdown or lost answer, forgets a file it stored.
THEOREM NoOrphans == Spec => []NoOrphanedFiles
<1>1. CASE Careful
  <2> DEFINE Inv == ClaimInv /\ Released /\ files \subseteq Linked \cup Held
  <2>1. Init => Inv
    BY InitClaim DEF Init, Released, NoJob
  <2>2. Inv /\ [Next]_vars => Inv'
    BY <1>1, ClaimStep, OrphanStep
  <2>3. Inv => NoOrphanedFiles
    BY DEF NoOrphanedFiles
  <2> QED
    BY <2>1, <2>2, <2>3, PTL DEF Spec
<1>2. CASE ~Careful
  <2>1. NoOrphanedFiles
    BY <1>2 DEF Careful, NoOrphanedFiles
  <2> QED
    BY <2>1, PTL
<1> QED
  BY <1>1, <1>2

-----------------------------------------------------------------------------
(* The abstract queue *)

\* A worker that is about to settle its generation still relies on its claim.
Trusting ==
  \A w \in Worker :
    pc[w] \in {"rejecting", "completing", "committing", "failing"} => ~job[w].lost

QueueInv == ResultInv /\ Trusting

LEMMA TrustingStep ==
  ASSUME TypeOK, Trusting, [Next]_vars
  PROVE  Trusting'
<1>f. pc \in [Worker -> Phase] /\ job \in [Worker -> Job]
  BY DEF TypeOK
<1> USE DEF Trusting
<1>1. CASE Tick \/ (\E g \in Generation : Submit(g)) \/ UNCHANGED vars
  BY <1>1 DEF Tick, Submit, vars
<1>2. ASSUME NEW w \in Worker, Start(w) \/ Stop(w) \/ Crash(w) PROVE Trusting'
  BY <1>2, <1>f DEF Start, Stop, Crash, Goto, NoJob
<1>3. ASSUME NEW w \in Worker, ClaimNext(w) PROVE Trusting'
  <2>1. \E g \in Generation : job' = [job EXCEPT ![w] = [NoJob EXCEPT !.gen = g, !.version = now]]
    BY <1>3 DEF ClaimNext, Candidates, Oldest, Rows
  <2>2. \A v \in Worker : v # w => job'[v] = job[v] /\ pc'[v] = pc[v]
    BY <1>3, <1>f, <2>1 DEF ClaimNext, Goto
  <2> QED
    BY <1>f, <2>1, <2>2 DEF NoJob
<1>4. ASSUME NEW w \in Worker, ClaimReplyLost(w) PROVE Trusting'
  BY <1>4 DEF ClaimReplyLost
<1>5. ASSUME NEW w \in Worker, RenewClaim(w) \/ RenewError(w) PROVE Trusting'
  BY <1>5, <1>f DEF RenewClaim, RenewError, Leasing
<1>6. ASSUME NEW w \in Worker, Generate(w) \/ GenerateError(w) \/ StoreGenerated(w) \/ StoreError(w)
      PROVE  Trusting'
  BY <1>6, <1>f DEF Generate, GenerateError, StoreGenerated, StoreError, Goto
<1>7. ASSUME NEW w \in Worker, StopLease(w) \/ FindClaim(w) \/ CompleteError(w) PROVE Trusting'
  BY <1>7, <1>f DEF StopLease, FindClaim, CompleteError, Goto
<1>8. ASSUME NEW w \in Worker, CompleteClaim(w) \/ CommitReplyLost(w) PROVE Trusting'
  BY <1>8, <1>f DEF CompleteClaim, CommitReplyLost, Goto, Finish, NoJob
<1>9. ASSUME NEW w \in Worker, Discard(w) \/ Cleanup(w) PROVE Trusting'
  BY <1>9, <1>f DEF Discard, Cleanup, Goto, Finish, NoJob
<1>10. ASSUME NEW w \in Worker, FailClaim(w) \/ FailError(w) PROVE Trusting'
  BY <1>10, <1>f DEF FailClaim, FailError, Finish, NoJob
<1> QED
  BY <1>1, <1>2, <1>3, <1>4, <1>5, <1>6, <1>7, <1>8, <1>9, <1>10
     DEF Next, Process, Disturb

\* A claim that is relied on has one owner, whom OwnerOf names.
OwnerNamed ==
  \A g \in Generation :
    /\ \A w \in Worker : Owns(w, g) <=> OwnerOf(g) = w
    /\ OwnerOf(g) # NoWorker => OwnerOf(g) \in Worker

LEMMA TheOwner == ClaimInv => OwnerNamed
<1> SUFFICES ASSUME ClaimInv, NEW g \in Generation
             PROVE  /\ \A w \in Worker : Owns(w, g) <=> OwnerOf(g) = w
                    /\ OwnerOf(g) # NoWorker => OwnerOf(g) \in Worker
  BY DEF OwnerNamed
<1>1. \A v, w \in Worker : Owns(v, g) /\ Owns(w, g) => v = w
  <2> SUFFICES ASSUME NEW v \in Worker, NEW w \in Worker, Owns(v, g), Owns(w, g)
               PROVE  v = w
    OBVIOUS
  <2>1. Busy(v) /\ job[v].gen = job[w].gen /\ job[v].version = job[w].version
    BY WorkerAssumptions DEF Owns, Matches, Busy
  <2> QED
    BY <2>1 DEF ClaimInv, Distinct
<1>2. CASE \E w \in Worker : Owns(w, g)
  <2>1. OwnerOf(g) \in Worker /\ Owns(OwnerOf(g), g)
    BY <1>2 DEF OwnerOf
  <2> QED
    BY <1>1, <2>1
<1>3. CASE ~\E w \in Worker : Owns(w, g)
  BY <1>3, WorkerAssumptions DEF OwnerOf
<1> QED
  BY <1>2, <1>3

LEMMA TheNextOwner == ClaimInv' => OwnerNamed'
BY TheOwner, PTL

\* The owner that the abstract queue sees.
Owner == [g \in Generation |-> OwnerOf(g)]

\* The owner of a generation after a step, from who owns it then.
LEMMA NextOwner ==
  ASSUME ClaimInv, ClaimInv', NEW g \in Generation
  PROVE  /\ \A w \in Worker : Owns(w, g)' => OwnerOf(g)' = w
         /\ (\A w \in Worker : ~Owns(w, g)') => OwnerOf(g)' = NoWorker
         /\ (\A w \in Worker : Owns(w, g)' <=> Owns(w, g)) => OwnerOf(g)' = OwnerOf(g)
<1>1. /\ \A w \in Worker : Owns(w, g)' <=> OwnerOf(g)' = w
      /\ OwnerOf(g)' # NoWorker => OwnerOf(g)' \in Worker
  BY TheNextOwner DEF OwnerNamed
<1>2. /\ \A w \in Worker : Owns(w, g) <=> OwnerOf(g) = w
      /\ OwnerOf(g) # NoWorker => OwnerOf(g) \in Worker
  BY TheOwner DEF OwnerNamed
<1> QED
  BY <1>1, <1>2

\* Steps after which everybody owns what they owned.
LEMMA SameOwners ==
  ASSUME ClaimInv, ClaimInv', UNCHANGED <<status, result>>,
         \A g \in Generation, w \in Worker : Owns(w, g)' <=> Owns(w, g)
  PROVE  [Queue!Next]_(Queue!vars)
<1>1. Owner' = Owner
  BY NextOwner DEF Owner
<1> QED
  BY <1>1 DEF Queue!vars, Owner

\* Steps by which a generation may lose its owner.
LEMMA LosesOwner ==
  ASSUME ClaimInv, ClaimInv', UNCHANGED <<status, result>>, NEW h \in Generation,
         \A g \in Generation \ {h}, w \in Worker : Owns(w, g)' <=> Owns(w, g),
         (\A w \in Worker : ~Owns(w, h)') \/ (\A w \in Worker : Owns(w, h)' <=> Owns(w, h))
  PROVE  [Queue!Next]_(Queue!vars)
<1>1. CASE \A w \in Worker : Owns(w, h)' <=> Owns(w, h)
  BY <1>1, SameOwners
<1>2. CASE \A w \in Worker : ~Owns(w, h)'
  <2>1. Owner' = [Owner EXCEPT ![h] = NoWorker]
    BY <1>2, NextOwner DEF Owner
  <2>2. CASE OwnerOf(h) = NoWorker
    <3>1. Owner' = Owner
      BY <2>1, <2>2 DEF Owner
    <3> QED
      BY <3>1 DEF Queue!vars, Owner
  <2>3. CASE OwnerOf(h) # NoWorker
    <3>1. Queue!Release(h)
      BY <2>1, <2>3 DEF Queue!Release, Owner
    <3> QED
      BY <3>1 DEF Queue!Next
  <2> QED
    BY <2>2, <2>3
<1> QED
  BY <1>1, <1>2

\* A worker keeps what it owns when neither its job nor the row changes.
LEMMA StillOwns ==
  ASSUME NEW v \in Worker, NEW g \in Generation,
         job'[v].gen = job[v].gen, job'[v].version = job[v].version,
         job'[v].lost = job[v].lost,
         status'[g] = status[g], updatedAt'[g] = updatedAt[g]
  PROVE  Owns(v, g)' <=> Owns(v, g)
BY DEF Owns, Matches

\* Steps that touch no claim.
LEMMA QuietStep ==
  ASSUME ClaimInv, ClaimInv', UNCHANGED <<status, result, updatedAt>>,
         \A v \in Worker : /\ job'[v].gen = job[v].gen
                           /\ job'[v].version = job[v].version
                           /\ job'[v].lost = job[v].lost
  PROVE  [Queue!Next]_(Queue!vars)
<1>1. \A g \in Generation, v \in Worker : Owns(v, g)' <=> Owns(v, g)
  BY StillOwns
<1> QED
  BY <1>1, SameOwners

\* Steps by which one worker gives up its claim, knowingly or not.
LEMMA DropStep ==
  ASSUME ClaimInv, ClaimInv', UNCHANGED <<status, result, updatedAt>>, NEW w \in Worker,
         \A v \in Worker : v # w => job'[v] = job[v],
         job'[w].gen = NoGeneration \/ (job'[w].gen = job[w].gen /\ job'[w].lost)
  PROVE  [Queue!Next]_(Queue!vars)
<1>1. \A g \in Generation : ~Owns(w, g)'
  BY WorkerAssumptions DEF Owns
<1>2. ASSUME NEW v \in Worker, v # w, NEW g \in Generation
      PROVE  Owns(v, g)' <=> Owns(v, g)
  BY <1>2, StillOwns
<1>3. ASSUME NEW h \in Generation, Owns(w, h) PROVE [Queue!Next]_(Queue!vars)
  <2>1. \A v \in Worker : v # w => ~Owns(v, h)
    BY <1>3, TheOwner DEF OwnerNamed
  <2>2. \A v \in Worker : ~Owns(v, h)'
    BY <1>1, <1>2, <2>1
  <2>3. \A g \in Generation \ {h}, v \in Worker : Owns(v, g)' <=> Owns(v, g)
    BY <1>1, <1>2, <1>3 DEF Owns
  <2> QED
    BY <2>2, <2>3, LosesOwner
<1>4. CASE \A h \in Generation : ~Owns(w, h)
  <2>1. \A g \in Generation, v \in Worker : Owns(v, g)' <=> Owns(v, g)
    BY <1>1, <1>2, <1>4
  <2> QED
    BY <2>1, SameOwners
<1> QED
  BY <1>3, <1>4

\* A claim or renewal makes every other version of the row an old one.
LEMMA OlderVersions ==
  ASSUME ClaimInv, NEW w \in Worker, Busy(w), Matches(w),
         NEW v \in Worker, v # w, job[v].gen = job[w].gen
  PROVE  job[v].version < now
<1>1. TypeOK /\ Versions /\ Distinct
  BY DEF ClaimInv
<1>2. now \in Int /\ \A g \in Generation : updatedAt[g] \in Int
  BY <1>1, WorkerAssumptions DEF TypeOK, Time
<1>3. job[w].gen \in Generation /\ Busy(v)
  BY <1>1, JobFields DEF Busy
<1> QED
  BY <1>1, <1>2, <1>3, JobFields DEF Matches, Versions, Distinct

\* Taking a row that is not settled: whoever worked on it is on an old version.
LEMMA CandidateVersions ==
  ASSUME ClaimInv, NEW staleBefore \in StaleBoundaries, NEW g \in Candidates(staleBefore)
  PROVE  /\ g \in Generation /\ status[g] \in {"pending", "processing"}
         /\ \A v \in Worker : job[v].gen = g => status[g] = "processing" /\ job[v].version < now
<1>1. TypeOK /\ Versions
  BY DEF ClaimInv
<1>2. now \in Int /\ \A h \in Generation : updatedAt[h] \in Int
  BY <1>1, WorkerAssumptions DEF TypeOK, Time
<1>3. g \in Generation /\ status[g] \in {"pending", "processing"}
  BY DEF Candidates, Oldest, Rows
<1>4. ASSUME NEW v \in Worker, job[v].gen = g
      PROVE  status[g] = "processing" /\ job[v].version < now
  <2>1. Busy(v)
    BY <1>3, <1>4, WorkerAssumptions DEF Busy
  <2>2. job[v].version <= updatedAt[g] /\ status[g] # "pending"
    BY <1>1, <1>4, <2>1 DEF Versions
  <2>3. g \in Rows("processing") /\ updatedAt[g] < staleBefore
    BY <1>3, <2>2 DEF Candidates, Oldest, Rows
  <2>4. staleBefore \in Int /\ staleBefore <= now
    BY <1>2, WorkerAssumptions DEF StaleBoundaries
  <2> QED
    BY <1>1, <1>2, <1>3, <2>2, <2>3, <2>4, JobFields
<1> QED
  BY <1>3, <1>4

\* A row that is no longer being processed has no owner; the others keep
\* theirs as long as only its worker has moved.
LEMMA SettledOwner ==
  ASSUME ClaimInv, ClaimInv', NEW w \in Worker, NEW h \in Generation, Owns(w, h),
         status'[h] # "processing",
         \A g \in Generation \ {h} : status'[g] = status[g] /\ updatedAt'[g] = updatedAt[g],
         \A v \in Worker : v # w => job'[v] = job[v],
         job'[w].gen \in {h, NoGeneration}
  PROVE  Owner' = [Owner EXCEPT ![h] = NoWorker]
<1>1. \A v \in Worker : ~Owns(v, h)'
  BY DEF Owns, Matches
<1>2. ASSUME NEW g \in Generation \ {h}, NEW v \in Worker
      PROVE  Owns(v, g)' <=> Owns(v, g)
  <2>1. CASE v # w
    BY <2>1, StillOwns
  <2>2. CASE v = w
    BY <2>2, WorkerAssumptions DEF Owns
  <2> QED
    BY <2>1, <2>2
<1> QED
  BY <1>1, <1>2, NextOwner DEF Owner

\* The step in which a worker takes a row and knows of it.
LEMMA TakenOwner ==
  ASSUME ClaimInv, ClaimInv', NEW w \in Worker, NEW h \in Generation, Take(h),
         \A v \in Worker : job[v].gen = h => job[v].version < now,
         job'[w].gen = h, job'[w].version = now, ~job'[w].lost,
         \A v \in Worker : v # w => job'[v] = job[v],
         \A g \in Generation : ~Owns(w, g)
  PROVE  Owner' = [Owner EXCEPT ![h] = w]
<1>1. TypeOK /\ now \in Int
  BY WorkerAssumptions DEF ClaimInv, TypeOK, Time
<1>2. /\ status'[h] = "processing" /\ updatedAt'[h] = now
      /\ \A g \in Generation \ {h} : status'[g] = status[g] /\ updatedAt'[g] = updatedAt[g]
  BY <1>1 DEF Take, TypeOK
<1>3. Owns(w, h)'
  BY <1>2 DEF Owns, Matches
<1>4. ASSUME NEW g \in Generation \ {h}, NEW v \in Worker
      PROVE  Owns(v, g)' <=> Owns(v, g)
  <2>1. CASE v # w
    BY <1>2, <2>1, StillOwns
  <2>2. CASE v = w
    BY <2>2 DEF Owns
  <2> QED
    BY <2>1, <2>2
<1> QED
  BY <1>3, <1>4, NextOwner DEF Owner

\* The step in which a row is taken and nobody knows of it.
LEMMA NobodyTakes ==
  ASSUME ClaimInv, ClaimInv', NEW h \in Generation, Take(h), UNCHANGED job,
         \A v \in Worker : job[v].gen = h => job[v].version < now
  PROVE  Owner' = [Owner EXCEPT ![h] = NoWorker]
<1>1. TypeOK /\ now \in Int
  BY WorkerAssumptions DEF ClaimInv, TypeOK, Time
<1>2. /\ status'[h] = "processing" /\ updatedAt'[h] = now
      /\ \A g \in Generation \ {h} : status'[g] = status[g] /\ updatedAt'[g] = updatedAt[g]
  BY <1>1 DEF Take, TypeOK
<1>3. ASSUME NEW v \in Worker PROVE ~Owns(v, h)'
  <2>1. job[v].version \in Int
    BY <1>1, JobFields
  <2> QED
    BY <1>1, <1>2, <2>1 DEF Owns, Matches
<1>4. ASSUME NEW g \in Generation \ {h}, NEW v \in Worker
      PROVE  Owns(v, g)' <=> Owns(v, g)
  BY <1>2, StillOwns
<1> QED
  BY <1>3, <1>4, NextOwner DEF Owner

\* Every step of the workers is a step of the queue, or invisible to it.
LEMMA QueueStep ==
  ASSUME QueueInv, QueueInv', [Next]_vars
  PROVE  [Queue!Next]_(Queue!vars)
<1>a. /\ ClaimInv /\ ClaimInv' /\ Collected /\ Trusting
      /\ TypeOK /\ TypeOK' /\ Engaged
  BY DEF QueueInv, ResultInv, ClaimInv
<1>f. /\ job \in [Worker -> Job] /\ pc \in [Worker -> Phase]
      /\ status \in [Generation -> Status] /\ updatedAt \in [Generation -> Time]
      /\ result \in [Generation -> SUBSET Key]
  BY <1>a DEF TypeOK
<1>g. \A w \in Worker : /\ job[w].gen \in Generation \cup {NoGeneration}
                        /\ Busy(w) => job[w].gen \in Generation
  BY <1>a, JobFields
<1>n. \A w \in Worker : pc[w] = "idle" => \A g \in Generation : ~Owns(w, g)
  BY <1>a, WorkerAssumptions DEF Engaged, Busy, Owns
<1>o. \A g \in Generation, w \in Worker : Owns(w, g) <=> Owner[g] = w
  BY <1>a, TheOwner DEF OwnerNamed, Owner
<1>w. \A g \in Generation, w \in Worker : Owns(w, g) => Owner[g] # NoWorker
  BY <1>o, WorkerAssumptions
\* The generation of a worker that is about to settle it.
<1>s. ASSUME NEW w \in Worker, Matches(w),
             pc[w] \in {"rejecting", "completing", "committing", "failing"}
      PROVE  job[w].gen \in Generation /\ Owns(w, job[w].gen)
  BY <1>s, <1>a, <1>g DEF Engaged, Trusting, Owns
<1>1. ASSUME Tick PROVE [Queue!Next]_(Queue!vars)
  BY <1>1, <1>a, QuietStep DEF Tick, rowVars, resultVars
<1>2. ASSUME NEW g \in Generation, Submit(g) PROVE [Queue!Next]_(Queue!vars)
  <2>1. \A v \in Worker : job[v].gen # g
    BY <1>2, <1>a, WorkerAssumptions DEF Submit, ClaimInv, Versions, Busy
  <2>2. ASSUME NEW h \in Generation, NEW v \in Worker
        PROVE  Owns(v, h)' <=> Owns(v, h)
    <3>1. CASE h = g
      BY <1>2, <2>1, <3>1 DEF Submit, Owns
    <3>2. CASE h # g
      BY <1>2, <1>f, <3>2, StillOwns DEF Submit
    <3> QED
      BY <3>1, <3>2
  <2>3. Owner' = Owner
    BY <1>a, <2>2, NextOwner DEF Owner
  <2>4. Queue!Submit(g)
    BY <1>2, <2>3 DEF Submit, Queue!Submit, Owner, resultVars
  <2> QED
    BY <2>4 DEF Queue!Next
<1>3. ASSUME NEW w \in Worker, Start(w) \/ Stop(w) PROVE [Queue!Next]_(Queue!vars)
  BY <1>3, <1>a, QuietStep DEF Start, Stop, rowVars, resultVars
<1>4. ASSUME NEW w \in Worker, Crash(w) \/ FailError(w) PROVE [Queue!Next]_(Queue!vars)
  <2>1. UNCHANGED <<status, result, updatedAt>> /\ job' = [job EXCEPT ![w] = NoJob]
    BY <1>4 DEF Crash, FailError, Finish, rowVars, resultVars
  <2> QED
    BY <1>a, <1>f, <2>1, DropStep DEF NoJob
<1>5. ASSUME NEW w \in Worker, Generate(w) \/ StoreGenerated(w)
      PROVE  [Queue!Next]_(Queue!vars)
  <2>1. UNCHANGED <<status, result, updatedAt>>
    BY <1>5 DEF Generate, StoreGenerated, rowVars, resultVars
  <2>2. CASE Generate(w)
    <3> PICK n \in 1..MaxOutputs : job' = [job EXCEPT ![w].outputs = n]
      BY <2>2 DEF Generate
    <3> QED
      BY <1>a, <1>f, <2>1, QuietStep DEF Job
  <2>3. CASE StoreGenerated(w)
    <3> PICK k \in Key : job' = [job EXCEPT ![w].keys = @ \cup {k}]
      BY <2>3 DEF StoreGenerated
    <3> QED
      BY <1>a, <1>f, <2>1, QuietStep DEF Job
  <2> QED
    BY <1>5, <2>2, <2>3
<1>6. ASSUME NEW w \in Worker, GenerateError(w) \/ StoreError(w) \/ StopLease(w) \/ FindClaim(w)
                               \/ CompleteError(w)
      PROVE  [Queue!Next]_(Queue!vars)
  BY <1>6, <1>a, QuietStep
  DEF GenerateError, StoreError, StopLease, FindClaim, CompleteError, rowVars, resultVars
<1>7. ASSUME NEW w \in Worker, Discard(w) \/ Cleanup(w) PROVE [Queue!Next]_(Queue!vars)
  <2>1. UNCHANGED <<status, result, updatedAt>>
    BY <1>7 DEF Discard, Cleanup, rowVars, resultVars
  <2>2. CASE UNCHANGED job
    BY <1>a, <2>1, <2>2, QuietStep
  <2>3. CASE job' = [job EXCEPT ![w] = NoJob]
    BY <1>a, <1>f, <2>1, <2>3, DropStep DEF NoJob
  <2> QED
    BY <1>7, <2>2, <2>3 DEF Discard, Cleanup, Finish
<1>8. ASSUME NEW w \in Worker, ClaimNext(w) PROVE [Queue!Next]_(Queue!vars)
  <2> PICK staleBefore \in StaleBoundaries : \E h \in Candidates(staleBefore) :
        /\ Take(h)
        /\ job' = [job EXCEPT ![w] = [NoJob EXCEPT !.gen = h, !.version = now]]
    BY <1>8 DEF ClaimNext
  <2> PICK g \in Candidates(staleBefore) :
        /\ Take(g)
        /\ job' = [job EXCEPT ![w] = [NoJob EXCEPT !.gen = g, !.version = now]]
    OBVIOUS
  <2>1. /\ g \in Generation /\ status[g] \in {"pending", "processing"}
        /\ \A v \in Worker : job[v].gen = g => job[v].version < now
    BY <1>a, CandidateVersions
  <2>2. /\ job'[w].gen = g /\ job'[w].version = now /\ ~job'[w].lost
        /\ \A v \in Worker : v # w => job'[v] = job[v]
    BY <1>f DEF NoJob
  <2>3. pc[w] = "idle" /\ UNCHANGED result
    BY <1>8 DEF ClaimNext, resultVars
  <2>4. Owner' = [Owner EXCEPT ![g] = w]
    BY <1>a, <1>n, <2>1, <2>2, <2>3, TakenOwner
  <2>5. \A h \in Generation : Owner[h] # w
    BY <1>n, <1>o, <2>3
  <2>6. Queue!Take(w, g)
    BY <2>1, <2>3, <2>4, <2>5 DEF Take, Queue!Take, Queue!Unsettled, Owner
  <2> QED
    BY <2>1, <2>6 DEF Queue!Next
<1>9. ASSUME NEW w \in Worker, ClaimReplyLost(w) PROVE [Queue!Next]_(Queue!vars)
  <2> PICK staleBefore \in StaleBoundaries : \E h \in Candidates(staleBefore) : Take(h)
    BY <1>9 DEF ClaimReplyLost
  <2> PICK g \in Candidates(staleBefore) : Take(g)
    OBVIOUS
  <2>1. /\ g \in Generation /\ status[g] \in {"pending", "processing"}
        /\ \A v \in Worker : job[v].gen = g => status[g] = "processing" /\ job[v].version < now
    BY <1>a, CandidateVersions
  <2>2. UNCHANGED <<result, job>>
    BY <1>9 DEF ClaimReplyLost, resultVars
  <2>3. Owner' = [Owner EXCEPT ![g] = NoWorker]
    BY <1>a, <2>1, <2>2, NobodyTakes
  <2>4. CASE status[g] = "pending"
    <3>1. \A v \in Worker : ~Owns(v, g)
      BY <2>4 DEF Owns, Matches
    <3>2. Owner[g] = NoWorker
      BY <2>1, <3>1 DEF Owner, OwnerOf
    <3>3. Owner' = Owner
      BY <2>3, <3>2 DEF Owner
    <3>4. Queue!Strand(g)
      BY <2>2, <2>4, <3>3 DEF Take, Queue!Strand, Owner
    <3> QED
      BY <2>1, <3>4 DEF Queue!Next
  <2>5. CASE status[g] = "processing"
    <3>1. UNCHANGED <<status, result>>
      BY <1>f, <2>2, <2>5 DEF Take
    <3>2. CASE Owner[g] = NoWorker
      <4>1. Owner' = Owner
        BY <2>3, <3>2 DEF Owner
      <4> QED
        BY <3>1, <4>1 DEF Queue!vars, Owner
    <3>3. CASE Owner[g] # NoWorker
      <4>1. Queue!Release(g)
        BY <2>3, <3>1, <3>3 DEF Queue!Release, Owner
      <4> QED
        BY <2>1, <4>1 DEF Queue!Next
    <3> QED
      BY <3>2, <3>3
  <2> QED
    BY <2>1, <2>4, <2>5
<1>10. ASSUME NEW w \in Worker, RenewClaim(w) \/ RenewError(w) PROVE [Queue!Next]_(Queue!vars)
  <2>1. Busy(w) /\ UNCHANGED <<status, result>> /\ ~job[w].lost
    BY <1>10, <1>a DEF RenewClaim, RenewError, Engaged, Leasing, resultVars
  <2>2. ASSUME UNCHANGED updatedAt, job' = [job EXCEPT ![w].lost = TRUE]
        PROVE  [Queue!Next]_(Queue!vars)
    BY <1>a, <1>f, <2>1, <2>2, DropStep DEF Job
  <2>3. ASSUME Matches(w), updatedAt' = [updatedAt EXCEPT ![job[w].gen] = now],
               job' = [job EXCEPT ![w].version = now] \/ job' = [job EXCEPT ![w].lost = TRUE]
        PROVE  [Queue!Next]_(Queue!vars)
    <3> PICK h \in Generation : h = job[w].gen
      BY <1>g, <2>1
    <3>1. /\ job'[w].gen = h
          /\ \A v \in Worker : v # w => job'[v] = job[v]
          /\ \/ job'[w].version = now /\ ~job'[w].lost
             \/ job'[w].lost
      BY <1>f, <2>1, <2>3 DEF Job
    <3>2. /\ updatedAt'[h] = now /\ status'[h] = "processing"
          /\ \A g \in Generation \ {h} : updatedAt'[g] = updatedAt[g]
      BY <1>f, <2>1, <2>3 DEF Matches
    <3>3. ASSUME NEW v \in Worker, v # w PROVE ~Owns(v, h) /\ ~Owns(v, h)'
      <4>1. job[v].gen = h => job[v].version < now
        BY <1>a, <2>1, <2>3, <3>3, OlderVersions
      <4>2. job[v].version \in Int /\ now \in Int
        BY <1>a, JobFields, WorkerAssumptions DEF TypeOK, Time
      <4>3. ~Owns(v, h)'
        BY <3>1, <3>2, <3>3, <4>1, <4>2 DEF Owns, Matches
      <4>4. Owns(w, h)
        BY <2>1, <2>3 DEF Owns
      <4>5. ~Owns(v, h)
        BY <1>o, <3>3, <4>4
      <4> QED
        BY <4>3, <4>5
    <3>4. ASSUME NEW g \in Generation \ {h}, NEW v \in Worker
          PROVE  Owns(v, g)' <=> Owns(v, g)
      <4>1. CASE v # w
        BY <2>1, <3>1, <3>2, <4>1, StillOwns
      <4>2. CASE v = w
        BY <3>1, <4>2 DEF Owns
      <4> QED
        BY <4>1, <4>2
    <3>5. (Owns(w, h)' /\ Owns(w, h)) \/ ~Owns(w, h)'
      BY <2>1, <2>3 DEF Owns
    <3> QED
      BY <1>a, <2>1, <3>3, <3>4, <3>5, LosesOwner
  <2> QED
    BY <1>10, <2>2, <2>3 DEF RenewClaim, RenewError
<1>11. ASSUME NEW w \in Worker, CompleteClaim(w) \/ CommitReplyLost(w)
       PROVE  [Queue!Next]_(Queue!vars)
  <2>1. CASE Matches(w)
    <3>1. /\ pc[w] = "committing" /\ WriteResult(job[w].gen, job[w].keys)
          /\ job' = [job EXCEPT ![w] = NoJob] \/ UNCHANGED job
      BY <1>11, <2>1 DEF CompleteClaim, CommitReplyLost, Finish
    <3> PICK h \in Generation : h = job[w].gen /\ Owns(w, h)
      BY <1>s, <2>1, <3>1
    <3>2. job[w].keys \in (SUBSET Key) \ {{}}
      BY <1>a, <1>f, <3>1 DEF Collected, Job
    <3>3. /\ status' = [status EXCEPT ![h] = "completed"]
          /\ result' = [result EXCEPT ![h] = job[w].keys]
          /\ UNCHANGED updatedAt
      BY <3>1 DEF WriteResult
    <3>4. /\ job'[w].gen \in {h, NoGeneration}
          /\ \A v \in Worker : v # w => job'[v] = job[v]
      BY <1>f, <3>1 DEF NoJob
    <3>5. Owner' = [Owner EXCEPT ![h] = NoWorker]
      BY <1>a, <1>f, <3>3, <3>4, SettledOwner
    <3>6. Queue!Complete(h)
      BY <1>w, <3>2, <3>3, <3>5 DEF Queue!Complete, Owner
    <3> QED
      BY <3>6 DEF Queue!Next
  <2>2. CASE ~Matches(w)
    BY <1>11, <1>a, <2>2, QuietStep DEF CompleteClaim, CommitReplyLost, rowVars, resultVars
  <2> QED
    BY <2>1, <2>2
<1>12. ASSUME NEW w \in Worker, FailClaim(w) PROVE [Queue!Next]_(Queue!vars)
  <2>1. /\ pc[w] \in {"failing", "rejecting"}
        /\ job' = [job EXCEPT ![w] = NoJob]
        /\ UNCHANGED <<updatedAt, result>>
    BY <1>12 DEF FailClaim, Finish, resultVars
  <2>2. /\ job'[w].gen = NoGeneration
        /\ \A v \in Worker : v # w => job'[v] = job[v]
    BY <1>f, <2>1 DEF NoJob
  <2>3. CASE Matches(w)
    <3> PICK h \in Generation : h = job[w].gen /\ Owns(w, h)
      BY <1>s, <2>1, <2>3
    <3>1. status' = [status EXCEPT ![h] = "failed"]
      BY <1>12, <2>3 DEF FailClaim
    <3>2. Owner' = [Owner EXCEPT ![h] = NoWorker]
      BY <1>a, <1>f, <2>1, <2>2, <3>1, SettledOwner
    <3>3. Queue!Fail(h)
      BY <1>w, <2>1, <3>1, <3>2 DEF Queue!Fail, Owner
    <3> QED
      BY <3>3 DEF Queue!Next
  <2>4. CASE ~Matches(w)
    <3>1. UNCHANGED status
      BY <1>12, <1>f, <2>4 DEF FailClaim
    <3> QED
      BY <1>a, <2>1, <2>2, <3>1, DropStep
  <2> QED
    BY <2>3, <2>4
<1>13. ASSUME UNCHANGED vars PROVE [Queue!Next]_(Queue!vars)
  BY <1>13, <1>a, QuietStep DEF vars
<1> QED
  BY <1>1, <1>2, <1>3, <1>4, <1>5, <1>6, <1>7, <1>8, <1>9, <1>10, <1>11, <1>12,
     <1>13 DEF Next, Process, Disturb

\* The workers, with their clocks, leases, lost answers and crashes, are one
\* queue to the rest of the server: only the owner of a generation settles it,
\* once, and an answer that comes after a reclaim changes nothing.
THEOREM WorkersImplementQueue == Spec => ImplementsQueue
<1>1. Init => QueueInv /\ Queue!Init
  <2> SUFFICES ASSUME Init PROVE QueueInv /\ Queue!Init
    OBVIOUS
  <2>1. Collected /\ OneResult /\ Trusting
    BY DEF Init, Collected, OneResult, Trusting
  <2>2. \A g \in Generation : OwnerOf(g) = NoWorker
    BY DEF Init, OwnerOf, Owns, Matches
  <2> QED
    BY <2>1, <2>2, InitClaim DEF Init, QueueInv, ResultInv, Queue!Init
<1>2. QueueInv /\ [Next]_vars => QueueInv'
  BY ResultStep, TrustingStep DEF QueueInv, ResultInv, ClaimInv
<1>3. QueueInv /\ QueueInv' /\ [Next]_vars => [Queue!Next]_(Queue!vars)
  BY QueueStep
<1> QED
  BY <1>1, <1>2, <1>3, PTL DEF Spec, ImplementsQueue, Queue!Spec

-----------------------------------------------------------------------------
(***************************************************************************)
(* Under the timing of TimelyWorker a live worker keeps its lease: for any *)
(* number of workers and generations, any lease and skew the renewals      *)
(* allow for, and any failures.                                            *)
(***************************************************************************)

\* The worker relies on its claim.
Keeps(w) == pc[w] \in Leasing \cup {"completing", "committing"} /\ ~job[w].lost

\* A worker that relies on its claim has the newest version of it: who was on
\* the row before holds an older one.  Distinct is too much to ask here, for
\* Age lets the versions of dead claims run together.
Ahead ==
  \A v, w \in Worker :
    v # w /\ Keeps(w) /\ Busy(v) /\ job[v].gen = job[w].gen
      => job[v].version < job[w].version

TimelyInv == ClaimBase /\ LeaseKept /\ Ahead

-----------------------------------------------------------------------------

LEMMA Clocks ==
  ASSUME TypeOK
  PROVE  /\ now \in Nat /\ now <= MaxTime
         /\ \A g \in Generation : updatedAt[g] \in Nat /\ updatedAt[g] <= MaxTime
         /\ \A w \in Worker : job[w].version \in Nat /\ job[w].version <= MaxTime
BY WorkerAssumptions DEF TypeOK, Time, Job

LEMMA Keepers ==
  ASSUME TypeOK, Engaged, LeaseKept, NEW w \in Worker, Keeps(w)
  PROVE  /\ Busy(w) /\ job[w].gen \in Generation
         /\ status[job[w].gen] = "processing"
         /\ updatedAt[job[w].gen] = job[w].version
         /\ now - job[w].version <= RenewEvery
<1>1. Busy(w)
  BY DEF Keeps, Leasing, Engaged
<1>2. Matches(w) /\ now - job[w].version <= RenewEvery
  BY DEF Keeps, LeaseKept
<1> QED
  BY <1>1, <1>2, JobFields DEF Matches

\* The row of a worker that relies on its claim is matched by nobody else.
LEMMA OnlyKeeper ==
  ASSUME TypeOK, Engaged, LeaseKept, Ahead,
         NEW v \in Worker, NEW w \in Worker, Keeps(w), Busy(v), Matches(v),
         job[v].gen = job[w].gen
  PROVE  v = w
<1> SUFFICES ASSUME v # w PROVE FALSE
  OBVIOUS
<1>1. job[v].version < job[w].version
  BY DEF Ahead
<1>2. job[v].version = job[w].version
  BY Keepers DEF Matches
<1> QED
  BY <1>1, <1>2, Clocks

\* What is the same in the steps that write no version: time stands still, a
\* worker stays with its claim or drops it, and a row changes its status only
\* by a worker that holds its claim and is done with it.
Still ==
  /\ now' = now /\ updatedAt' = updatedAt
  /\ \A v \in Worker :
       \/ /\ job'[v].gen = job[v].gen /\ job'[v].version = job[v].version
          /\ Keeps(v)' => Keeps(v)
       \/ job'[v].gen = NoGeneration /\ ~Keeps(v)'
  /\ \A g \in Generation :
       \/ status'[g] = status[g]
       \/ \E w \in Worker : Busy(w) /\ job[w].gen = g /\ Matches(w) /\ ~Keeps(w)'

LEMMA StillStep ==
  ASSUME TimelyInv, Still
  PROVE  LeaseKept' /\ Ahead'
<1>a. TypeOK /\ Engaged /\ LeaseKept /\ Ahead
  BY DEF TimelyInv, ClaimBase
<1>1. ASSUME NEW v \in Worker, Keeps(v)'
      PROVE  Keeps(v) /\ job'[v].gen = job[v].gen /\ job'[v].version = job[v].version
  BY <1>1 DEF Still
<1>2. ASSUME NEW v \in Worker, Keeps(v)'
      PROVE  status'[job'[v].gen] = "processing"
  <2>1. Keeps(v) /\ job'[v].gen = job[v].gen
    BY <1>1, <1>2
  <2>2. job[v].gen \in Generation /\ status[job[v].gen] = "processing"
    BY <2>1, <1>a, Keepers
  <2>3. \A w \in Worker : Busy(w) /\ job[w].gen = job[v].gen /\ Matches(w) => w = v
    BY <2>1, <1>a, OnlyKeeper
  <2>4. status'[job[v].gen] = status[job[v].gen]
    BY <2>2, <2>3, <1>2 DEF Still
  <2> QED
    BY <2>1, <2>2, <2>4
<1>3. LeaseKept'
  <2> SUFFICES ASSUME NEW v \in Worker, Keeps(v)'
               PROVE  Matches(v)' /\ now' - job'[v].version <= RenewEvery
    BY DEF LeaseKept, Keeps
  <2>1. Keeps(v) /\ job'[v].gen = job[v].gen /\ job'[v].version = job[v].version
    BY <1>1
  <2>2. updatedAt[job[v].gen] = job[v].version /\ now - job[v].version <= RenewEvery
    BY <2>1, <1>a, Keepers
  <2>3. now' = now /\ updatedAt' = updatedAt
    BY DEF Still
  <2>4. Matches(v)'
    BY <2>1, <2>2, <2>3, <1>2 DEF Matches
  <2> QED
    BY <2>1, <2>2, <2>3, <2>4
<1>4. Ahead'
  <2> SUFFICES ASSUME NEW v \in Worker, NEW w \in Worker, v # w, Keeps(w)',
                      Busy(v)', job'[v].gen = job'[w].gen
               PROVE  job'[v].version < job'[w].version
    BY DEF Ahead
  <2>1. Keeps(w) /\ job'[w].gen = job[w].gen /\ job'[w].version = job[w].version
    BY <1>1
  <2>2. Busy(v) /\ job'[v].gen = job[v].gen /\ job'[v].version = job[v].version
    BY DEF Still, Busy
  <2> QED
    BY <2>1, <2>2, <1>a DEF Ahead
<1> QED
  BY <1>3, <1>4

-----------------------------------------------------------------------------
(* Time passes *)

\* A worker that waits and relies on its claim has renewed it recently.
LEMMA Renewed ==
  ASSUME TypeOK, NEW w \in Worker, Waiting(w), Keeps(w)
  PROVE  now - job[w].version < RenewEvery
<1>1. pc[w] = "generating" /\ ~RenewalDue(w)
  BY DEF Waiting, Keeps, Leasing
<1>2. ~(now - job[w].version >= RenewEvery)
  BY <1>1 DEF RenewalDue, Keeps, Leasing
<1> QED
  BY <1>2, Clocks, TimelyAssumptions, WorkerAssumptions

LEMMA TickStep ==
  ASSUME TimelyInv, \A w \in Worker : Waiting(w), Tick
  PROVE  LeaseKept' /\ Ahead'
<1>a. TypeOK /\ Engaged /\ LeaseKept /\ Ahead
  BY DEF TimelyInv, ClaimBase
<1>1. now' = now + 1 /\ UNCHANGED <<status, updatedAt, pc, job>>
  BY DEF Tick, rowVars
<1>2. LeaseKept'
  <2> SUFFICES ASSUME NEW w \in Worker, Keeps(w)
               PROVE  Matches(w)' /\ now' - job'[w].version <= RenewEvery
    BY <1>1 DEF LeaseKept, Keeps
  <2>1. Matches(w)'
    BY <1>1, <1>a, Keepers DEF Matches
  <2>2. now - job[w].version < RenewEvery
    BY <1>a, Renewed
  <2>3. now' - job'[w].version <= RenewEvery
    BY <1>1, <1>a, <2>2, Clocks, TimelyAssumptions
  <2> QED
    BY <2>1, <2>3
<1>3. Ahead'
  BY <1>1, <1>a DEF Ahead, Keeps, Busy
<1> QED
  BY <1>2, <1>3

LEMMA AgeFacts ==
  ASSUME TypeOK, Age
  PROVE  /\ now' = now /\ now = MaxTime /\ status' = status /\ pc' = pc
         /\ \A g \in Generation : updatedAt'[g] = Older(updatedAt[g])
         /\ \A w \in Worker : job'[w] = [job[w] EXCEPT !.version = Older(job[w].version)]
         /\ \A w \in Worker : /\ job'[w].gen = job[w].gen
                              /\ job'[w].lost = job[w].lost
                              /\ job'[w].version = Older(job[w].version)
<1>1. \A w \in Worker : job[w] \in Job
  BY DEF TypeOK
<1>2. \A w \in Worker : job'[w] = [job[w] EXCEPT !.version = Older(job[w].version)]
  BY DEF Age
<1>3. \A w \in Worker : /\ job'[w].gen = job[w].gen
                        /\ job'[w].lost = job[w].lost
                        /\ job'[w].version = Older(job[w].version)
  BY <1>1, <1>2 DEF Job
<1> QED
  BY <1>2, <1>3 DEF Age

LEMMA OlderType == \A t \in Time : Older(t) \in Time
BY WorkerAssumptions DEF Older, Time

LEMMA AgeBase == ClaimBase /\ Age => ClaimBase'
<1> SUFFICES ASSUME ClaimBase, Age PROVE ClaimBase'
  OBVIOUS
<1>a. TypeOK /\ Engaged /\ Versions
  BY DEF ClaimBase
<1>1. TypeOK'
  <2>1. updatedAt' \in [Generation -> Time]
    BY <1>a, OlderType DEF Age, TypeOK
  <2>2. job' \in [Worker -> Job]
    <3>1. \A w \in Worker : job[w] \in Job /\ Older(job[w].version) \in Time
      BY <1>a, OlderType DEF TypeOK, Job
    <3>2. \A w \in Worker : [job[w] EXCEPT !.version = Older(job[w].version)] \in Job
      BY <3>1, JobUpdate
    <3> QED
      BY <3>2 DEF Age
  <2> QED
    BY <2>1, <2>2, <1>a DEF Age, resultVars, TypeOK
<1>2. Engaged'
  BY <1>a, AgeFacts DEF Engaged, Busy
<1>3. Versions'
  <2>1. \A g \in Generation : updatedAt'[g] <= now'
    <3>1. \A g \in Generation : updatedAt[g] \in Nat /\ updatedAt[g] <= now
      BY <1>a, Clocks DEF Versions
    <3>2. \A g \in Generation : Older(updatedAt[g]) <= now
      BY <3>1, <1>a, Clocks DEF Older
    <3> QED
      BY <3>2, <1>a, AgeFacts
  <2>2. ASSUME NEW w \in Worker, Busy(w)'
        PROVE  /\ status'[job'[w].gen] \in {"processing", "completed", "failed"}
               /\ job'[w].version <= updatedAt'[job'[w].gen]
    <3>1. Busy(w) /\ job'[w].gen = job[w].gen
      BY <2>2, <1>a, AgeFacts DEF Busy
    <3>2. job[w].gen \in Generation /\ job[w].version <= updatedAt[job[w].gen]
          /\ status[job[w].gen] \in {"processing", "completed", "failed"}
      BY <3>1, <1>a, JobFields DEF Versions
    <3>3. job[w].version \in Nat /\ updatedAt[job[w].gen] \in Nat
      BY <3>2, <1>a, Clocks
    <3>4. Older(job[w].version) <= Older(updatedAt[job[w].gen])
      BY <3>2, <3>3 DEF Older
    <3> QED
      BY <3>1, <3>2, <3>4, <1>a, AgeFacts
  <2> QED
    BY <2>1, <2>2 DEF Versions
<1> QED
  BY <1>1, <1>2, <1>3 DEF ClaimBase

LEMMA AgeStep ==
  ASSUME TimelyInv, \A w \in Worker : Waiting(w), Age
  PROVE  LeaseKept' /\ Ahead'
<1>a. TypeOK /\ Engaged /\ LeaseKept /\ Ahead
  BY DEF TimelyInv, ClaimBase
<1>b. \A w \in Worker : Keeps(w)' <=> Keeps(w)
  BY <1>a, AgeFacts DEF Keeps
\* The versions that matter stay above 1: the clock is at its bound.
<1>1. ASSUME NEW w \in Worker, Keeps(w)
      PROVE  /\ job[w].version > 1 /\ Older(job[w].version) = job[w].version - 1
             /\ now - job[w].version < RenewEvery
  <2>1. now - job[w].version < RenewEvery
    BY <1>a, <1>1, Renewed
  <2>2. job[w].version > 1
    BY <2>1, <1>a, AgeFacts, Clocks, TimelyAssumptions, WorkerAssumptions
  <2> QED
    BY <2>1, <2>2, <1>a, Clocks DEF Older
<1>2. LeaseKept'
  <2> SUFFICES ASSUME NEW w \in Worker, Keeps(w)
               PROVE  Matches(w)' /\ now' - job'[w].version <= RenewEvery
    BY <1>b DEF LeaseKept, Keeps
  <2>1. /\ job[w].gen \in Generation /\ status[job[w].gen] = "processing"
        /\ updatedAt[job[w].gen] = job[w].version
    BY <1>a, Keepers
  <2>2. Matches(w)'
    BY <2>1, <1>a, AgeFacts DEF Matches
  <2>3. job'[w].version = job[w].version - 1 /\ now' = now
    BY <1>1, <1>a, AgeFacts
  <2>4. now' - job'[w].version <= RenewEvery
    BY <2>3, <1>1, <1>a, Clocks, TimelyAssumptions
  <2> QED
    BY <2>2, <2>4
<1>3. Ahead'
  <2> SUFFICES ASSUME NEW v \in Worker, NEW w \in Worker, v # w, Keeps(w)',
                      Busy(v)', job'[v].gen = job'[w].gen
               PROVE  job'[v].version < job'[w].version
    BY DEF Ahead
  <2>1. Keeps(w) /\ Busy(v) /\ job[v].gen = job[w].gen
    BY <1>b, <1>a, AgeFacts DEF Busy
  <2>2. job[v].version < job[w].version
    BY <2>1, <1>a DEF Ahead
  <2>3. job[v].version \in Nat /\ job[w].version \in Nat /\ job[w].version > 1
    BY <2>1, <1>1, <1>a, Clocks
  <2>4. Older(job[v].version) < Older(job[w].version)
    BY <2>2, <2>3 DEF Older
  <2> QED
    BY <2>4, <1>a, AgeFacts
<1> QED
  BY <1>2, <1>3

-----------------------------------------------------------------------------
(* Claims are taken and renewed *)

\* A row that can be claimed is nobody's, on whatever clock staleness is
\* measured: this is where RenewEvery has to fit into Lease - Skew.
LEMMA NobodyKeeps ==
  ASSUME TimelyInv, NEW staleBefore \in StaleBoundaries,
         NEW g \in Candidates(staleBefore)
  PROVE  /\ g \in Generation
         /\ \A w \in Worker : Keeps(w) => job[w].gen # g
         /\ \A v \in Worker : Busy(v) /\ job[v].gen = g => job[v].version < now
<1>a. TypeOK /\ Engaged /\ Versions /\ LeaseKept
  BY DEF TimelyInv, ClaimBase
<1>1. /\ g \in Generation
      /\ \/ status[g] = "pending"
         \/ status[g] = "processing" /\ updatedAt[g] < staleBefore
  BY DEF Candidates, Oldest, Rows
<1>2. staleBefore \in Int /\ staleBefore <= now + Skew - Lease /\ staleBefore <= now
  BY <1>a, Clocks, WorkerAssumptions DEF StaleBoundaries
<1>3. ASSUME NEW w \in Worker, Keeps(w), job[w].gen = g PROVE FALSE
  <2>1. status[g] = "processing" /\ updatedAt[g] = job[w].version
        /\ now - job[w].version <= RenewEvery
    BY <1>3, <1>a, Keepers
  <2>2. updatedAt[g] < staleBefore
    BY <2>1, <1>1
  <2> QED
    BY <2>1, <2>2, <1>1, <1>2, <1>a, Clocks, TimelyAssumptions, WorkerAssumptions
<1>4. ASSUME NEW v \in Worker, Busy(v), job[v].gen = g PROVE job[v].version < now
  <2>1. job[v].version <= updatedAt[g] /\ status[g] # "pending"
    BY <1>4, <1>a DEF Versions
  <2>2. updatedAt[g] < staleBefore
    BY <2>1, <1>1
  <2> QED
    BY <2>1, <2>2, <1>1, <1>2, <1>a, Clocks
<1> QED
  BY <1>1, <1>3, <1>4

\* A row that nobody relies on may get any version and status: workers that
\* rely on another row do not notice.
LEMMA TakenStep ==
  ASSUME TimelyInv, NEW g \in Generation, now' = now,
         \A h \in Generation : h # g => updatedAt'[h] = updatedAt[h] /\ status'[h] = status[h],
         \A v \in Worker :
           /\ job'[v].gen = job[v].gen /\ job'[v].version = job[v].version
           /\ Keeps(v)' => Keeps(v) /\ job[v].gen # g
  PROVE  LeaseKept' /\ Ahead'
<1>a. TypeOK /\ Engaged /\ LeaseKept /\ Ahead
  BY DEF TimelyInv, ClaimBase
<1>1. LeaseKept'
  <2> SUFFICES ASSUME NEW w \in Worker, Keeps(w)'
               PROVE  Matches(w)' /\ now' - job'[w].version <= RenewEvery
    BY DEF LeaseKept, Keeps
  <2>1. Keeps(w) /\ job[w].gen # g
    OBVIOUS
  <2>2. /\ job[w].gen \in Generation /\ status[job[w].gen] = "processing"
        /\ updatedAt[job[w].gen] = job[w].version /\ now - job[w].version <= RenewEvery
    BY <2>1, <1>a, Keepers
  <2> QED
    BY <2>1, <2>2 DEF Matches
<1>2. Ahead'
  BY <1>a DEF Ahead, Busy
<1> QED
  BY <1>1, <1>2

LEMMA ClaimKeeps ==
  ASSUME TimelyInv, NEW w \in Worker, ClaimNext(w)
  PROVE  LeaseKept' /\ Ahead'
<1>a. TypeOK /\ Engaged /\ LeaseKept /\ Ahead
  BY DEF TimelyInv, ClaimBase
<1>b. pc \in [Worker -> Phase] /\ job \in [Worker -> Job]
  BY <1>a DEF TypeOK
<1> PICK staleBefore \in StaleBoundaries : \E h \in Candidates(staleBefore) :
      /\ Take(h)
      /\ job' = [job EXCEPT ![w] = [NoJob EXCEPT !.gen = h, !.version = now]]
      /\ Goto(w, Claimed(h))
  BY DEF ClaimNext
<1> PICK g \in Candidates(staleBefore) :
      /\ Take(g)
      /\ job' = [job EXCEPT ![w] = [NoJob EXCEPT !.gen = g, !.version = now]]
      /\ Goto(w, Claimed(g))
  OBVIOUS
<1>1. /\ g \in Generation
      /\ \A v \in Worker : Keeps(v) => job[v].gen # g
      /\ \A v \in Worker : Busy(v) /\ job[v].gen = g => job[v].version < now
  BY NobodyKeeps
<1>2. /\ now' = now /\ updatedAt'[g] = now /\ status'[g] = "processing"
      /\ \A h \in Generation : h # g => updatedAt'[h] = updatedAt[h] /\ status'[h] = status[h]
  BY <1>1, <1>a DEF ClaimNext, Take, TypeOK
<1>3. job'[w].gen = g /\ job'[w].version = now
  BY <1>b DEF NoJob
<1>4. \A v \in Worker : v # w => job'[v] = job[v] /\ pc'[v] = pc[v]
  BY <1>b DEF Goto
<1>5. \A v \in Worker : v # w => (Keeps(v)' <=> Keeps(v))
  BY <1>4 DEF Keeps
<1>6. ASSUME NEW v \in Worker, Keeps(v)'
      PROVE  Matches(v)' /\ now' - job'[v].version <= RenewEvery
  <2>1. CASE v = w
    BY <2>1, <1>1, <1>2, <1>3, <1>a, Clocks, TimelyAssumptions DEF Matches
  <2>2. CASE v # w
    <3>1. /\ job[v].gen \in Generation /\ status[job[v].gen] = "processing"
          /\ updatedAt[job[v].gen] = job[v].version /\ now - job[v].version <= RenewEvery
      BY <2>2, <1>5, <1>6, <1>a, Keepers
    <3>2. job[v].gen # g
      BY <2>2, <1>1, <1>5, <1>6
    <3> QED
      BY <3>1, <3>2, <2>2, <1>2, <1>4 DEF Matches
  <2> QED
    BY <2>1, <2>2
<1>7. LeaseKept'
  BY <1>6 DEF LeaseKept, Keeps
<1>8. Ahead'
  <2> SUFFICES ASSUME NEW v \in Worker, NEW u \in Worker, v # u, Keeps(u)',
                      Busy(v)', job'[v].gen = job'[u].gen
               PROVE  job'[v].version < job'[u].version
    BY DEF Ahead
  <2>1. CASE u = w
    BY <2>1, <1>1, <1>3, <1>4 DEF Busy
  <2>2. CASE u # w
    <3>1. Keeps(u) /\ job'[u] = job[u] /\ job[u].gen # g
      BY <2>2, <1>1, <1>4, <1>5
    <3>2. v # w /\ job'[v] = job[v] /\ Busy(v)
      BY <3>1, <1>3, <1>4 DEF Busy
    <3> QED
      BY <3>1, <3>2, <1>a DEF Ahead
  <2> QED
    BY <2>1, <2>2
<1> QED
  BY <1>7, <1>8

\* A renewal of a claim that is relied on finds it; nobody else relies on it.
LEMMA RenewKeeps ==
  ASSUME TimelyInv, NEW w \in Worker, RenewClaim(w)
  PROVE  LeaseKept' /\ Ahead'
<1>a. TypeOK /\ Engaged /\ LeaseKept /\ Ahead
  BY DEF TimelyInv, ClaimBase
<1>b. pc \in [Worker -> Phase] /\ job \in [Worker -> Job]
  BY <1>a DEF TypeOK
<1>1. Keeps(w) /\ Matches(w)
  BY <1>a DEF RenewClaim, Keeps, LeaseKept
<1>2. Busy(w) /\ job[w].gen \in Generation /\ status[job[w].gen] = "processing"
  BY <1>1, <1>a, Keepers
<1>3. /\ updatedAt' = [updatedAt EXCEPT ![job[w].gen] = now]
      /\ job' = [job EXCEPT ![w].version = now]
      /\ now' = now /\ status' = status /\ pc' = pc
  BY <1>1 DEF RenewClaim
<1>4. /\ updatedAt'[job[w].gen] = now
      /\ \A h \in Generation : h # job[w].gen => updatedAt'[h] = updatedAt[h]
  BY <1>2, <1>3, <1>a DEF TypeOK
<1>5. job'[w].gen = job[w].gen /\ job'[w].version = now /\ job'[w].lost = job[w].lost
  BY <1>3, <1>b DEF Job
<1>6. \A v \in Worker : v # w => job'[v] = job[v]
  BY <1>3, <1>b
<1>7. \A v \in Worker : Keeps(v)' <=> Keeps(v)
  BY <1>3, <1>5, <1>6 DEF Keeps
<1>8. \A v \in Worker : v # w /\ Keeps(v) => job[v].gen # job[w].gen
  BY <1>1, <1>2, <1>a, OnlyKeeper
<1>9. ASSUME NEW v \in Worker, Keeps(v)
      PROVE  Matches(v)' /\ now' - job'[v].version <= RenewEvery
  <2>1. CASE v = w
    BY <2>1, <1>2, <1>3, <1>4, <1>5, <1>a, Clocks, TimelyAssumptions DEF Matches
  <2>2. CASE v # w
    <3>1. /\ job[v].gen \in Generation /\ status[job[v].gen] = "processing"
          /\ updatedAt[job[v].gen] = job[v].version /\ now - job[v].version <= RenewEvery
      BY <1>9, <1>a, Keepers
    <3> QED
      BY <3>1, <2>2, <1>3, <1>4, <1>6, <1>8, <1>9 DEF Matches
  <2> QED
    BY <2>1, <2>2
<1>10. LeaseKept'
  BY <1>7, <1>9 DEF LeaseKept, Keeps
<1>11. Ahead'
  <2> SUFFICES ASSUME NEW v \in Worker, NEW u \in Worker, v # u, Keeps(u)',
                      Busy(v)', job'[v].gen = job'[u].gen
               PROVE  job'[v].version < job'[u].version
    BY DEF Ahead
  <2>1. Keeps(u) /\ Busy(v) /\ job[v].gen = job[u].gen
    BY <1>5, <1>6, <1>7 DEF Busy
  <2>2. job[v].version < job[u].version
    BY <2>1, <1>a DEF Ahead
  <2>3. v # w
    BY <2>1, <1>8
  <2>4. CASE u = w
    <3>1. job[w].version <= now
      BY <1>1, <1>2, <1>a, Clocks DEF TimelyInv, ClaimBase, Versions
    <3> QED
      BY <3>1, <2>2, <2>3, <2>4, <1>5, <1>6, <1>a, Clocks
  <2>5. CASE u # w
    BY <2>2, <2>3, <2>5, <1>6
  <2> QED
    BY <2>4, <2>5
<1> QED
  BY <1>10, <1>11

\* A failed renewal ends the worker's reliance; the lost answer of one that
\* took effect gives the row a version nobody holds.
LEMMA RenewErrorKeeps ==
  ASSUME TimelyInv, NEW w \in Worker, RenewError(w)
  PROVE  LeaseKept' /\ Ahead'
<1>a. TypeOK /\ Engaged /\ LeaseKept /\ Ahead
  BY DEF TimelyInv, ClaimBase
<1>b. job \in [Worker -> Job]
  BY <1>a DEF TypeOK
<1>1. Keeps(w) /\ Matches(w) /\ Busy(w) /\ job[w].gen \in Generation
  <2>1. Keeps(w) /\ Matches(w)
    BY <1>a DEF RenewError, Keeps, LeaseKept
  <2> QED
    BY <2>1, <1>a, Keepers
<1>2. /\ now' = now /\ status' = status /\ pc' = pc
      /\ job' = [job EXCEPT ![w].lost = TRUE]
      /\ \/ updatedAt' = updatedAt
         \/ updatedAt' = [updatedAt EXCEPT ![job[w].gen] = now]
  BY DEF RenewError
<1>3. \A v \in Worker : job'[v].gen = job[v].gen /\ job'[v].version = job[v].version
  BY <1>2, <1>b DEF Job
<1>4. job'[w].lost = TRUE /\ \A v \in Worker : v # w => job'[v] = job[v]
  BY <1>2, <1>b DEF Job
<1>5. \A v \in Worker : Keeps(v)' => v # w /\ Keeps(v)
  BY <1>2, <1>4 DEF Keeps
<1>6. \A v \in Worker : v # w /\ Keeps(v) => job[v].gen # job[w].gen
  BY <1>1, <1>a, OnlyKeeper
<1>7. \A h \in Generation : h # job[w].gen => updatedAt'[h] = updatedAt[h]
  BY <1>2, <1>a DEF TypeOK
<1> QED
  BY <1>1, <1>2, <1>3, <1>5, <1>6, <1>7, TakenStep

-----------------------------------------------------------------------------
(* Every step *)

LEMMA TimelyStep == TimelyInv /\ [TimelyNext]_vars => TimelyInv'
<1> SUFFICES ASSUME TimelyInv, [TimelyNext]_vars PROVE TimelyInv'
  OBVIOUS
<1>a. ClaimBase /\ TypeOK /\ Engaged /\ LeaseKept /\ Ahead
  BY DEF TimelyInv, ClaimBase
<1>b. ClaimBase'
  <2>1. CASE Age
    BY <2>1, <1>a, AgeBase
  <2>2. CASE [Next]_vars
    BY <2>2, <1>a, BaseStep
  <2> QED
    BY <2>1, <2>2 DEF TimelyNext, Pass, Next
<1>c. pc \in [Worker -> Phase] /\ job \in [Worker -> Job]
  BY <1>a DEF TypeOK
<1>d. Still => LeaseKept' /\ Ahead'
  BY StillStep
<1> SUFFICES LeaseKept' /\ Ahead'
  BY <1>b DEF TimelyInv
<1>1. CASE Pass
  BY <1>1, TickStep, AgeStep DEF Pass
<1>2. ASSUME NEW g \in Generation, Submit(g) PROVE LeaseKept' /\ Ahead'
  <2>1. /\ now' = now /\ UNCHANGED <<pc, job>>
        /\ \A h \in Generation : h # g => updatedAt'[h] = updatedAt[h] /\ status'[h] = status[h]
    BY <1>2, <1>a DEF Submit, TypeOK
  <2>2. \A v \in Worker : Keeps(v) => job[v].gen # g
    BY <1>2, <1>a, Keepers DEF Submit
  <2>3. \A v \in Worker : Keeps(v)' <=> Keeps(v)
    BY <2>1 DEF Keeps
  <2> QED
    BY <2>1, <2>2, <2>3, TakenStep
<1>3. ASSUME NEW w \in Worker, Start(w) PROVE LeaseKept' /\ Ahead'
  <2>1. Still
    BY <1>3, <1>c DEF Still, Keeps, Leasing, Start, Goto, rowVars
  <2> QED
    BY <2>1, <1>d
<1>4. ASSUME NEW w \in Worker, Stop(w) PROVE LeaseKept' /\ Ahead'
  <2>1. Still
    BY <1>4, <1>c DEF Still, Keeps, Leasing, Stop, rowVars
  <2> QED
    BY <2>1, <1>d
<1>5. ASSUME NEW w \in Worker, Crash(w) PROVE LeaseKept' /\ Ahead'
  <2>1. Still
    BY <1>5, <1>c DEF Still, Keeps, Leasing, Crash, Goto, rowVars, NoJob
  <2> QED
    BY <2>1, <1>d
<1>6. ASSUME NEW w \in Worker, ClaimNext(w) PROVE LeaseKept' /\ Ahead'
  BY <1>6, ClaimKeeps
<1>7. ASSUME NEW w \in Worker, ClaimReplyLost(w) PROVE LeaseKept' /\ Ahead'
  <2> PICK staleBefore \in StaleBoundaries : \E h \in Candidates(staleBefore) : Take(h)
    BY <1>7 DEF ClaimReplyLost
  <2> PICK g \in Candidates(staleBefore) : Take(g)
    OBVIOUS
  <2>1. g \in Generation /\ \A v \in Worker : Keeps(v) => job[v].gen # g
    BY NobodyKeeps
  <2>2. /\ now' = now /\ UNCHANGED <<pc, job>>
        /\ \A h \in Generation : h # g => updatedAt'[h] = updatedAt[h] /\ status'[h] = status[h]
    BY <1>7, <1>a DEF ClaimReplyLost, Take, TypeOK
  <2>3. \A v \in Worker : Keeps(v)' <=> Keeps(v)
    BY <2>2 DEF Keeps
  <2> QED
    BY <2>1, <2>2, <2>3, TakenStep
<1>8. ASSUME NEW w \in Worker, RenewClaim(w) PROVE LeaseKept' /\ Ahead'
  BY <1>8, RenewKeeps
<1>9. ASSUME NEW w \in Worker, RenewError(w) PROVE LeaseKept' /\ Ahead'
  BY <1>9, RenewErrorKeeps
<1>10. ASSUME NEW w \in Worker, Generate(w) PROVE LeaseKept' /\ Ahead'
  <2> PICK n \in 1..MaxOutputs : job' = [job EXCEPT ![w].outputs = n]
    BY <1>10 DEF Generate
  <2>1. \A v \in Worker : /\ job'[v].gen = job[v].gen /\ job'[v].lost = job[v].lost
                          /\ job'[v].version = job[v].version
    BY <1>c DEF Job
  <2>2. Still
    BY <1>10, <2>1, <1>c DEF Still, Keeps, Leasing, Generate, Goto, rowVars
  <2> QED
    BY <2>2, <1>d
<1>11. ASSUME NEW w \in Worker, GenerateError(w) PROVE LeaseKept' /\ Ahead'
  <2>1. Still
    BY <1>11, <1>c DEF Still, Keeps, Leasing, GenerateError, Goto, rowVars
  <2> QED
    BY <2>1, <1>d
<1>12. ASSUME NEW w \in Worker, StoreGenerated(w) PROVE LeaseKept' /\ Ahead'
  <2> PICK k \in Key : job' = [job EXCEPT ![w].keys = @ \cup {k}]
    BY <1>12 DEF StoreGenerated
  <2>1. \A v \in Worker : /\ job'[v].gen = job[v].gen /\ job'[v].lost = job[v].lost
                          /\ job'[v].version = job[v].version
    BY <1>c DEF Job
  <2>2. Still
    BY <1>12, <2>1, <1>c DEF Still, Keeps, Leasing, StoreGenerated, rowVars
  <2> QED
    BY <2>2, <1>d
<1>13. ASSUME NEW w \in Worker, StoreError(w) PROVE LeaseKept' /\ Ahead'
  <2>1. Still
    BY <1>13, <1>c DEF Still, Keeps, Leasing, StoreError, Goto, rowVars
  <2> QED
    BY <2>1, <1>d
<1>14. ASSUME NEW w \in Worker, StopLease(w) PROVE LeaseKept' /\ Ahead'
  <2>1. Still
    BY <1>14, <1>c DEF Still, Keeps, Leasing, StopLease, Goto, rowVars
  <2> QED
    BY <2>1, <1>d
<1>15. ASSUME NEW w \in Worker, FindClaim(w) PROVE LeaseKept' /\ Ahead'
  <2>1. Still
    BY <1>15, <1>c DEF Still, Keeps, Leasing, FindClaim, Goto, rowVars
  <2> QED
    BY <2>1, <1>d
<1>16. ASSUME NEW w \in Worker, CompleteClaim(w) PROVE LeaseKept' /\ Ahead'
  <2>1. CASE Matches(w)
    <3>1. /\ WriteResult(job[w].gen, job[w].keys) /\ Finish(w) /\ now' = now
          /\ pc[w] = "committing"
      BY <1>16, <2>1 DEF CompleteClaim
    <3>2. ~Keeps(w)' /\ job'[w].gen = NoGeneration
      BY <3>1, <1>c DEF Finish, Keeps, Leasing, NoJob
    <3>3. \A v \in Worker : v # w => job'[v] = job[v] /\ pc'[v] = pc[v]
      BY <3>1, <1>c DEF Finish
    <3>4. \A g \in Generation : g = job[w].gen \/ status'[g] = status[g]
      BY <3>1, <1>a DEF WriteResult, TypeOK
    <3>5. Busy(w) /\ updatedAt' = updatedAt
      BY <3>1, <1>a DEF Engaged, WriteResult
    <3>6. Still
      BY <2>1, <3>1, <3>2, <3>3, <3>4, <3>5 DEF Still, Keeps
    <3> QED
      BY <3>6, <1>d
  <2>2. CASE ~Matches(w)
    <3>1. Still
      BY <1>16, <2>2, <1>c DEF Still, Keeps, Leasing, CompleteClaim, Goto, rowVars
    <3> QED
      BY <3>1, <1>d
  <2> QED
    BY <2>1, <2>2
<1>17. ASSUME NEW w \in Worker, CompleteError(w) PROVE LeaseKept' /\ Ahead'
  <2>1. Still
    BY <1>17, <1>c DEF Still, Keeps, Leasing, CompleteError, Goto, rowVars
  <2> QED
    BY <2>1, <1>d
<1>18. ASSUME NEW w \in Worker, CommitReplyLost(w) PROVE LeaseKept' /\ Ahead'
  <2>1. /\ WriteResult(job[w].gen, job[w].keys) /\ Goto(w, "cleanup") /\ Matches(w)
        /\ now' = now /\ job' = job /\ pc[w] = "committing"
    BY <1>18 DEF CommitReplyLost
  <2>2. ~Keeps(w)' /\ \A v \in Worker : v # w => pc'[v] = pc[v]
    BY <2>1, <1>c DEF Goto, Keeps, Leasing
  <2>3. \A g \in Generation : g = job[w].gen \/ status'[g] = status[g]
    BY <2>1, <1>a DEF WriteResult, TypeOK
  <2>4. Busy(w) /\ updatedAt' = updatedAt
    BY <2>1, <1>a DEF Engaged, WriteResult
  <2>5. Still
    BY <2>1, <2>2, <2>3, <2>4 DEF Still, Keeps
  <2> QED
    BY <2>5, <1>d
<1>19. ASSUME NEW w \in Worker, Discard(w) PROVE LeaseKept' /\ Ahead'
  <2>1. Still
    BY <1>19, <1>c DEF Still, Keeps, Leasing, Discard, Finish, Goto, rowVars, NoJob
  <2> QED
    BY <2>1, <1>d
<1>20. ASSUME NEW w \in Worker, Cleanup(w) PROVE LeaseKept' /\ Ahead'
  <2>1. Still
    BY <1>20, <1>c DEF Still, Keeps, Leasing, Cleanup, Finish, Goto, rowVars, NoJob
  <2> QED
    BY <2>1, <1>d
<1>21. ASSUME NEW w \in Worker, FailClaim(w) PROVE LeaseKept' /\ Ahead'
  <2>1. /\ Finish(w) /\ now' = now /\ updatedAt' = updatedAt
        /\ status' = [status EXCEPT ![job[w].gen] = IF Matches(w) THEN "failed" ELSE @]
        /\ pc[w] \in {"failing", "rejecting"}
    BY <1>21 DEF FailClaim
  <2>2. ~Keeps(w)' /\ job'[w].gen = NoGeneration
    BY <2>1, <1>c DEF Finish, Keeps, Leasing, NoJob
  <2>3. \A v \in Worker : v # w => job'[v] = job[v] /\ pc'[v] = pc[v]
    BY <2>1, <1>c DEF Finish
  <2>4. \A g \in Generation : status'[g] = status[g] \/ (g = job[w].gen /\ Matches(w))
    BY <2>1, <1>a DEF TypeOK
  <2>5. Busy(w)
    BY <2>1, <1>a DEF Engaged
  <2>6. Still
    BY <2>1, <2>2, <2>3, <2>4, <2>5 DEF Still, Keeps
  <2> QED
    BY <2>6, <1>d
<1>22. ASSUME NEW w \in Worker, FailError(w) PROVE LeaseKept' /\ Ahead'
  <2>1. Still
    BY <1>22, <1>c DEF Still, Keeps, Leasing, FailError, Finish, rowVars, NoJob
  <2> QED
    BY <2>1, <1>d
<1>23. CASE UNCHANGED vars
  <2>1. Still
    BY <1>23 DEF Still, Keeps, vars
  <2> QED
    BY <2>1, <1>d
<1> QED
  BY <1>1, <1>2, <1>3, <1>4, <1>5, <1>6, <1>7, <1>8, <1>9, <1>10, <1>11,
     <1>12, <1>13, <1>14, <1>15, <1>16, <1>17, <1>18, <1>19, <1>20, <1>21,
     <1>22, <1>23 DEF TimelyNext, Process, Disturb

LEMMA InitTimely == Init => TimelyInv
<1> SUFFICES ASSUME Init PROVE TimelyInv
  OBVIOUS
<1>1. ClaimBase
  BY InitClaim DEF ClaimInv, ClaimBase
<1>2. \A w \in Worker : ~Keeps(w)
  BY DEF Init, Keeps, Leasing
<1> QED
  BY <1>1, <1>2 DEF TimelyInv, LeaseKept, Ahead, Keeps

\* While a worker is alive and its renewals succeed, no other takes its work
\* away: for any number of workers and rows, whenever the renewal interval
\* fits into the lease less the skew of the clocks (AiGenerationClaimLease).
THEOREM LeaseAlwaysKept == TimelySpec => []LeaseKept
<1>1. TimelyInv => LeaseKept
  BY DEF TimelyInv
<1> QED
  BY <1>1, InitTimely, TimelyStep, PTL DEF TimelySpec
==============================================================================
