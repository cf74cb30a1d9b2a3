----------------------------- MODULE TimelyWorker -----------------------------
(***************************************************************************)
(* GenerationWorker under the timing its configuration is made for: a      *)
(* database statement, a poll or a file operation takes less than a tick,  *)
(* and the renewal timer fires every third of the lease.  Only a provider  *)
(* call and a stopped process let time pass.                               *)
(*                                                                         *)
(* Time is unbounded: once the clock has reached MaxTime, a tick moves     *)
(* every timestamp one back instead, so that only ages matter.             *)
(***************************************************************************)
EXTENDS GenerationWorker

CONSTANT RenewEvery   \* floor(leaseMs / 3), in ticks

ASSUME TimelyAssumptions ==
  /\ RenewEvery \in Nat \ {0}
  /\ RenewEvery <= Lease - Skew
  /\ MaxTime > Lease + Skew + 1

Older(t) == IF t = 0 THEN 0 ELSE t - 1

\* A timestamp that reached 0 is older than any lease.  The versions that
\* matter never get there (LeaseKept), so no two of them are confused.
Age ==
  /\ now = MaxTime
  /\ updatedAt' = [g \in Generation |-> Older(updatedAt[g])]
  /\ job' = [w \in Worker |-> [job[w] EXCEPT !.version = Older(@)]]
  /\ UNCHANGED <<now, status, resultVars, files, pc, aborted, faults>>

\* Mutant: the timer fires only when the lease has run out.
RenewalDueLate(w) ==
  pc[w] \in Leasing /\ ~job[w].lost /\ now - job[w].version >= Lease

\* The renewal timer of the worker's lease has fired.
RenewalDue(w) ==
  pc[w] \in Leasing /\ ~job[w].lost /\ now - job[w].version >= RenewEvery

\* Something every worker's clock agrees may be claimed.
Claimable == Candidates(now - Skew - Lease) # {}

\* Time passes only when every worker waits: stopped, for its provider, or
\* for work that is not there.
Waiting(w) ==
  \/ pc[w] = "stopped"
  \/ pc[w] = "generating" /\ ~RenewalDue(w)
  \/ pc[w] = "idle" /\ ~Claimable

Pass == (\A w \in Worker : Waiting(w)) /\ (Tick \/ Age)

TimelyNext ==
  \/ Pass
  \/ \E g \in Generation : Submit(g)
  \/ \E w \in Worker : Start(w) \/ Process(w) \/ RenewClaim(w) \/ Disturb(w)

\* Timers fire, a provider call ends (its timeout sees to that), the event
\* loop runs what is ready, and a stopped process is started again.  Nothing
\* is assumed of failures, only that there are at most MaxFaults of them.
Fairness ==
  /\ WF_vars(Pass)
  /\ \A w \in Worker :
       WF_vars(Start(w)) /\ WF_vars(Process(w)) /\ WF_vars(RenewClaim(w))

TimelySpec == Init /\ [][TimelyNext]_vars /\ Fairness

-----------------------------------------------------------------------------

\* A live worker that has not been told otherwise holds the current claim
\* until its attempt is settled, and its lease is never older than the
\* renewal interval: no other worker takes over work that is being done, even
\* with the clocks of application and database two thirds of a lease apart.
LeaseKept ==
  \A w \in Worker :
    pc[w] \in Leasing \cup {"completing", "committing"} /\ ~job[w].lost =>
      Matches(w) /\ now - job[w].version <= RenewEvery

\* Every generation that was queued is settled, whatever dies on the way: a
\* row left "processing" by a crash, a shutdown or a failed statement is
\* picked up again when its lease has run out.
EverySubmissionSettles ==
  \A g \in Generation :
    status[g] = "pending" ~> status[g] \in {"completed", "failed"}
==============================================================================
