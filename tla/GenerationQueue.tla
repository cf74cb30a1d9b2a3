--------------------------- MODULE GenerationQueue ---------------------------
(***************************************************************************)
(* What the table of media generations promises to the rest of the         *)
(* server, with no clocks, versions, files or failures in sight: every     *)
(* generation is settled at most once, only by the worker that owns it at  *)
(* that moment, a worker owns at most one generation, and ownership may    *)
(* be taken away from a worker without its knowledge.                      *)
(* GenerationWorker implements this specification.                         *)
(***************************************************************************)
CONSTANTS
  Worker,       \* the generation workers, one per server process
  Generation,   \* the rows of "ai_generations"
  Message,      \* the assistant messages that can carry generated media
  NoWorker,     \* owner of a generation nobody is working on
  NoMessage     \* result of a generation that has none

VARIABLES
  state,        \* lifecycle of each generation
  owner,        \* the worker whose claim on the generation is current
  outcome       \* the assistant message that carries the generated media

vars == <<state, owner, outcome>>

Unsettled == {"pending", "processing"}

Init ==
  /\ state = [g \in Generation |-> "absent"]
  /\ owner = [g \in Generation |-> NoWorker]
  /\ outcome = [g \in Generation |-> NoMessage]

\* A chat turn routed to media generation creates the row.
Submit(g) ==
  /\ state[g] = "absent"
  /\ state' = [state EXCEPT ![g] = "pending"]
  /\ UNCHANGED <<owner, outcome>>

\* Mutant: any row with an old enough version is claimed, settled or not.
TakeAny(w, g) ==
  /\ state[g] # "absent"
  /\ \A h \in Generation : owner[h] # w
  /\ state' = [state EXCEPT ![g] = "processing"]
  /\ owner' = [owner EXCEPT ![g] = w]
  /\ UNCHANGED outcome

\* A worker without work takes a generation: a waiting one, or one that is
\* being processed, whoever owned it before.
Take(w, g) ==
  /\ state[g] \in Unsettled
  /\ \A h \in Generation : owner[h] # w
  /\ state' = [state EXCEPT ![g] = "processing"]
  /\ owner' = [owner EXCEPT ![g] = w]
  /\ UNCHANGED outcome

\* A waiting generation is taken by a worker that never learns of it.
Strand(g) ==
  /\ state[g] = "pending"
  /\ state' = [state EXCEPT ![g] = "processing"]
  /\ UNCHANGED <<owner, outcome>>

\* The owner crashes, is shut down or loses its lease; the row stays
\* "processing" for somebody else.
Release(g) ==
  /\ owner[g] # NoWorker
  /\ owner' = [owner EXCEPT ![g] = NoWorker]
  /\ UNCHANGED <<state, outcome>>

Complete(g) ==
  /\ owner[g] # NoWorker
  /\ state' = [state EXCEPT ![g] = "completed"]
  /\ owner' = [owner EXCEPT ![g] = NoWorker]
  /\ \E m \in Message : outcome' = [outcome EXCEPT ![g] = m]

Fail(g) ==
  /\ owner[g] # NoWorker
  /\ state' = [state EXCEPT ![g] = "failed"]
  /\ owner' = [owner EXCEPT ![g] = NoWorker]
  /\ UNCHANGED outcome

Next ==
  \E g \in Generation :
    \/ Submit(g)
    \/ \E w \in Worker : Take(w, g)
    \/ Strand(g)
    \/ Release(g)
    \/ Complete(g)
    \/ Fail(g)

Spec == Init /\ [][Next]_vars
==============================================================================
