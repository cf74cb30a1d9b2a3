-------------------------- MODULE MCGenerationWorker --------------------------
(* GenerationWorker on small instances. *)
EXTENDS GenerationWorker, TLC

\* Workers and keys are interchangeable; generations only where none of them
\* is malformed or without a chat run.
Symmetry == Permutations(Worker) \cup Permutations(Key)
==============================================================================
