---------------------------- MODULE MCTimelyWorker ----------------------------
(* TimelyWorker on small instances; no symmetry, since liveness is checked. *)
EXTENDS TimelyWorker
==============================================================================
