------------------------------ MODULE MCMediaTurn -----------------------------
(* MediaTurn on small instances; no symmetry, since liveness is checked. *)
EXTENDS MediaTurn
==============================================================================
