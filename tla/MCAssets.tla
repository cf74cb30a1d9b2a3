------------------------------- MODULE MCAssets -------------------------------
(* Assets on small instances. *)
EXTENDS Assets, TLC

\* Uploads and requesters are interchangeable.
Symmetry == Permutations(Asset) \cup Permutations(Request)
==============================================================================
