------------------------------ MODULE MCSessions ------------------------------
(* Sessions on small instances. *)
EXTENDS Sessions, TLC

\* Token pairs and requesters are interchangeable.
Symmetry == Permutations(Pair) \cup Permutations(Request)
==============================================================================
