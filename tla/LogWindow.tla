------------------------------ MODULE LogWindow -------------------------------
(***************************************************************************)
(* What the store of recent logs promises, without its array: the newest   *)
(* `Capacity' entries ever retained, newest first, numbered in the order   *)
(* in which they were written.                                             *)
(***************************************************************************)
EXTENDS Integers, Sequences

CONSTANTS
  Content,   \* what an entry holds besides its number
  Capacity   \* how many entries are kept

VARIABLES
  window,  \* the entries, newest first
  count    \* how many were ever retained

LeastOf(a, b) == IF a < b THEN a ELSE b

Init ==
  /\ window = <<>>
  /\ count = 0

\* The new entry goes in front; what does not fit any more falls off the end.
Retain(content) ==
  LET longer == <<[id |-> count + 1, content |-> content]>> \o window
  IN  /\ window' = SubSeq(longer, 1, LeastOf(Len(longer), Capacity))
      /\ count' = count + 1

Next == \E content \in Content : Retain(content)

Spec == Init /\ [][Next]_<<window, count>>
===============================================================================
