---------------------------- MODULE AnswerDelivery ----------------------------
(***************************************************************************)
(* What the two transports between the agent and the browser promise,      *)
(* without lines, chunks, frames, buffers and heartbeats: the client sees  *)
(* the parts of the answer in order and each once, the server takes only a *)
(* whole answer for one, and the stream ends with what the server decided. *)
(***************************************************************************)
EXTENDS Naturals, Sequences

VARIABLES
  said,     \* parts of the answer the agent has sent
  whole,    \* the agent has sent all of it
  seen,     \* parts written to the client
  gone,     \* the client takes no more
  verdict,  \* what the server makes of the answer
  closing   \* the last event written to the client

vars == <<said, whole, seen, gone, verdict, closing>>

Init ==
  /\ said = 0 /\ whole = FALSE
  /\ seen = <<>> /\ gone = FALSE
  /\ verdict = "none" /\ closing = "none"

\* Only as long as the server waits is a part passed on, and only the next one.
Pass ==
  /\ ~gone /\ verdict = "none"
  /\ Len(seen) < said
  /\ seen' = Append(seen, Len(seen) + 1)
  /\ UNCHANGED <<said, whole, gone, verdict, closing>>

Say ==
  /\ ~whole
  /\ \/ said' = said + 1 /\ UNCHANGED whole
     \/ whole' = TRUE /\ UNCHANGED said
  /\ UNCHANGED <<seen, gone, verdict, closing>>

\* An answer counts once it is complete and its parts have been passed on.
Answer ==
  /\ verdict = "none"
  /\ whole
  /\ gone \/ Len(seen) = said
  /\ verdict' = "answered"
  /\ UNCHANGED <<said, whole, seen, gone, closing>>

GiveUp ==
  /\ verdict = "none"
  /\ verdict' = "unavailable"
  /\ UNCHANGED <<said, whole, seen, gone, closing>>

Close ==
  /\ ~gone
  /\ closing = "none"
  /\ \/ verdict = "answered" /\ closing' = "completed"
     \/ verdict = "unavailable" /\ closing' = "failed"
  /\ UNCHANGED <<said, whole, seen, gone, verdict>>

Leave ==
  /\ gone' = TRUE
  /\ UNCHANGED <<said, whole, seen, verdict, closing>>

Next == Pass \/ Say \/ Answer \/ GiveUp \/ Close \/ Leave

Spec == Init /\ [][Next]_vars
===============================================================================
