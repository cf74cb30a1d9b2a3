----------------------------- MODULE MCMediaBatch -----------------------------
(* MediaBatch on a small instance. *)
EXTENDS MediaBatch
===============================================================================
