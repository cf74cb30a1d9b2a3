---------------------------- MODULE MCCursorPaging ----------------------------
(* CursorPaging on a small instance. *)
EXTENDS CursorPaging
===============================================================================
