------------------------------- MODULE MCExecutor -------------------------------
(***************************************************************************)
(* A child that writes up to MaxChunks chunks to each stream through pipes *)
(* that hold fewer, so that every blocked write and every interleaving of  *)
(* the two drains with it occurs, and exits with 0, with 3 or by a signal. *)
(***************************************************************************)
EXTENDS Executor

Statuses == {0, 3, -1}
================================================================================
