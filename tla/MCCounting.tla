----------------------------- MODULE MCCounting -----------------------------
(***************************************************************************)
(* Counting for TLC.  argv[1] ranges from -1, which main refuses, to more *)
(* than MAX_THREADS, which it refuses too.                                 *)
(***************************************************************************)
EXTENDS Counting

ArgValues == -1 .. MAX_THREADS + 1
=============================================================================
