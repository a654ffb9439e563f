----------------------------- MODULE MCFileCopy -----------------------------
(***************************************************************************)
(* FileCopy for TLC: each of the programs, and a caller of every function  *)
(* of the library.                                                         *)
(***************************************************************************)
EXTENDS FileCopy

AllFns == Fns
AllProgs == {"library", "reg_fileio", "mmap_fileio", "mmap_simple"}
=============================================================================
