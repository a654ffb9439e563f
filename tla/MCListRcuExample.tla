-------------------------- MODULE MCListRcuExample --------------------------
(* The instance of ListRcuExample for TLC.                                 *)
EXTENDS ListRcuExample, TLC

AllCalls == [t \in Tasks |-> Ops]
=============================================================================
