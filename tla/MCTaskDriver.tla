---------------------------- MODULE MCTaskDriver ----------------------------
(***************************************************************************)
(* ModuleLife and TaskDriver for TLC: each of the modules, loaded and      *)
(* unloaded again and again.                                               *)
(***************************************************************************)
EXTENDS TaskDriver

AllModules == AllocModules \cup {"foreach"}
\* One that never leads to 0, one that does in one step, one in several, none,
\* and two that grow.
AllSteps == {-4, -6, -2, 0, 1, 5}
AllArgs == -1 .. 4
=============================================================================
