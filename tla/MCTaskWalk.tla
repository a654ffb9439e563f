----------------------------- MODULE MCTaskWalk -----------------------------
(***************************************************************************)
(* TaskWalk for TLC: which programs run on which build of the kernel.      *)
(***************************************************************************)
EXTENDS TaskWalk, TLC

\* Each program on a build it is safe on.
SafePrograms == [b \in Builds |-> IF b = "preempt" THEN Listers ELSE Detailers]

\* One program per build, for the liveness properties.
LivePrograms ==
    [b \in Builds |-> IF b = "preempt" THEN {"foreach"} ELSE {"showthreads"}]

ForeachAnywhere == [b \in Builds |-> {"foreach"}]

Symmetry == Permutations(Task) \cup Permutations(Walker)
=============================================================================
