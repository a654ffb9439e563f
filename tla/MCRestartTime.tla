--------------------------- MODULE MCRestartTime ---------------------------
(***************************************************************************)
(* RestartTime for TLC: a second of three ticks.                           *)
(***************************************************************************)
EXTENDS RestartTime

SomeFds == {-1, 0, FD_SETSIZE}
\* 0 s, a third, two thirds, a fraction that rounds up to a second, 1 s and 1 1/3 s
SomeTimeouts == {[sec |-> 0, usec |-> u] : u \in 0 .. MILLION}
                \cup {[sec |-> 1, usec |-> 0], [sec |-> 1, usec |-> 1]}
=============================================================================
