------------------------------ MODULE Counting ------------------------------
(***************************************************************************)
(* ksync/counting/counting_mt_nolocks_5.1.c: main creates numthrds threads *)
(* that each do counter++ without a lock, joins them and prints counter.   *)
(*                                                                         *)
(* counter++ is a load and a store of a 64-bit word, with the steps of the *)
(* other threads in between.  (On a 32-bit build it is two words; counter  *)
(* stays below 2^32 as MAX_THREADS does, so the upper one is always 0.)    *)
(***************************************************************************)
EXTENDS Integers, FiniteSets

CONSTANTS
    MAX_THREADS,
    Args            \* the numbers main may find in argv[1]

ASSUME ConstantsAssumption ==
    /\ MAX_THREADS \in Nat \ {0}
    /\ Args \subseteq Int

VARIABLES
    numthrds,   \* how many threads main is to create; 0 before main knows
    counter,    \* the global counter
    mpc,        \* what main does next
    t,          \* main's loop counter: the next thread to create, then (as the
                \*   variable i) the next thread to join
    tpc,        \* tpc[k]: what thread k does next
    reg,        \* reg[k]: the value of counter that thread k loaded
    val         \* the value main printed; Nothing before that

vars == <<numthrds, counter, mpc, t, tpc, reg, val>>

Nothing == MAX_THREADS + 1
Ids == 0 .. MAX_THREADS - 1
Running == mpc \notin {"start", "exited", "done"}
\* The threads that have done their counter++.
Counted == {k \in Ids : tpc[k] = "done"}

TypeOK ==
    /\ numthrds \in 0 .. MAX_THREADS
    /\ counter \in Nat
    /\ mpc \in {"start", "create", "join", "print", "exited", "done"}
    /\ t \in 0 .. MAX_THREADS
    /\ tpc \in [Ids -> {"none", "sleep", "store", "done"}]
    /\ reg \in [Ids -> Nat]
    /\ val \in Nat

Init ==
    /\ numthrds = 0 /\ counter = 0
    /\ mpc = "start" /\ t = 0
    /\ tpc = [k \in Ids |-> "none"]
    /\ reg = [k \in Ids |-> 0]
    /\ val = Nothing

-----------------------------------------------------------------------------
(* main *)

\* argv[1] is out of range, or malloc fails.
StartFails ==
    /\ mpc = "start"
    /\ mpc' = "exited"
    /\ UNCHANGED <<numthrds, counter, t, tpc, reg, val>>

Start(n) ==
    /\ mpc = "start"
    /\ n > 0 /\ n <= MAX_THREADS
    /\ numthrds' = n
    /\ mpc' = "create"
    /\ UNCHANGED <<counter, t, tpc, reg, val>>

\* pthread_create succeeds.
Create ==
    /\ mpc = "create" /\ t < numthrds
    /\ tpc' = [tpc EXCEPT ![t] = "sleep"]
    /\ t' = t + 1
    /\ UNCHANGED <<numthrds, counter, mpc, reg, val>>

\* pthread_create fails: exit(1) ends the process and every thread of it.
CreateFails ==
    /\ mpc = "create" /\ t < numthrds
    /\ mpc' = "exited"
    /\ UNCHANGED <<numthrds, counter, t, tpc, reg, val>>

CreateEnds ==
    /\ mpc = "create" /\ t = numthrds
    /\ mpc' = "join" /\ t' = 0
    /\ UNCHANGED <<numthrds, counter, tpc, reg, val>>

\* Mutant: main joins without waiting, as with detached threads.
JoinAtOnce ==
    /\ mpc = "join" /\ t < numthrds
    /\ t' = t + 1
    /\ UNCHANGED <<numthrds, counter, mpc, tpc, reg, val>>

\* Mutant: the loop counter is not incremented, and main joins thread 0 for ever.
JoinSame ==
    /\ mpc = "join" /\ t < numthrds
    /\ tpc[t] = "done"
    /\ UNCHANGED vars

\* pthread_join waits for the thread to end.  It returns an error only for a
\* thread that is not joinable, which none of these is.
Join ==
    /\ mpc = "join" /\ t < numthrds
    /\ tpc[t] = "done"
    /\ t' = t + 1
    /\ UNCHANGED <<numthrds, counter, mpc, tpc, reg, val>>

\* Mutant: the loop stops one thread early.
JoinEndsEarly ==
    /\ mpc = "join" /\ t + 1 >= numthrds
    /\ mpc' = "print"
    /\ UNCHANGED <<numthrds, counter, t, tpc, reg, val>>

JoinEnds ==
    /\ mpc = "join" /\ t = numthrds
    /\ mpc' = "print"
    /\ UNCHANGED <<numthrds, counter, t, tpc, reg, val>>

\* read_count(), printed; then main ends.
PrintCount ==
    /\ mpc = "print"
    /\ val' = counter
    /\ mpc' = "done"
    /\ UNCHANGED <<numthrds, counter, t, tpc, reg>>

-----------------------------------------------------------------------------
(* countup: sleep, then inc_count and pthread_exit *)

Load(k) ==
    /\ Running /\ tpc[k] = "sleep"
    /\ reg' = [reg EXCEPT ![k] = counter]
    /\ tpc' = [tpc EXCEPT ![k] = "store"]
    /\ UNCHANGED <<numthrds, counter, mpc, t, val>>

\* Mutant: the thread adds to counter once more than it should.
StoreTwo(k) ==
    /\ Running /\ tpc[k] = "store"
    /\ counter' = reg[k] + 2
    /\ tpc' = [tpc EXCEPT ![k] = "done"]
    /\ UNCHANGED <<numthrds, mpc, t, reg, val>>

Store(k) ==
    /\ Running /\ tpc[k] = "store"
    /\ counter' = reg[k] + 1
    /\ tpc' = [tpc EXCEPT ![k] = "done"]
    /\ UNCHANGED <<numthrds, mpc, t, reg, val>>

Terminated ==
    /\ mpc \in {"exited", "done"}
    /\ UNCHANGED vars

Main ==
    \/ StartFails \/ (\E n \in Args : Start(n))
    \/ Create \/ CreateFails \/ CreateEnds
    \/ Join \/ JoinEnds \/ PrintCount

countup(k) == Load(k) \/ Store(k)

Next == Main \/ (\E k \in Ids : countup(k)) \/ Terminated

Spec == Init /\ [][Next]_vars

\* The scheduler runs main and every thread that is ready to run.
FairSpec ==
    /\ Spec
    /\ WF_vars(Main)
    /\ \A k \in Ids : WF_vars(countup(k))

-----------------------------------------------------------------------------
(* Properties *)

\* counter++ without a lock loses counts, but it never counts too many, and
\* the count main prints is at least 1: every stored value is one more than a
\* value that was in counter, and the last store of all comes after a load.
CountBounds ==
    /\ counter <= Cardinality(Counted)
    /\ mpc = "done" => val \in 1 .. numthrds

\* When main prints the count, every thread it created has counted, and no
\* store of a thread can come after the join loop.
PrintedCountIsFinal ==
    mpc \in {"print", "done"} =>
        /\ \A k \in Ids : tpc[k] = (IF k < numthrds THEN "done" ELSE "none")
        /\ mpc = "done" => val = counter

\* main always ends: no thread main joins can fail to terminate.
MainEnds == <>(mpc \in {"exited", "done"})
=============================================================================
