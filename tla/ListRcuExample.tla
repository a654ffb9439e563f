--------------------------- MODULE ListRcuExample ---------------------------
(***************************************************************************)
(* The life of the list_rcu_example module: insmod runs                    *)
(* list_rcu_example_init, which plays test_example(0) and test_example(1)  *)
(* on the book list of BookRCU; rmmod runs list_rcu_example_exit, and then *)
(* the kernel frees the module's text.  The RCU softirq runs the callbacks *)
(* that call_rcu queued whenever their grace period is over.               *)
(***************************************************************************)
EXTENDS BookRCU, Sequences

CONSTANT insmod     \* the only task that calls the book functions

\* test_example calls all six functions, with async 0 and then 1.
ASSUME InsmodAssumption ==
    /\ Tasks = {insmod} /\ {0, 1} \subseteq Ids
    /\ Calls = [t \in Tasks |-> Ops] /\ Modes = {0, 1}

VARIABLES
    step,   \* how many calls of the script have been made
    mod     \* "loading", "live", or "unloaded"

mvars == <<vars, step, mod>>

\* One run of test_example: <<function, id, async>> for every call it makes.
test_example(async) ==
    << <<"add", 0, 0>>, <<"add", 1, 0>>,
       <<"print", 0, 0>>, <<"print", 1, 0>>,
       <<"is_borrowed", 0, 0>>, <<"is_borrowed", 1, 0>>,
       <<"borrow", 0, async>>, <<"borrow", 1, async>>,
       <<"print", 0, 0>>, <<"print", 1, 0>>,
       <<"return", 0, async>>, <<"return", 1, async>>,
       <<"print", 0, 0>>, <<"print", 1, 0>>,
       <<"delete", 0, async>>, <<"delete", 1, async>>,
       <<"print", 0, 0>>, <<"print", 1, 0>> >>

\* list_rcu_example_init: spin_lock_init, then the two tests.
Script == test_example(0) \o test_example(1)

MInit == Init /\ step = 0 /\ mod = "loading"

CallNext ==
    /\ mod = "loading"
    /\ step < Len(Script)
    /\ LET c == Script[step + 1] IN Call(insmod, c[1], c[2], c[3])
    /\ step' = step + 1
    /\ UNCHANGED mod

Continue == Run(insmod) /\ UNCHANGED <<step, mod>>

list_rcu_example_init ==
    /\ mod = "loading"
    /\ step = Len(Script) /\ pc[insmod] = "idle"
    /\ mod' = "live"
    /\ UNCHANGED <<vars, step>>

\* The exit function does nothing at all; the module's text is gone after it.
list_rcu_example_exit ==
    /\ mod = "live"
    /\ mod' = "unloaded"
    /\ UNCHANGED <<vars, step>>

\* The softirq jumps to book_reclaim_callback, which needs the text.
Softirq ==
    /\ mod # "unloaded"
    /\ \E n \in Nodes : book_reclaim_callback(n)
    /\ UNCHANGED <<step, mod>>

MNext ==
    \/ CallNext
    \/ Continue
    \/ list_rcu_example_init
    \/ list_rcu_example_exit
    \/ Softirq

MSpec == MInit /\ [][MNext]_mvars
MFairSpec ==
    /\ MSpec
    /\ WF_mvars(CallNext) /\ WF_mvars(Continue)
    /\ WF_mvars(list_rcu_example_init) /\ WF_mvars(Softirq)

-----------------------------------------------------------------------------
\* test_example deletes the books it adds, so each of the two tests starts
\* from and ends with an empty list, whichever kzalloc calls failed: an
\* update that could not be made leaves the book where delete_book finds it.
ListEmptyBetweenTests ==
    pc[insmod] = "idle" /\ step \in {0, Len(Script) \div 2, Len(Script)} => Linked = {}

\* The module finishes loading, and after that, unless it is unloaded first,
\* every struct book it allocated is freed.  The exception is the code's: the
\* exit function does not wait for the callbacks that call_rcu has queued.
BooksFreedUnlessUnloaded ==
    <>(mod = "unloaded" \/ (mod = "live" /\ \A n \in Nodes : nst[n] = "free"))
=============================================================================
