-------------------------- MODULE Counting_proofs --------------------------
(***************************************************************************)
(* Proofs about Counting, for every MAX_THREADS.                           *)
(***************************************************************************)
EXTENDS Counting, FiniteSetTheorems, TLAPS

(***************************************************************************)
(* How far main is says which threads exist and which have ended.          *)
(***************************************************************************)
PhaseInv ==
    /\ mpc = "start" => numthrds = 0 /\ t = 0 /\ \A k \in Ids : tpc[k] = "none"
    /\ mpc \notin {"start", "exited"} => numthrds > 0
    /\ mpc = "create" => t <= numthrds /\ \A k \in Ids : tpc[k] = "none" <=> k >= t
    /\ mpc \in {"join", "print", "done"} =>
        t <= numthrds /\ \A k \in Ids : tpc[k] = "none" <=> k >= numthrds
    /\ mpc = "join" => \A k \in Ids : k < t => tpc[k] = "done"
    /\ mpc \in {"print", "done"} => \A k \in Ids : k < numthrds => tpc[k] = "done"
    /\ mpc = "done" => val = counter

(***************************************************************************)
(* No value that counter has had, so none a thread has loaded, exceeds the *)
(* number of threads that have counted; once one has, counter is not 0.    *)
(***************************************************************************)
CountInv ==
    /\ counter <= Cardinality(Counted)
    /\ \A k \in Ids : tpc[k] = "store" => reg[k] <= Cardinality(Counted)
    /\ Counted # {} => counter > 0

IInv == TypeOK /\ PhaseInv /\ CountInv

\* The threads that have counted are finitely many.
LEMMA CountedFinite == IsFiniteSet(Counted) /\ Cardinality(Counted) \in Nat
<1>1. IsFiniteSet(Ids)
  BY FS_Interval, ConstantsAssumption DEF Ids
<1> QED
  BY <1>1, FS_Subset, FS_CardinalityType DEF Counted

\* If the same threads are done, the same threads have counted.
LEMMA CountedSame ==
    ASSUME \A k \in Ids : tpc'[k] = "done" <=> tpc[k] = "done"
    PROVE  Counted' = Counted
  BY DEF Counted, Ids

\* A thread that stores is one more that has counted.
LEMMA CountedGrows ==
    ASSUME TypeOK, NEW k \in Ids, Store(k)
    PROVE  Cardinality(Counted') = Cardinality(Counted) + 1
<1>1. Counted' = Counted \cup {k} /\ k \notin Counted
  BY DEF Store, TypeOK, Counted, Ids
<1> QED
  BY <1>1, CountedFinite, FS_AddElement

LEMMA TypeInvariant == TypeOK /\ [Next]_vars => TypeOK'
<1> SUFFICES ASSUME TypeOK, [Next]_vars PROVE TypeOK'
  OBVIOUS
<1> USE ConstantsAssumption DEF TypeOK, Ids, Nothing
<1>1. CASE Main
  BY <1>1 DEF Main, StartFails, Start, Create, CreateFails, CreateEnds, Join, JoinEnds, PrintCount
<1>2. ASSUME NEW k \in Ids, countup(k) PROVE TypeOK'
  <2>1. CASE Load(k)
    BY <2>1 DEF Load
  <2>2. CASE Store(k)
    BY <2>2 DEF Store
  <2> QED
    BY <1>2, <2>1, <2>2 DEF countup
<1>3. CASE UNCHANGED vars
  BY <1>3 DEF vars
<1> QED
  BY <1>1, <1>2, <1>3 DEF Next, Terminated

LEMMA PhaseInvariant == IInv /\ [Next]_vars => PhaseInv'
<1> SUFFICES ASSUME TypeOK, PhaseInv, [Next]_vars PROVE PhaseInv'
  BY DEF IInv
<1> USE ConstantsAssumption DEF TypeOK, PhaseInv, Ids
<1>1. CASE StartFails \/ (\E n \in Args : Start(n))
  BY <1>1 DEF StartFails, Start
<1>2. CASE Create
  BY <1>2 DEF Create
<1>3. CASE CreateFails \/ CreateEnds
  BY <1>3 DEF CreateFails, CreateEnds
<1>4. CASE Join
  BY <1>4 DEF Join
<1>5. CASE JoinEnds \/ PrintCount
  BY <1>5 DEF JoinEnds, PrintCount
<1>6. ASSUME NEW k \in Ids, Load(k) PROVE PhaseInv'
  BY <1>6 DEF Load, Running
<1>7. ASSUME NEW k \in Ids, Store(k) PROVE PhaseInv'
  BY <1>7 DEF Store, Running
<1>8. CASE UNCHANGED vars
  BY <1>8 DEF vars
<1> QED
  BY <1>1, <1>2, <1>3, <1>4, <1>5, <1>6, <1>7, <1>8 DEF Next, Main, countup, Terminated

LEMMA CountInvariant == IInv /\ [Next]_vars => CountInv'
<1> SUFFICES ASSUME IInv, [Next]_vars PROVE CountInv'
  OBVIOUS
<1>1. CASE Main \/ UNCHANGED vars
  <2>1. /\ \A k \in Ids : tpc'[k] = "done" <=> tpc[k] = "done"
        /\ \A k \in Ids : tpc'[k] = "store" => tpc[k] = "store" /\ reg'[k] = reg[k]
        /\ counter' = counter
    <3>1. CASE Create
      <4>1. t \in Ids /\ tpc[t] = "none"
        BY <3>1, ConstantsAssumption DEF Create, IInv, TypeOK, PhaseInv, Ids
      <4> QED
        BY <3>1, <4>1 DEF Create, IInv, TypeOK
    <3>2. CASE ~Create
      BY <1>1, <3>2 DEF Main, StartFails, Start, CreateFails, CreateEnds, Join, JoinEnds,
                        PrintCount, vars
    <3> QED
      BY <3>1, <3>2
  <2> QED
    BY <2>1, CountedSame DEF IInv, CountInv
<1>2. ASSUME NEW k \in Ids, Load(k) PROVE CountInv'
  <2>1. /\ \A j \in Ids : tpc'[j] = "done" <=> tpc[j] = "done"
        /\ \A j \in Ids : j # k => tpc'[j] = tpc[j] /\ reg'[j] = reg[j]
        /\ reg'[k] = counter /\ counter' = counter
    BY <1>2 DEF Load, IInv, TypeOK
  <2> QED
    BY <2>1, CountedSame DEF IInv, CountInv
<1>3. ASSUME NEW k \in Ids, Store(k) PROVE CountInv'
  <2>1. Cardinality(Counted') = Cardinality(Counted) + 1
    BY <1>3, CountedGrows DEF IInv
  <2>2. /\ \A j \in Ids : tpc'[j] = "store" => tpc[j] = "store" /\ reg'[j] = reg[j]
        /\ counter' = reg[k] + 1 /\ reg[k] \in Nat /\ tpc[k] = "store"
        /\ \A j \in Ids : reg[j] \in Nat
    BY <1>3 DEF Store, IInv, TypeOK
  <2>3. \A j \in Ids : tpc'[j] = "store" => reg'[j] <= Cardinality(Counted')
    BY <2>1, <2>2, CountedFinite DEF IInv, CountInv
  <2>4. counter' <= Cardinality(Counted') /\ counter' > 0
    BY <2>1, <2>2, CountedFinite DEF IInv, CountInv
  <2> QED
    BY <2>3, <2>4 DEF CountInv
<1> QED
  BY <1>1, <1>2, <1>3 DEF Next, countup, Terminated

LEMMA Invariance == Spec => []IInv
<1>1. Init => IInv
  <2> SUFFICES ASSUME Init PROVE IInv
    OBVIOUS
  <2>1. TypeOK /\ PhaseInv
    BY ConstantsAssumption DEF Init, TypeOK, PhaseInv, Ids, Nothing
  <2>2. Counted = {}
    BY DEF Init, Counted
  <2>3. CountInv
    BY <2>2, CountedFinite, FS_EmptySet DEF Init, CountInv, Ids
  <2> QED
    BY <2>1, <2>3 DEF IInv
<1>2. IInv /\ [Next]_vars => IInv'
  BY TypeInvariant, PhaseInvariant, CountInvariant DEF IInv
<1> QED
  BY <1>1, <1>2, PTL DEF Spec

\* Every variable of the program keeps its type, however many threads there
\* are: in particular main never creates more than MAX_THREADS.
THEOREM TypeCorrect == Spec => []TypeOK
  BY Invariance, PTL DEF IInv

\* For every number of threads, counter never exceeds the number of threads
\* that have counted, and main prints a count from 1 to numthrds.
THEOREM CountNeverTooHigh == Spec => []CountBounds
<1>1. IInv => CountBounds
  <2> SUFFICES ASSUME IInv, mpc = "done" PROVE val \in 1 .. numthrds
    BY DEF IInv, CountInv, CountBounds
  <2>1. Counted = 0 .. numthrds - 1 /\ numthrds > 0 /\ numthrds \in Nat
    BY ConstantsAssumption DEF IInv, TypeOK, PhaseInv, Counted, Ids
  <2>2. Cardinality(Counted) = numthrds
    BY <2>1, FS_Interval
  <2>3. counter > 0 /\ counter <= numthrds /\ counter \in Nat /\ val = counter
    BY <2>1, <2>2 DEF IInv, TypeOK, PhaseInv, CountInv
  <2> QED
    BY <2>1, <2>3
<1> QED
  BY <1>1, Invariance, PTL

\* For every number of threads, the join loop waits for all of them: what
\* main prints is the last value counter ever has.
THEOREM CountIsFinal == Spec => []PrintedCountIsFinal
<1>1. IInv => PrintedCountIsFinal
  BY ConstantsAssumption DEF IInv, TypeOK, PhaseInv, PrintedCountIsFinal, Ids
<1> QED
  BY <1>1, Invariance, PTL
=============================================================================
