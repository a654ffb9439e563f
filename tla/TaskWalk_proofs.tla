-------------------------- MODULE TaskWalk_proofs --------------------------
(***************************************************************************)
(* Proofs about TaskWalk, for every number of tasks and walkers.           *)
(*                                                                         *)
(* A walk is safe because whatever it points at is kept for it: the task   *)
(* is on the lists, or was taken off while the walk was in its section, so *)
(* that the grace period waits for it.  That carries over to the task the  *)
(* walk reaches next only if the links of a removed task lead to kept      *)
(* tasks.  A walk visits every task once because the links lead upwards in *)
(* an order of the tasks, a new task being above all others, and jump over *)
(* none that the walk must visit.                                          *)
(***************************************************************************)
EXTENDS TaskWalk, FiniteSetTheorems, TLAPS

\* Where the kernel does not count spinlocks, taskinfo_read loses its section
\* in cond_resched; where it does, disp_task_details holds a task that nothing
\* keeps until it has the lock.  Elsewhere every program is safe.
SafeBuilds == "foreach" \notin Programs["none"] /\ Programs["preempt"] \cap Detailers = {}

ThreadWalkers == {"showthreads", "ding"}
Locked == {"body", "resched", "put", "unlock"}
Reading == {"task", "mm", "rest", "unlock"}
AtRest == {"idle", "enter", "copy", "return"}

(***************************************************************************)
(* The lists.  Kept(w, x): x cannot be freed while w is in its section.    *)
(***************************************************************************)
Kept(w, x) == Linked(x) \/ w \in gp[x]
Process(x) == x \in Task /\ leader[x] = x

LifeInv ==
    \A x \in Task :
        /\ life[x] \in {"free", "linked", "removed"}
        /\ gp[x] \subseteq Readers
        /\ gp[x] # {} => life[x] = "removed"
        /\ life[x] = "free" => leader[x] = x /\ next[x] = InitTask /\ tnext[x] = Nil
        /\ first[x] = IF Linked(x) /\ leader[x] = x THEN x ELSE Nil
        /\ leader[x] # x => next[x] = InitTask

\* The links of a task on the lists lead to tasks on the lists.
LinkInv ==
    /\ next[InitTask] \in Task => Listed(next[InitTask])
    /\ \A x \in Task : Linked(x) =>
        /\ Linked(leader[x]) /\ leader[leader[x]] = leader[x]
        /\ next[x] \in Task => Listed(next[x])
        /\ tnext[x] \in Task => Linked(tnext[x]) /\ leader[tnext[x]] = leader[x]

\* The links of a removed task lead to tasks that are kept for its readers.
RemovedInv ==
    \A x \in Task : \A w \in gp[x] :
        /\ Kept(w, leader[x]) /\ leader[leader[x]] = leader[x]
        /\ next[x] \in Task => Kept(w, next[x]) /\ leader[next[x]] = next[x]
        /\ tnext[x] \in Task => Kept(w, tnext[x]) /\ leader[tnext[x]] = leader[x]

(***************************************************************************)
(* The order of the tasks: R is a strict order, as a set of pairs.         *)
(***************************************************************************)
Below(R, x, y) == <<x, y>> \in R

StrictOrder(R) ==
    /\ \A x \in Task : ~Below(R, x, x)
    /\ \A x, y, z \in Task : Below(R, x, y) /\ Below(R, y, z) => Below(R, x, z)

\* n is a task, and z is it or above it.
UpTo(R, n, z) == n \in Task /\ (z = n \/ Below(R, n, z))

OrderInv(R) ==
    /\ StrictOrder(R)
    /\ \A x \in Task :
        /\ next[x] \in Task => Below(R, x, next[x])
        /\ tnext[x] \in Task => Below(R, x, tnext[x])
        /\ Linked(x) => UpTo(R, leader[x], x)

\* No link jumps over a task on the lists, and no link of a removed task over
\* a task that its readers must visit.
NoGapInv(R) ==
    /\ \A z \in Task : Listed(z) => UpTo(R, next[InitTask], z)
    /\ \A x, z \in Task : Linked(x) /\ Linked(z) /\ Below(R, x, z) =>
        /\ leader[x] = x /\ leader[z] = z => UpTo(R, next[x], z)
        /\ leader[x] = leader[z] => UpTo(R, tnext[x], z)
    /\ \A x \in Task : \A w \in gp[x] : \A z \in must[w] : Below(R, x, z) =>
        /\ leader[x] = x /\ leader[z] = z => UpTo(R, next[x], z)
        /\ leader[x] = leader[z] => UpTo(R, tnext[x], z)

(***************************************************************************)
(* One context: where it is, what it points at, and how far its walk is.   *)
(***************************************************************************)
Place(w) ==
    /\ prog[w] = "ding" <=> w = Softirq
    /\ prog[w] \in Programs[build] \cup {"none", "ding"}
    /\ prog[w] = "none" => pc[w] = "idle"
    /\ prog[w] = "foreach" => pc[w] \in {"enter", "group", "step", "copy"} \cup Locked
    /\ prog[w] = "showthreads" => pc[w] \in {"group", "thread", "body", "put", "unlock", "step"}
    /\ prog[w] = "ding" => pc[w] \in {"idle", "group", "thread", "step", "return"}
    /\ prog[w] = "taskdtl" => pc[w] \in {"lock"} \cup Reading
    /\ prog[w] = "display" => pc[w] \in {"alive", "lock"} \cup Reading
    /\ w \in kbuf <=> prog[w] = "foreach"

Pointers(w) ==
    /\ pc[w] \in AtRest => g[w] = InitTask /\ t[w] = Nil /\ seen[w] = {} /\ must[w] = {}
    /\ prog[w] = "foreach" => t[w] = Nil
    /\ prog[w] = "foreach" /\ pc[w] \in Locked \cup {"step"} => g[w] \in Task
    /\ prog[w] \in ThreadWalkers /\ pc[w] = "group" => t[w] = Nil
    /\ prog[w] \in ThreadWalkers /\ pc[w] \in {"thread", "step"} \cup Locked => g[w] \in Task
    /\ prog[w] \in ThreadWalkers /\ pc[w] \in {"step"} \cup Locked => t[w] \in Task
    /\ prog[w] \in ThreadWalkers /\ t[w] \in Task => leader[t[w]] = g[w]
    /\ prog[w] \in Detailers => g[w] = InitTask /\ t[w] \in Task /\ seen[w] = {} /\ must[w] = {}
    /\ g[w] \in Task => leader[g[w]] = g[w]

\* Whatever w points at or has visited is kept for it.
Safe(w) ==
    /\ pc[w] \notin AtRest => InSection(w)
    /\ g[w] \in Task => Kept(w, g[w])
    /\ t[w] \in Task => Kept(w, t[w])
    /\ \A x \in seen[w] : Kept(w, x)
    /\ \A x \in must[w] : Linked(x) /\ leader[x] \in must[w] /\ (prog[w] = "foreach" => leader[x] = x)

\* What w has visited is below the task it is at, what it has to visit is not.
Passed(w) == pc[w] \in {"resched", "put", "unlock", "step"}

WalkInv(R, w) ==
    /\ prog[w] = "foreach" =>
        /\ \A x \in seen[w] :
            g[w] \in Task => Below(R, x, g[w]) \/ (Passed(w) /\ x = g[w])
        /\ \A z \in must[w] \ seen[w] :
            g[w] \in Task /\ (Below(R, g[w], z) \/ (~Passed(w) /\ z = g[w]))
        /\ Passed(w) => g[w] \in seen[w]
    /\ prog[w] \in ThreadWalkers =>
        /\ \A x \in seen[w] : g[w] \in Task =>
            \/ Below(R, leader[x], g[w])
            \/ /\ leader[x] = g[w] /\ pc[w] # "group"
               /\ t[w] \in Task => Below(R, x, t[w]) \/ (Passed(w) /\ x = t[w])
        /\ \A z \in must[w] \ seen[w] :
            /\ g[w] \in Task
            /\ \/ Below(R, g[w], leader[z])
               \/ /\ leader[z] = g[w]
                  /\ pc[w] # "group" =>
                       t[w] \in Task /\ (Below(R, t[w], z) \/ (~Passed(w) /\ z = t[w]))
        /\ Passed(w) => t[w] \in seen[w]

(***************************************************************************)
(* Locks, reference counts and the timer.                                  *)
(***************************************************************************)
HoldsLock(w) ==
    \/ prog[w] \in Listers /\ pc[w] \in Locked
    \/ prog[w] \in Detailers /\ pc[w] \in Reading

Pins(w) == pc[w] \in {"resched", "put"}

LockInv == \A x \in Task, w \in Walker : alloc_lock[x] = w <=> HoldsLock(w) /\ At(w) = x

UsageInv ==
    \A x \in Task :
        usage[x] = (IF life[x] = "free" THEN 0 ELSE 1)
                   + (IF \E w \in Walker : Pins(w) /\ At(w) = x THEN 1 ELSE 0)

CtxInv(R, w) == Place(w) /\ Pointers(w) /\ Safe(w) /\ WalkInv(R, w)

ListInv(R) == LifeInv /\ LinkInv /\ RemovedInv /\ OrderInv(R) /\ NoGapInv(R)

IInv ==
    /\ SafeBuilds /\ TypeOK
    /\ \E R \in SUBSET (Task \X Task) : ListInv(R) /\ \A w \in Ctx : CtxInv(R, w)
    /\ LockInv /\ UsageInv /\ MmStays /\ TimerInModule

-----------------------------------------------------------------------------
(* A step of one context: the lists stay, and so do the other contexts *)

CtxStep(w) ==
    /\ UNCHANGED <<build, life, leader, next, first, tnext, mm>>
    /\ GracePeriods
    /\ \A v \in Ctx \ {w} :
        /\ pc'[v] = pc[v] /\ prog'[v] = prog[v] /\ g'[v] = g[v] /\ t'[v] = t[v]
        /\ seen'[v] = seen[v] /\ must'[v] = must[v] /\ (v \in kbuf' <=> v \in kbuf)

LEMMA KeptAfter ==
    ASSUME TypeOK, LifeInv, NEW w \in Ctx, CtxStep(w), NEW v \in Ctx, InSection(v)', NEW x \in Task, Kept(v, x)
    PROVE  Kept(v, x)'
  BY DEF Kept, CtxStep, GracePeriods, Readers, Linked

LEMMA ListsStay ==
    ASSUME TypeOK, NEW R, ListInv(R), NEW w \in Ctx, CtxStep(w),
           must'[w] \subseteq must[w] \/ ~InSection(w)
    PROVE  ListInv(R)'
<1> USE DEF ListInv
<1>1. /\ UNCHANGED <<life, leader, next, first, tnext>>
      /\ \A x \in Task : gp'[x] = gp[x] \cap Readers'
  BY DEF CtxStep, GracePeriods
<1>2. \A x \in Task : Linked(x)' <=> Linked(x)
  BY <1>1 DEF Linked
<1>3. \A x \in Task \cup {InitTask} : Listed(x)' <=> Listed(x)
  BY <1>1, <1>2, ConstantsAssumption DEF Listed
<1>4. LifeInv'
  BY <1>1, <1>2 DEF LifeInv
<1>5. LinkInv'
  BY <1>1, <1>2, <1>3 DEF LinkInv, TypeOK
<1>6. RemovedInv'
  <2> SUFFICES ASSUME NEW x \in Task, NEW v \in gp'[x]
               PROVE  /\ Kept(v, leader[x])' /\ leader[leader[x]] = leader[x]
                      /\ next[x] \in Task => Kept(v, next[x])' /\ leader[next[x]] = next[x]
                      /\ tnext[x] \in Task => Kept(v, tnext[x])' /\ leader[tnext[x]] = leader[x]
    BY <1>1 DEF RemovedInv, Kept, Linked
  <2>1. v \in gp[x] /\ v \in Ctx /\ InSection(v)' /\ leader[x] \in Task
    BY <1>1 DEF TypeOK, Readers
  <2>2. \A y \in Task : Kept(v, y) => Kept(v, y)'
    BY <2>1, KeptAfter
  <2> QED
    BY <1>1, <2>1, <2>2 DEF RemovedInv
<1>7. OrderInv(R)'
  BY <1>1, <1>2 DEF OrderInv, UpTo
<1>8. NoGapInv(R)'
  <2>1. \A x \in Task : \A v \in gp'[x] : v \in gp[x] /\ must'[v] \subseteq must[v]
    BY <1>1 DEF CtxStep, LifeInv, TypeOK, Readers
  <2>2. UNCHANGED <<leader, next, tnext>>
    BY <1>1
  <2> QED
    BY <1>2, <1>3, <2>1, <2>2 DEF NoGapInv, UpTo
<1> QED
  BY <1>4, <1>5, <1>6, <1>7, <1>8

LEMMA OthersStay ==
    ASSUME TypeOK, LifeInv, NEW R, NEW w \in Ctx, CtxStep(w), NEW v \in Ctx \ {w}, CtxInv(R, v)
    PROVE  CtxInv(R, v)'
<1> USE DEF CtxInv
<1>1. /\ UNCHANGED <<build, life, leader>>
      /\ pc'[v] = pc[v] /\ prog'[v] = prog[v] /\ g'[v] = g[v] /\ t'[v] = t[v]
      /\ seen'[v] = seen[v] /\ must'[v] = must[v] /\ (v \in kbuf' <=> v \in kbuf)
  BY DEF CtxStep
<1>2. InSection(v)' <=> InSection(v)
  BY <1>1 DEF InSection
<1>3. Place(v)'
  BY <1>1 DEF Place
<1>4. Pointers(v)'
  BY <1>1 DEF Pointers
<1>5. Safe(v)'
  <2>1. seen[v] \subseteq Task /\ must[v] \subseteq Task
    BY DEF TypeOK
  <2>2. CASE InSection(v)
    <3>1. \A x \in Task : Kept(v, x) => Kept(v, x)'
      BY <1>2, <2>2, KeptAfter
    <3> QED
      BY <1>1, <1>2, <2>1, <3>1 DEF Safe, Linked
  <2>3. CASE ~InSection(v)
    <3>1. pc[v] \in AtRest /\ g[v] \notin Task /\ t[v] \notin Task /\ seen[v] = {} /\ must[v] = {}
      BY <2>3, ConstantsAssumption DEF Safe, Pointers
    <3> QED
      BY <1>1, <3>1 DEF Safe
  <2> QED
    BY <2>2, <2>3
<1>6. WalkInv(R, v)'
  BY <1>1 DEF WalkInv, Passed
<1> QED
  BY <1>3, <1>4, <1>5, <1>6

\* A step of w that neither takes nor gives back a lock or a reference.
LEMMA NoLockStep ==
    ASSUME IInv, NEW w \in Ctx, CtxStep(w), UNCHANGED <<alloc_lock, usage>>,
           w \in Walker => /\ HoldsLock(w)' <=> HoldsLock(w)
                           /\ HoldsLock(w) => At(w)' = At(w)
                           /\ Pins(w)' <=> Pins(w)
                           /\ Pins(w) => HoldsLock(w)
    PROVE  LockInv' /\ UsageInv'
<1>1. \A v \in Walker : /\ HoldsLock(v)' <=> HoldsLock(v)
                        /\ HoldsLock(v) => At(v)' = At(v)
                        /\ Pins(v)' <=> Pins(v)
                        /\ Pins(v) => At(v)' = At(v)
  BY DEF CtxStep, HoldsLock, At, Pins, Ctx
<1>2. LockInv'
  BY <1>1 DEF IInv, LockInv
<1>3. UNCHANGED life
  BY DEF CtxStep
<1> QED
  BY <1>1, <1>2, <1>3 DEF IInv, UsageInv

\* Which programs run where, and what a section is for each of them.
LEMMA Sections ==
    ASSUME IInv, NEW w \in Ctx, Place(w)
    PROVE  /\ w \in Walker <=> prog[w] # "ding"
           /\ prog[w] \in Detailers => build = "none"
           /\ prog[w] = "foreach" => build = "preempt"
           /\ build \in Builds
  BY ConstantsAssumption DEF IInv, TypeOK, SafeBuilds, Place, Ctx, Builds, Listers, Detailers

\* Where a step leaves w: its place, program, pointers and ghost sets.
Move(w, p, q, y, x, sn, mu) ==
    /\ pc' = [pc EXCEPT ![w] = p] /\ prog' = [prog EXCEPT ![w] = q]
    /\ g' = [g EXCEPT ![w] = y] /\ t' = [t EXCEPT ![w] = x]
    /\ seen' = [seen EXCEPT ![w] = sn] /\ must' = [must EXCEPT ![w] = mu]
    /\ UNCHANGED <<build, life, leader, next, first, tnext, mm>>
    /\ GracePeriods

PCs == {"idle", "enter", "group", "thread", "body", "resched", "put", "unlock", "step",
        "copy", "alive", "lock", "task", "mm", "rest", "return"}

LEMMA Same ==
    ASSUME TypeOK, NEW w \in Ctx
    PROVE  /\ pc = [pc EXCEPT ![w] = pc[w]] /\ prog = [prog EXCEPT ![w] = prog[w]]
           /\ g = [g EXCEPT ![w] = g[w]] /\ t = [t EXCEPT ![w] = t[w]]
           /\ seen = [seen EXCEPT ![w] = seen[w]] /\ must = [must EXCEPT ![w] = must[w]]
  BY DEF TypeOK

LEMMA MoveIs ==
    ASSUME TypeOK, NEW w \in Ctx, NEW p, NEW q, NEW y, NEW x, NEW sn, NEW mu,
           Move(w, p, q, y, x, sn, mu), kbuf' \ {w} = kbuf \ {w}
    PROVE  /\ CtxStep(w)
           /\ pc'[w] = p /\ prog'[w] = q /\ g'[w] = y /\ t'[w] = x
           /\ seen'[w] = sn /\ must'[w] = mu
<1>1. \A v \in Ctx \ {w} :
        /\ pc'[v] = pc[v] /\ prog'[v] = prog[v] /\ g'[v] = g[v] /\ t'[v] = t[v]
        /\ seen'[v] = seen[v] /\ must'[v] = must[v]
  BY DEF Move, TypeOK
<1>2. \A v \in Ctx \ {w} : v \in kbuf' <=> v \in kbuf
  OBVIOUS
<1>3. CtxStep(w)
  BY <1>1, <1>2 DEF CtxStep, Move
<1>4. /\ pc'[w] = p /\ prog'[w] = q /\ g'[w] = y /\ t'[w] = x
      /\ seen'[w] = sn /\ must'[w] = mu
  BY DEF Move, TypeOK
<1> QED
  BY <1>3, <1>4

\* What is left to show of a step of w.
LEMMA MoveIInv ==
    ASSUME IInv, NEW R \in SUBSET (Task \X Task), ListInv(R), \A v \in Ctx : CtxInv(R, v),
           NEW w \in Ctx, NEW p \in PCs, NEW q \in Listers \cup Detailers \cup {"none", "ding"},
           NEW y \in Task \cup {InitTask}, NEW x \in Task \cup {Nil},
           NEW sn \in SUBSET Task, NEW mu \in SUBSET Task,
           Move(w, p, q, y, x, sn, mu), mu \subseteq must[w] \/ ~InSection(w),
           kbuf' \ {w} = kbuf \ {w}, kbuf' \subseteq Walker,
           usage' \in [Task -> Nat], alloc_lock' \in [Task -> Walker \cup {Nil}],
           w = Softirq \/ UNCHANGED timer, pending' \in BOOLEAN, vmod' \in {"out", "in", "exiting"},
           w = Softirq => TimerInModule',
           CtxInv(R, w)', LockInv', UsageInv', w \in Walker /\ p = "mm" => mm[x]
    PROVE  IInv'
<1>1. /\ CtxStep(w)
      /\ pc'[w] = p /\ prog'[w] = q /\ g'[w] = y /\ t'[w] = x
      /\ seen'[w] = sn /\ must'[w] = mu
  BY MoveIs DEF IInv
<1>2. ListInv(R)'
  BY <1>1, ListsStay DEF IInv
<1>3. \A v \in Ctx : CtxInv(R, v)'
  BY <1>1, OthersStay DEF IInv, ListInv
<1>4. MmStays'
  BY <1>1 DEF MmStays, CtxStep, IInv, Ctx
<1>5. TypeOK'
  <2>1. pc' \in [Ctx -> PCs] /\ prog' \in [Ctx -> Listers \cup Detailers \cup {"none", "ding"}]
    BY DEF Move, IInv, TypeOK, PCs
  <2>2. g' \in [Ctx -> Task \cup {InitTask}] /\ t' \in [Ctx -> Task \cup {Nil}]
    BY DEF Move, IInv, TypeOK
  <2>3. seen' \in [Ctx -> SUBSET Task] /\ must' \in [Ctx -> SUBSET Task]
    BY DEF Move, IInv, TypeOK
  <2>4. gp' \in [Task -> SUBSET Ctx]
    BY DEF Move, GracePeriods, Readers
  <2> QED
    BY <2>1, <2>2, <2>3, <2>4 DEF Move, IInv, TypeOK, PCs
<1>6. TimerInModule'
  <2>1. CASE w # Softirq
    BY <1>1, <2>1 DEF CtxStep, TimerInModule, IInv, timer, Ctx
  <2> QED
    BY <2>1
<1> QED
  BY <1>2, <1>3, <1>4, <1>5, <1>6 DEF IInv

LEMMA CtxTypes ==
    ASSUME TypeOK, NEW w \in Ctx
    PROVE  /\ pc[w] \in PCs /\ prog[w] \in Listers \cup Detailers \cup {"none", "ding"}
           /\ g[w] \in Task \cup {InitTask} /\ t[w] \in Task \cup {Nil}
           /\ seen[w] \in SUBSET Task /\ must[w] \in SUBSET Task
  BY DEF TypeOK, PCs

\* The same for a walker, which leaves the timer alone.
LEMMA WalkerIInv ==
    ASSUME IInv, NEW R \in SUBSET (Task \X Task), ListInv(R), \A v \in Ctx : CtxInv(R, v),
           NEW w \in Walker, NEW p \in PCs, NEW q \in Listers \cup Detailers \cup {"none", "ding"},
           NEW y \in Task \cup {InitTask}, NEW x \in Task \cup {Nil},
           NEW sn \in SUBSET Task, NEW mu \in SUBSET Task,
           Move(w, p, q, y, x, sn, mu), mu \subseteq must[w] \/ ~InSection(w),
           kbuf' \ {w} = kbuf \ {w}, UNCHANGED timer,
           usage' \in [Task -> Nat], alloc_lock' \in [Task -> Walker \cup {Nil}],
           CtxInv(R, w)', LockInv', UsageInv', p = "mm" => mm[x]
    PROVE  IInv'
<1>1. w \in Ctx /\ w # Softirq
  BY ConstantsAssumption DEF Ctx
<1>2. pending' \in BOOLEAN /\ vmod' \in {"out", "in", "exiting"}
  BY DEF IInv, TypeOK, timer
<1>3. kbuf' \subseteq Walker
  BY DEF IInv, TypeOK
<1> QED
  BY <1>1, <1>2, <1>3, MoveIInv

\* A walker takes the lock of x, and gives it back.
LEMMA LockStep ==
    ASSUME IInv, NEW w \in Walker, CtxStep(w), NEW x \in Task, alloc_lock[x] = Nil,
           alloc_lock' = [alloc_lock EXCEPT ![x] = w], UNCHANGED usage,
           ~HoldsLock(w), HoldsLock(w)', At(w)' = x, ~Pins(w), ~Pins(w)'
    PROVE  LockInv' /\ UsageInv' /\ alloc_lock' \in [Task -> Walker \cup {Nil}]
<1>1. w \in Ctx /\ Nil \notin Walker /\ alloc_lock \in [Task -> Walker \cup {Nil}]
  BY ConstantsAssumption DEF Ctx, IInv, TypeOK
<1>2. \A v \in Walker \ {w} : /\ HoldsLock(v)' <=> HoldsLock(v)
                              /\ At(v)' = At(v)
                              /\ Pins(v)' <=> Pins(v)
  BY DEF CtxStep, HoldsLock, At, Pins, Ctx
<1>3. LockInv'
  BY <1>1, <1>2 DEF IInv, LockInv
<1>4. UNCHANGED life
  BY DEF CtxStep
<1>5. UsageInv'
  BY <1>2, <1>4 DEF IInv, UsageInv
<1> QED
  BY <1>1, <1>3, <1>5

LEMMA UnlockStep ==
    ASSUME IInv, NEW w \in Walker, CtxStep(w), NEW x \in Task, HoldsLock(w), At(w) = x,
           alloc_lock' = [alloc_lock EXCEPT ![x] = Nil], UNCHANGED usage,
           ~HoldsLock(w)', ~Pins(w), ~Pins(w)'
    PROVE  LockInv' /\ UsageInv' /\ alloc_lock' \in [Task -> Walker \cup {Nil}]
<1>1. w \in Ctx /\ Nil \notin Walker /\ alloc_lock \in [Task -> Walker \cup {Nil}]
  BY ConstantsAssumption DEF Ctx, IInv, TypeOK
<1>2. \A v \in Walker \ {w} : /\ HoldsLock(v)' <=> HoldsLock(v)
                              /\ At(v)' = At(v)
                              /\ Pins(v)' <=> Pins(v)
  BY DEF CtxStep, HoldsLock, At, Pins, Ctx
<1>3. LockInv'
  BY <1>1, <1>2 DEF IInv, LockInv
<1>4. UNCHANGED life
  BY DEF CtxStep
<1>5. UsageInv'
  BY <1>2, <1>4 DEF IInv, UsageInv
<1> QED
  BY <1>1, <1>3, <1>5

-----------------------------------------------------------------------------
(* disp_task_details, of taskdtl.c and of taskdtl_display.c *)

LEMMA DetailsPass ==
    ASSUME IInv, NEW w \in Walker, prog[w] \in Detailers, NEW from, NEW to, Pass(w, from, to),
           \/ from = "alive" /\ to = "lock"
           \/ /\ from \in {"task", "mm", "rest"} /\ to \in {"mm", "rest", "unlock"}
              /\ to = "mm" => mm[t[w]]
    PROVE  IInv'
<1>1. PICK R \in SUBSET (Task \X Task) : ListInv(R) /\ \A v \in Ctx : CtxInv(R, v)
  BY DEF IInv
<1>2. w \in Ctx /\ w # Softirq /\ TypeOK /\ CtxInv(R, w)
  BY <1>1, ConstantsAssumption DEF Ctx, IInv
<1>3. Move(w, to, prog[w], g[w], t[w], seen[w], must[w])
  BY <1>2, Same DEF Pass, Go, Move, kernel
<1>4. pc[w] = from /\ UNCHANGED <<kbuf, usage, alloc_lock, timer>>
  BY DEF Pass, Go, kernel
<1>5. /\ CtxStep(w)
      /\ pc'[w] = to /\ prog'[w] = prog[w] /\ g'[w] = g[w] /\ t'[w] = t[w]
      /\ seen'[w] = seen[w] /\ must'[w] = must[w]
  BY <1>2, <1>3, <1>4, MoveIs
<1>6. build = "none" /\ prog[w] \notin Listers
  BY <1>2, Sections DEF CtxInv, Listers, Detailers
<1>7. CtxInv(R, w)'
  <2>2. Place(w)' /\ Pointers(w)' /\ WalkInv(R, w)'
    BY <1>2, <1>4, <1>5 DEF CtxInv, Place, Pointers, WalkInv, Detailers, ThreadWalkers,
       Reading, AtRest, Locked, CtxStep
  <2>3. InSection(w)'
    BY <1>2, <1>5, <1>6 DEF InSection, CtxStep
  <2>4. Safe(w)'
    <3>1. t[w] \in Task /\ Kept(w, t[w])
      BY <1>2 DEF CtxInv, Safe, Pointers
    <3>2. \A x \in Task : Kept(w, x) => Kept(w, x)'
      BY <1>1, <1>2, <1>5, <2>3, KeptAfter DEF ListInv
    <3> QED
      BY <1>2, <1>5, <2>3, <3>1, <3>2, ConstantsAssumption DEF CtxInv, Safe, Pointers
  <2> QED
    BY <2>2, <2>4 DEF CtxInv
<1>8. LockInv' /\ UsageInv'
  BY <1>2, <1>4, <1>5, <1>6, NoLockStep DEF HoldsLock, At, Pins, Reading
<1>9. usage' \in [Task -> Nat] /\ alloc_lock' \in [Task -> Walker \cup {Nil}]
  BY <1>2, <1>4 DEF TypeOK
<1>10. to \in PCs
  BY DEF PCs
<1> QED
  BY <1>1, <1>2, <1>3, <1>4, <1>7, <1>8, <1>9, <1>10, CtxTypes, WalkerIInv

\* A task that is on the lists is found and passed to disp_task_details.
LEMMA DetailsBegin ==
    ASSUME IInv, NEW w \in Walker, NEW x \in Task, taskdtl_init(w, x) \/ DisplayBegins(w, x)
    PROVE  IInv'
<1>1. PICK R \in SUBSET (Task \X Task) : ListInv(R) /\ \A v \in Ctx : CtxInv(R, v)
  BY DEF IInv
<1>2. w \in Ctx /\ w # Softirq /\ TypeOK /\ CtxInv(R, w)
  BY <1>1, ConstantsAssumption DEF Ctx, IInv
<1>3. PICK p \in {"lock", "alive"}, q \in Detailers :
        /\ Move(w, p, q, g[w], x, seen[w], must[w])
        /\ p = "lock" <=> q = "taskdtl"
        /\ pc[w] = "idle" /\ q \in Programs[build] /\ Linked(x)
        /\ UNCHANGED <<kbuf, usage, alloc_lock, timer>>
  BY <1>2, Same DEF taskdtl_init, DisplayBegins, Call, Go, Move, kernel, Detailers
<1>5. /\ CtxStep(w)
      /\ pc'[w] = p /\ prog'[w] = q /\ g'[w] = g[w] /\ t'[w] = x
      /\ seen'[w] = seen[w] /\ must'[w] = must[w]
  BY <1>2, <1>3, MoveIs
<1>6. build = "none" /\ build' = "none" /\ q \notin Listers /\ prog[w] = "none"
  BY <1>2, <1>3, <1>5, ConstantsAssumption DEF IInv, TypeOK, SafeBuilds, Builds, Listers, Detailers,
     CtxInv, Place, CtxStep, Locked, Reading
<1>7. CtxInv(R, w)'
  <2>1. g[w] = InitTask /\ seen[w] = {} /\ must[w] = {} /\ w \notin kbuf
    BY <1>2, <1>3, <1>6 DEF CtxInv, Pointers, Place, AtRest
  <2>2. Place(w)'
    BY <1>2, <1>3, <1>5, <1>6, <2>1 DEF Place, Detailers
  <2>3. Pointers(w)' /\ WalkInv(R, w)'
    BY <1>5, <2>1, ConstantsAssumption DEF Pointers, WalkInv, Detailers, ThreadWalkers, AtRest
  <2>4. Safe(w)'
    <3>1. Kept(w, x)' /\ InSection(w)'
      BY <1>2, <1>3, <1>5, <1>6 DEF Kept, Linked, CtxStep, InSection
    <3> QED
      BY <1>5, <2>1, <3>1, ConstantsAssumption DEF Safe
  <2> QED
    BY <2>2, <2>3, <2>4 DEF CtxInv
<1>8. LockInv' /\ UsageInv'
  BY <1>2, <1>3, <1>5, <1>6, NoLockStep DEF HoldsLock, At, Pins, Reading, Listers, Detailers
<1>9. usage' \in [Task -> Nat] /\ alloc_lock' \in [Task -> Walker \cup {Nil}]
  BY <1>2, <1>3 DEF TypeOK
<1>10. p \in PCs /\ p # "mm"
  BY DEF PCs
<1> QED
  BY <1>1, <1>2, <1>3, <1>7, <1>8, <1>9, <1>10, CtxTypes, WalkerIInv

LEMMA DetailsLocks ==
    ASSUME IInv, NEW w \in Walker, prog[w] \in Detailers, task_lock(w, "lock", "task")
    PROVE  IInv'
<1>1. PICK R \in SUBSET (Task \X Task) : ListInv(R) /\ \A v \in Ctx : CtxInv(R, v)
  BY DEF IInv
<1>2. w \in Ctx /\ w # Softirq /\ TypeOK /\ CtxInv(R, w)
  BY <1>1, ConstantsAssumption DEF Ctx, IInv
<1>3. /\ Move(w, "task", prog[w], g[w], t[w], seen[w], must[w])
      /\ pc[w] = "lock" /\ At(w) = t[w] /\ t[w] \in Task
      /\ UNCHANGED <<kbuf, usage, timer>>
      /\ alloc_lock[t[w]] = Nil /\ alloc_lock' = [alloc_lock EXCEPT ![t[w]] = w]
  BY <1>2, Same DEF task_lock, Go, Move, At, Detailers
<1>5. /\ CtxStep(w)
      /\ pc'[w] = "task" /\ prog'[w] = prog[w] /\ g'[w] = g[w] /\ t'[w] = t[w]
      /\ seen'[w] = seen[w] /\ must'[w] = must[w]
  BY <1>2, <1>3, MoveIs
<1>6. build = "none" /\ prog[w] \notin Listers
  BY <1>2, Sections DEF CtxInv, Listers, Detailers
<1>7. CtxInv(R, w)'
  <2>2. Place(w)' /\ Pointers(w)' /\ WalkInv(R, w)'
    BY <1>2, <1>3, <1>5 DEF CtxInv, Place, Pointers, WalkInv, Detailers, ThreadWalkers,
       Reading, AtRest, Locked, CtxStep
  <2>3. InSection(w)'
    BY <1>2, <1>5, <1>6 DEF InSection, CtxStep
  <2>4. Safe(w)'
    <3>1. t[w] \in Task /\ Kept(w, t[w])
      BY <1>2 DEF CtxInv, Safe, Pointers
    <3>2. \A x \in Task : Kept(w, x) => Kept(w, x)'
      BY <1>1, <1>2, <1>5, <2>3, KeptAfter DEF ListInv
    <3> QED
      BY <1>2, <1>5, <2>3, <3>1, <3>2, ConstantsAssumption DEF CtxInv, Safe, Pointers
  <2> QED
    BY <2>2, <2>4 DEF CtxInv
<1>8. ~HoldsLock(w) /\ HoldsLock(w)' /\ At(w)' = t[w] /\ ~Pins(w) /\ ~Pins(w)'
  BY <1>3, <1>5, <1>6 DEF HoldsLock, At, Pins, Reading, Detailers
<1>9. LockInv' /\ UsageInv' /\ alloc_lock' \in [Task -> Walker \cup {Nil}]
  BY <1>3, <1>5, <1>8, LockStep
<1>10. usage' \in [Task -> Nat] /\ "task" \in PCs /\ kbuf' \ {w} = kbuf \ {w}
  BY <1>2, <1>3 DEF TypeOK, PCs
<1>11. /\ prog[w] \in Listers \cup Detailers \cup {"none", "ding"}
       /\ g[w] \in Task \cup {InitTask} /\ t[w] \in Task \cup {Nil}
       /\ seen[w] \in SUBSET Task /\ must[w] \in SUBSET Task
  BY <1>2, CtxTypes
<1> QED
  BY <1>1, <1>3, <1>7, <1>9, <1>10, <1>11, WalkerIInv

LEMMA NothingHeldIsSafe ==
    ASSUME NEW R, NEW w \in Ctx, g'[w] = InitTask, t'[w] = Nil, seen'[w] = {}, must'[w] = {},
           pc'[w] \in AtRest, prog'[w] \notin Detailers
    PROVE  Pointers(w)' /\ Safe(w)' /\ WalkInv(R, w)'
  BY ConstantsAssumption DEF Pointers, Safe, WalkInv, AtRest, ThreadWalkers, Detailers, Locked, Passed

LEMMA DetailsEnds ==
    ASSUME IInv, NEW w \in Walker, prog[w] \in Detailers, DetailsEnd(w) \/ DisplayDead(w)
    PROVE  IInv'
<1>1. PICK R \in SUBSET (Task \X Task) : ListInv(R) /\ \A v \in Ctx : CtxInv(R, v)
  BY DEF IInv
<1>2. w \in Ctx /\ w # Softirq /\ TypeOK /\ CtxInv(R, w)
  BY <1>1, ConstantsAssumption DEF Ctx, IInv
<1>3. /\ Move(w, "idle", "none", InitTask, Nil, {}, {})
      /\ UNCHANGED <<kbuf, usage, timer>>
      /\ \/ pc[w] = "unlock" /\ alloc_lock' = [alloc_lock EXCEPT ![t[w]] = Nil]
         \/ pc[w] = "alive" /\ UNCHANGED alloc_lock
  BY DEF DetailsEnd, DisplayDead, Go, Return, Forget, Move, kernel
<1>5. /\ CtxStep(w)
      /\ pc'[w] = "idle" /\ prog'[w] = "none" /\ g'[w] = InitTask /\ t'[w] = Nil
      /\ seen'[w] = {} /\ must'[w] = {}
  BY <1>2, <1>3, MoveIs
<1>6. prog[w] \notin Listers /\ t[w] \in Task /\ At(w) = t[w] /\ prog[w] # "foreach"
  BY <1>2 DEF CtxInv, Pointers, Listers, Detailers, At
<1>7. CtxInv(R, w)'
  <2>1. Place(w)'
    BY <1>2, <1>3, <1>5, <1>6 DEF CtxInv, Place
  <2> QED
    BY <1>2, <1>5, <2>1, NothingHeldIsSafe DEF CtxInv, AtRest, Detailers
<1>8. ~HoldsLock(w)' /\ ~Pins(w)' /\ ~Pins(w)
  BY <1>3, <1>5 DEF HoldsLock, Pins, Listers, Detailers
<1>9. LockInv' /\ UsageInv' /\ alloc_lock' \in [Task -> Walker \cup {Nil}]
  <2>1. CASE pc[w] = "unlock" /\ alloc_lock' = [alloc_lock EXCEPT ![t[w]] = Nil]
    <3>1. HoldsLock(w)
      BY <2>1 DEF HoldsLock, Reading
    <3> QED
      BY <1>3, <1>5, <1>6, <1>8, <2>1, <3>1, UnlockStep
  <2>2. CASE pc[w] = "alive" /\ UNCHANGED alloc_lock
    <3>1. ~HoldsLock(w)
      BY <1>6, <2>2 DEF HoldsLock, Reading
    <3> QED
      BY <1>2, <1>3, <1>5, <1>8, <2>2, <3>1, NoLockStep DEF TypeOK
  <2> QED
    BY <1>3, <2>1, <2>2
<1>10. /\ usage' \in [Task -> Nat] /\ "idle" \in PCs /\ kbuf' \ {w} = kbuf \ {w}
       /\ "none" \in Listers \cup Detailers \cup {"none", "ding"}
       /\ {} \in SUBSET Task /\ {} \subseteq must[w]
  BY <1>2, <1>3 DEF TypeOK, PCs
<1> QED
  BY <1>1, <1>3, <1>7, <1>9, <1>10, WalkerIInv

-----------------------------------------------------------------------------
(* The walks: begin and end *)

LEMMA SectionAfter ==
    ASSUME IInv, NEW w \in Ctx, Place(w)', pc'[w] \notin AtRest, UNCHANGED build
    PROVE  InSection(w)'
<1>1. build \in Builds /\ prog'[w] \in Programs[build] \cup {"none", "ding"}
  BY DEF IInv, TypeOK, Place
<1>2. Programs[build] \subseteq Listers \cup Detailers
  BY <1>1, ConstantsAssumption
<1>3. CASE w = Softirq
  BY <1>3 DEF InSection, AtRest
<1>4. CASE w # Softirq /\ build = "none"
  BY <1>4 DEF InSection, AtRest
<1>5. CASE w # Softirq /\ build = "preempt"
  <2>1. prog'[w] \in Listers
    BY <1>1, <1>2, <1>5 DEF IInv, SafeBuilds, Place, AtRest
  <2> QED
    BY <1>5, <2>1 DEF InSection, AtRest
<1> QED
  BY <1>1, <1>3, <1>4, <1>5 DEF Builds

\* A step of a walk that touches no lock, no count, no buffer and no timer.
LEMMA WalkIInv ==
    ASSUME IInv, NEW R \in SUBSET (Task \X Task), ListInv(R), \A v \in Ctx : CtxInv(R, v),
           NEW w \in Ctx, w \in Walker \/ pc[w] # "idle",
           NEW p \in PCs \ {"mm"}, NEW q \in Listers \cup Detailers \cup {"none", "ding"},
           NEW y \in Task \cup {InitTask}, NEW x \in Task \cup {Nil},
           NEW sn \in SUBSET Task, NEW mu \in SUBSET Task,
           Move(w, p, q, y, x, sn, mu), mu \subseteq must[w] \/ ~InSection(w),
           kbuf' \ {w} = kbuf \ {w}, UNCHANGED <<usage, alloc_lock, timer>>,
           ~HoldsLock(w), ~HoldsLock(w)', ~Pins(w), ~Pins(w)',
           CtxInv(R, w)'
    PROVE  IInv'
<1>1. CtxStep(w) /\ pc'[w] = p
  BY MoveIs DEF IInv
<1>2. LockInv' /\ UsageInv'
  BY <1>1, NoLockStep
<1>3. TimerInModule'
  BY <1>1, ConstantsAssumption DEF IInv, TimerInModule, timer, CtxStep, Ctx
<1>4. pending' \in BOOLEAN /\ vmod' \in {"out", "in", "exiting"}
  BY DEF IInv, TypeOK, timer
<1>5. usage' \in [Task -> Nat] /\ alloc_lock' \in [Task -> Walker \cup {Nil}]
  BY DEF IInv, TypeOK
<1>6. kbuf' \subseteq Walker
  <2>1. CASE w \in Walker
    BY <2>1 DEF IInv, TypeOK
  <2>2. CASE w \notin Walker
    <3>1. w = Softirq /\ prog'[w] # "foreach"
      BY <2>2 DEF Ctx, CtxInv, Place
    <3>2. w \notin kbuf'
      BY <3>1 DEF CtxInv, Place
    <3> QED
      BY <3>2 DEF IInv, TypeOK
  <2> QED
    BY <2>1, <2>2
<1> QED
  BY <1>2, <1>3, <1>4, <1>5, <1>6, MoveIInv

LEMMA ReadBeginsStep ==
    ASSUME IInv, NEW w \in Walker, ReadBegins(w) PROVE IInv'
<1>1. PICK R \in SUBSET (Task \X Task) : ListInv(R) /\ \A v \in Ctx : CtxInv(R, v)
  BY DEF IInv
<1>2. w \in Ctx /\ w # Softirq /\ TypeOK /\ CtxInv(R, w)
  BY <1>1, ConstantsAssumption DEF Ctx, IInv
<1>3. /\ Move(w, "enter", "foreach", g[w], t[w], seen[w], must[w])
      /\ pc[w] = "idle" /\ "foreach" \in Programs[build]
      /\ kbuf' = kbuf \cup {w} /\ UNCHANGED <<usage, alloc_lock, timer>>
  BY <1>2, Same DEF ReadBegins, Call, Go, Move, kernel
<1>4. /\ CtxStep(w)
      /\ pc'[w] = "enter" /\ prog'[w] = "foreach" /\ g'[w] = g[w] /\ t'[w] = t[w]
      /\ seen'[w] = seen[w] /\ must'[w] = must[w]
  BY <1>2, <1>3, MoveIs
<1>5. g[w] = InitTask /\ t[w] = Nil /\ seen[w] = {} /\ must[w] = {}
  BY <1>2, <1>3 DEF CtxInv, Pointers, AtRest
<1>6. CtxInv(R, w)'
  <2>1. Place(w)'
    BY <1>2, <1>3, <1>4 DEF Place, CtxStep
  <2> QED
    BY <1>2, <1>4, <1>5, <2>1, NothingHeldIsSafe DEF CtxInv, AtRest, Detailers
<1>7. ~HoldsLock(w) /\ ~HoldsLock(w)' /\ ~Pins(w) /\ ~Pins(w)'
  BY <1>3, <1>4 DEF HoldsLock, Pins, Locked, Reading
<1>8. /\ "enter" \in PCs \ {"mm"} /\ "foreach" \in Listers \cup Detailers \cup {"none", "ding"}
      /\ kbuf' \ {w} = kbuf \ {w}
  BY <1>3 DEF PCs, Listers
<1>9. /\ g[w] \in Task \cup {InitTask} /\ t[w] \in Task \cup {Nil}
      /\ seen[w] \in SUBSET Task /\ must[w] \in SUBSET Task
  BY <1>2, CtxTypes
<1> QED
  BY <1>1, <1>2, <1>3, <1>6, <1>7, <1>8, <1>9, WalkIInv

\* What holds when a walk has taken its first pointer.
LEMMA FirstProcessCtx ==
    ASSUME IInv, NEW R, ListInv(R), NEW w \in Ctx, CtxInv(R, w), NEW from \in AtRest, NEW p \in Listers \cup {"ding"},
           FirstProcess(w, from, p), p = "ding" <=> w = Softirq,
           p \in Programs[build] \cup {"ding"}, w \in kbuf <=> p = "foreach"
    PROVE  /\ CtxInv(R, w)' /\ UNCHANGED <<kbuf, usage, alloc_lock, vmod>> /\ pc[w] = from
           /\ Move(w, "group", p, next[InitTask], t[w], seen[w],
                  {x \in Task : Linked(x) /\ (p = "foreach" => leader[x] = x)})
<1> DEFINE M == {x \in Task : Linked(x) /\ (p = "foreach" => leader[x] = x)}
<1> USE DEF ListInv
<1>1. TypeOK
  BY DEF IInv
<1>2. /\ Move(w, "group", p, next[InitTask], t[w], seen[w], M)
      /\ UNCHANGED <<kbuf, usage, alloc_lock, vmod>> /\ pc[w] = from
  BY <1>1, Same DEF FirstProcess, Go, Move, kernel
<1>3. /\ CtxStep(w)
      /\ pc'[w] = "group" /\ prog'[w] = p /\ g'[w] = next[InitTask] /\ t'[w] = t[w]
      /\ seen'[w] = seen[w] /\ must'[w] = M
  BY <1>1, <1>2, MoveIs
<1>4. t[w] = Nil /\ seen[w] = {} /\ UNCHANGED <<build, life, leader, next, first, tnext>>
  BY <1>2, <1>3 DEF CtxInv, Pointers, CtxStep
<1>5. next[InitTask] \in Task =>
        Linked(next[InitTask]) /\ leader[next[InitTask]] = next[InitTask]
  BY ConstantsAssumption DEF LinkInv, Listed
<1>6. \A x \in M : /\ x \in Task /\ Linked(x) /\ leader[x] \in M /\ (p = "foreach" => leader[x] = x)
                   /\ leader[leader[x]] = leader[x]
                   /\ UpTo(R, next[InitTask], leader[x])
  BY <1>1 DEF LinkInv, NoGapInv, Listed, TypeOK
<1>7. Place(w)'
  BY <1>2, <1>3, <1>4 DEF Place, Listers, Locked
<1>8. Pointers(w)'
  BY <1>3, <1>4, <1>5, ConstantsAssumption DEF Pointers, AtRest, Locked, Listers, Detailers
<1>9. Safe(w)'
  <2>1. InSection(w)'
    BY <1>3, <1>4, <1>7, SectionAfter DEF AtRest
  <2>2. next[InitTask] \in Task => Kept(w, next[InitTask])'
    BY <1>4, <1>5 DEF Kept, Linked
  <2>3. \A x \in M : Linked(x)' /\ leader'[x] \in M /\ (p = "foreach" => leader'[x] = x)
    BY <1>4, <1>6 DEF Linked
  <2> HIDE DEF M
  <2> QED
    BY <1>3, <1>4, <2>1, <2>2, <2>3, ConstantsAssumption DEF Safe
<1>10. WalkInv(R, w)'
  <2> HIDE DEF M
  <2> QED
    BY <1>3, <1>4, <1>6 DEF WalkInv, UpTo, Passed, ThreadWalkers
<1> QED
  BY <1>2, <1>7, <1>8, <1>9, <1>10 DEF CtxInv

LEMMA WalkBegins ==
    ASSUME IInv, NEW w \in Walker,
           \/ prog[w] = "foreach" /\ FirstProcess(w, "enter", "foreach") /\ UNCHANGED pending
           \/ ShowBegins(w)
    PROVE  IInv'
<1>1. PICK R \in SUBSET (Task \X Task) : ListInv(R) /\ \A v \in Ctx : CtxInv(R, v)
  BY DEF IInv
<1>2. w \in Ctx /\ w # Softirq /\ TypeOK /\ CtxInv(R, w)
  BY <1>1, ConstantsAssumption DEF Ctx, IInv
<1>3. PICK from \in {"enter", "idle"}, p \in Listers :
        /\ FirstProcess(w, from, p) /\ UNCHANGED pending
        /\ p \in Programs[build] /\ (w \in kbuf <=> p = "foreach")
        /\ from = "enter" => prog[w] = "foreach"
        /\ pc[w] = from
  <2>1. CASE ShowBegins(w)
    <3>1. pc[w] = "idle" /\ "showthreads" \in Programs[build]
      BY <2>1 DEF ShowBegins, Call, Go
    <3>2. w \notin kbuf
      BY <1>2, <3>1 DEF CtxInv, Place, Locked
    <3> QED
      BY <2>1, <3>1, <3>2 DEF ShowBegins, Listers
  <2>2. CASE prog[w] = "foreach" /\ FirstProcess(w, "enter", "foreach") /\ UNCHANGED pending
    BY <1>2, <2>2 DEF CtxInv, Place, Listers, FirstProcess, Go
  <2> QED
    BY <2>1, <2>2
<1>4. p # "ding" /\ from \in AtRest
  BY DEF Listers, AtRest
<1> DEFINE M == {x \in Task : Linked(x) /\ (p = "foreach" => leader[x] = x)}
<1>5. /\ CtxInv(R, w)' /\ UNCHANGED <<kbuf, usage, alloc_lock, timer>>
      /\ Move(w, "group", p, next[InitTask], t[w], seen[w], M)
  BY <1>1, <1>2, <1>3, <1>4, FirstProcessCtx DEF timer
<1>6. pc'[w] = "group"
  BY <1>2, <1>5, MoveIs
<1>7. ~HoldsLock(w) /\ ~HoldsLock(w)' /\ ~Pins(w) /\ ~Pins(w)'
  BY <1>3, <1>6 DEF HoldsLock, Pins, Locked, Reading
<1>8. ~InSection(w)
  BY <1>2, <1>3, Sections DEF InSection, CtxInv
<1>9. /\ "group" \in PCs \ {"mm"} /\ p \in Listers \cup Detailers \cup {"none", "ding"}
      /\ kbuf' \ {w} = kbuf \ {w} /\ next[InitTask] \in Task \cup {InitTask}
      /\ M \in SUBSET Task
  BY <1>2, <1>5 DEF PCs, TypeOK
<1>10. t[w] \in Task \cup {Nil} /\ seen[w] \in SUBSET Task
  BY <1>2, CtxTypes
<1> HIDE DEF M
<1> QED
  BY <1>1, <1>2, <1>5, <1>7, <1>8, <1>9, <1>10, WalkIInv

LEMMA WalkEnds ==
    ASSUME IInv, NEW w \in Ctx,
           \/ prog[w] = "foreach" /\ (ReadLeaves(w) \/ ReadReturns(w))
           \/ prog[w] = "showthreads" /\ ShowEnds(w)
           \/ w = Softirq /\ DingReturns
    PROVE  IInv'
<1>1. PICK R \in SUBSET (Task \X Task) : ListInv(R) /\ \A v \in Ctx : CtxInv(R, v)
  BY DEF IInv
<1>2. TypeOK /\ CtxInv(R, w)
  BY <1>1 DEF IInv
<1>3. PICK p \in AtRest, q \in {"foreach", "none", "ding"} :
        /\ Move(w, p, q, InitTask, Nil, {}, {})
        /\ pc[w] \in {"group", "copy", "return"} /\ UNCHANGED <<usage, alloc_lock, timer>>
        /\ \/ q = "foreach" /\ p = "copy" /\ prog[w] = "foreach" /\ UNCHANGED kbuf
           \/ q = "none" /\ p = "idle" /\ prog[w] \in Listers /\ kbuf' = kbuf \ {w}
           \/ q = "ding" /\ p = "idle" /\ w = Softirq /\ UNCHANGED kbuf
  <2>1. CASE prog[w] = "foreach" /\ ReadLeaves(w)
    <3>1. Move(w, "copy", prog[w], InitTask, Nil, {}, {})
      BY <1>2, <2>1, Same DEF ReadLeaves, Go, Forget, Move, kernel
    <3> QED
      BY <2>1, <3>1 DEF ReadLeaves, Go, kernel, AtRest
  <2>2. CASE prog[w] = "foreach" /\ ReadReturns(w)
    <3>1. pc[w] = "copy"
      BY <2>2 DEF ReadReturns, Go
    <3>2. g[w] = InitTask /\ t[w] = Nil /\ seen[w] = {} /\ must[w] = {}
      BY <1>2, <3>1 DEF CtxInv, Pointers, AtRest
    <3>3. Move(w, "idle", "none", g[w], t[w], seen[w], must[w])
      BY <1>2, <2>2, Same DEF ReadReturns, Go, Return, Move, kernel
    <3> QED
      BY <2>2, <3>1, <3>2, <3>3 DEF ReadReturns, kernel, AtRest, Listers
  <2>3. CASE prog[w] = "showthreads" /\ ShowEnds(w)
    <3>1. Move(w, "idle", "none", InitTask, Nil, {}, {})
      BY <2>3 DEF ShowEnds, Go, Return, Forget, Move, kernel
    <3>2. w \notin kbuf
      BY <1>2, <2>3 DEF CtxInv, Place
    <3> QED
      BY <2>3, <3>1, <3>2 DEF ShowEnds, Go, kernel, AtRest, Listers
  <2>4. CASE w = Softirq /\ DingReturns
    <3>1. pc[w] = "return" /\ prog[w] = "ding"
      BY <1>2, <2>4 DEF DingReturns, Pass, Go, CtxInv, Place
    <3>2. g[w] = InitTask /\ t[w] = Nil /\ seen[w] = {} /\ must[w] = {}
      BY <1>2, <3>1 DEF CtxInv, Pointers, AtRest
    <3>3. Move(w, "idle", prog[w], g[w], t[w], seen[w], must[w])
      BY <1>2, <2>4, Same DEF DingReturns, Pass, Go, Move, kernel
    <3> QED
      BY <2>4, <3>1, <3>2, <3>3 DEF DingReturns, Pass, kernel, AtRest
  <2> QED
    BY <2>1, <2>2, <2>3, <2>4
<1>4. kbuf' \ {w} = kbuf \ {w}
  BY <1>3
<1>5. /\ CtxStep(w)
      /\ pc'[w] = p /\ prog'[w] = q /\ g'[w] = InitTask /\ t'[w] = Nil
      /\ seen'[w] = {} /\ must'[w] = {}
  BY <1>2, <1>3, <1>4, MoveIs
<1>6. CtxInv(R, w)'
  <2>1. Place(w)'
    BY <1>2, <1>3, <1>5, ConstantsAssumption DEF CtxInv, Place, CtxStep, Listers
  <2> QED
    BY <1>2, <1>5, <2>1, NothingHeldIsSafe DEF CtxInv, Detailers
<1>7. ~HoldsLock(w) /\ ~HoldsLock(w)' /\ ~Pins(w) /\ ~Pins(w)' /\ pc[w] # "idle"
  BY <1>3, <1>5 DEF HoldsLock, Pins, Locked, Reading, AtRest
<1>8. /\ p \in PCs \ {"mm"} /\ q \in Listers \cup Detailers \cup {"none", "ding"}
      /\ {} \in SUBSET Task /\ {} \subseteq must[w]
  BY DEF PCs, AtRest, Listers
<1> QED
  BY <1>1, <1>3, <1>4, <1>6, <1>7, <1>8, WalkIInv

\* Softirq holds no lock and no reference: only what it does to the timer and
\* to itself matters.
LEMMA DingIInv ==
    ASSUME IInv, NEW R \in SUBSET (Task \X Task), ListInv(R), \A v \in Ctx : CtxInv(R, v),
           NEW p \in PCs, NEW y \in Task \cup {InitTask}, NEW x \in Task \cup {Nil},
           NEW sn \in SUBSET Task, NEW mu \in SUBSET Task,
           Move(Softirq, p, "ding", y, x, sn, mu), mu \subseteq must[Softirq] \/ ~InSection(Softirq),
           UNCHANGED <<kbuf, usage, alloc_lock, vmod>>, pending' \in BOOLEAN,
           vmod # "out", CtxInv(R, Softirq)'
    PROVE  IInv'
<1>1. Softirq \in Ctx /\ Softirq \notin Walker /\ TypeOK
  BY ConstantsAssumption DEF Ctx, IInv
<1>2. CtxStep(Softirq)
  BY <1>1, MoveIs
<1>3. LockInv' /\ UsageInv'
  BY <1>1, <1>2, NoLockStep
<1>4. TimerInModule'
  BY DEF TimerInModule
<1>5. usage' \in [Task -> Nat] /\ alloc_lock' \in [Task -> Walker \cup {Nil}] /\ kbuf' \subseteq Walker
      /\ vmod' \in {"out", "in", "exiting"}
  BY <1>1 DEF TypeOK
<1>6. "ding" \in Listers \cup Detailers \cup {"none", "ding"} /\ kbuf' \ {Softirq} = kbuf \ {Softirq}
  OBVIOUS
<1> QED
  BY <1>1, <1>3, <1>4, <1>5, <1>6, MoveIInv

LEMMA DingTimer ==
    ASSUME IInv, DingBegins \/ DingRearms PROVE IInv'
<1>1. PICK R \in SUBSET (Task \X Task) : ListInv(R) /\ \A v \in Ctx : CtxInv(R, v)
  BY DEF IInv
<1>2. Softirq \in Ctx /\ Softirq \notin Walker /\ TypeOK /\ CtxInv(R, Softirq)
  BY <1>1, ConstantsAssumption DEF Ctx, IInv
<1>3. prog[Softirq] = "ding" /\ Softirq \notin kbuf
  BY <1>2 DEF CtxInv, Place
<1>4. t[Softirq] \in Task \cup {Nil} /\ seen[Softirq] \in SUBSET Task
  BY <1>2, CtxTypes
<1>5. CASE DingBegins
  <2> DEFINE M == {x \in Task : Linked(x) /\ ("ding" = "foreach" => leader[x] = x)}
  <2>1. FirstProcess(Softirq, "idle", "ding") /\ pending /\ pending' = FALSE /\ pc[Softirq] = "idle"
    BY <1>5 DEF DingBegins, FirstProcess, Go
  <2>2. /\ CtxInv(R, Softirq)' /\ UNCHANGED <<kbuf, usage, alloc_lock, vmod>>
        /\ Move(Softirq, "group", "ding", next[InitTask], t[Softirq], seen[Softirq], M)
    BY <1>1, <1>2, <1>3, <2>1, FirstProcessCtx DEF AtRest
  <2>3. ~InSection(Softirq)
    BY <2>1 DEF InSection
  <2>4. vmod # "out" /\ pending' \in BOOLEAN
    BY <2>1 DEF IInv, TimerInModule
  <2>5. "group" \in PCs /\ next[InitTask] \in Task \cup {InitTask} /\ M \in SUBSET Task
    BY <1>2 DEF PCs, TypeOK
  <2> HIDE DEF M
  <2> QED
    BY <1>1, <1>4, <2>2, <2>3, <2>4, <2>5, DingIInv
<1>6. CASE DingRearms
  <2>1. /\ Move(Softirq, "return", prog[Softirq], InitTask, Nil, {}, {})
        /\ pc[Softirq] = "group" /\ UNCHANGED <<kbuf, usage, alloc_lock, vmod>> /\ pending' = TRUE
    BY <1>2, <1>6, Same DEF DingRearms, Go, Forget, Move, kernel
  <2>2. /\ CtxStep(Softirq)
        /\ pc'[Softirq] = "return" /\ prog'[Softirq] = "ding" /\ g'[Softirq] = InitTask /\ t'[Softirq] = Nil
        /\ seen'[Softirq] = {} /\ must'[Softirq] = {}
    BY <1>2, <1>3, <2>1, MoveIs
  <2>3. CtxInv(R, Softirq)'
    <3>1. Place(Softirq)'
      BY <1>3, <2>1, <2>2 DEF Place
    <3> QED
      BY <1>2, <2>2, <3>1, NothingHeldIsSafe DEF CtxInv, AtRest, Detailers
  <2>4. vmod # "out" /\ pending' \in BOOLEAN
    BY <2>1 DEF IInv, TimerInModule
  <2>5. "return" \in PCs /\ {} \in SUBSET Task /\ {} \subseteq must[Softirq]
    BY DEF PCs
  <2> QED
    BY <1>1, <1>3, <2>1, <2>3, <2>4, <2>5, DingIInv
<1> QED
  BY <1>5, <1>6

-----------------------------------------------------------------------------
(* The walks: from task to task *)

LEMMA LinksKept ==
    ASSUME TypeOK, NEW R, ListInv(R), NEW w \in Ctx, NEW x \in Task, Kept(w, x)
    PROVE  /\ next[x] \in Task => /\ Kept(w, next[x]) /\ leader[next[x]] = next[x]
                                  /\ Below(R, x, next[x])
           /\ tnext[x] \in Task => /\ Kept(w, tnext[x]) /\ leader[tnext[x]] = leader[x]
                                   /\ Below(R, x, tnext[x])
  BY ConstantsAssumption DEF ListInv, LinkInv, RemovedInv, OrderInv, Kept, Listed

LEMMA NoJump ==
    ASSUME TypeOK, NEW R, ListInv(R), NEW w \in Ctx, NEW x \in Task, Kept(w, x),
           NEW z \in must[w], Linked(z), Below(R, x, z)
    PROVE  /\ leader[x] = x /\ leader[z] = z => UpTo(R, next[x], z)
           /\ leader[x] = leader[z] => UpTo(R, tnext[x], z)
<1>1. z \in Task
  BY DEF TypeOK
<1> QED
  BY <1>1 DEF ListInv, NoGapInv, Kept

\* The safety of w after a step to another kept task.
LEMMA SafeAfter ==
    ASSUME IInv, NEW R, ListInv(R), NEW w \in Ctx, CtxInv(R, w), CtxStep(w),
           pc[w] \notin AtRest, pc'[w] \notin AtRest, Place(w)', prog'[w] = prog[w],
           g'[w] \in Task => Kept(w, g'[w]), t'[w] \in Task => Kept(w, t'[w]),
           \A x \in seen'[w] : x \in Task /\ Kept(w, x), must'[w] = must[w]
    PROVE  Safe(w)'
<1>1. UNCHANGED <<build, life, leader>>
  BY DEF CtxStep
<1>2. InSection(w)'
  BY <1>1, SectionAfter
<1>3. \A x \in Task : Kept(w, x) => Kept(w, x)'
  BY <1>2, KeptAfter DEF IInv, ListInv
<1> QED
  BY <1>1, <1>2, <1>3 DEF Safe, CtxInv, Linked

LEMMA ReadNextStep ==
    ASSUME IInv, NEW w \in Walker, prog[w] = "foreach", ReadNext(w) PROVE IInv'
<1>1. PICK R \in SUBSET (Task \X Task) : ListInv(R) /\ \A v \in Ctx : CtxInv(R, v)
  BY DEF IInv
<1>2. w \in Ctx /\ w # Softirq /\ TypeOK /\ CtxInv(R, w)
  BY <1>1, ConstantsAssumption DEF Ctx, IInv
<1>3. /\ Move(w, "group", prog[w], next[g[w]], t[w], seen[w], must[w])
      /\ pc[w] = "step" /\ UNCHANGED <<kbuf, usage, alloc_lock, timer>>
  BY <1>2, Same DEF ReadNext, MoveG, Go, Move, kernel
<1>4. /\ CtxStep(w)
      /\ pc'[w] = "group" /\ prog'[w] = prog[w] /\ g'[w] = next[g[w]] /\ t'[w] = t[w]
      /\ seen'[w] = seen[w] /\ must'[w] = must[w]
  BY <1>2, <1>3, MoveIs
<1>5. /\ g[w] \in Task /\ Kept(w, g[w]) /\ leader[g[w]] = g[w]
      /\ t[w] \in Task \cup {Nil} /\ seen[w] \in SUBSET Task /\ must[w] \in SUBSET Task
  BY <1>2, <1>3, CtxTypes DEF CtxInv, Pointers, Safe
<1> DEFINE y == next[g[w]]
<1>6. y \in Task => Kept(w, y) /\ leader[y] = y /\ Below(R, g[w], y)
  BY <1>1, <1>2, <1>5, LinksKept
<1>7. CtxInv(R, w)'
  <2>1. Place(w)'
    BY <1>2, <1>3, <1>4 DEF CtxInv, Place, CtxStep, Locked
  <2>2. Pointers(w)'
    BY <1>2, <1>3, <1>4, <1>6 DEF CtxInv, Pointers, CtxStep, AtRest, Locked, ThreadWalkers, Detailers
  <2>3. Safe(w)'
    BY <1>1, <1>2, <1>3, <1>4, <1>5, <1>6, <2>1, SafeAfter DEF CtxInv, Safe, AtRest
  <2>4. WalkInv(R, w)'
    <3>1. \A x \in seen[w] : Below(R, x, g[w]) \/ x = g[w]
      BY <1>2, <1>5 DEF CtxInv, WalkInv
    <3>2. \A x \in seen[w] : y \in Task => Below(R, x, y)
      BY <1>1, <1>5, <1>6, <3>1 DEF ListInv, OrderInv, StrictOrder
    <3>3. \A z \in must[w] \ seen[w] : y \in Task /\ (Below(R, y, z) \/ z = y)
      <4> SUFFICES ASSUME NEW z \in must[w] \ seen[w]
                   PROVE  UpTo(R, y, z)
        BY DEF UpTo
      <4>1. Below(R, g[w], z) /\ Linked(z) /\ leader[z] = z
        BY <1>2, <1>3 DEF CtxInv, WalkInv, Passed, Safe
      <4> QED
        BY <1>1, <1>2, <1>5, <4>1, NoJump
    <3> QED
      BY <1>3, <1>4, <3>2, <3>3 DEF WalkInv, Passed, ThreadWalkers
  <2> QED
    BY <2>1, <2>2, <2>3, <2>4 DEF CtxInv
<1>8. ~HoldsLock(w) /\ ~HoldsLock(w)' /\ ~Pins(w) /\ ~Pins(w)'
  BY <1>3, <1>4 DEF HoldsLock, Pins, Locked, Reading
<1>9. /\ "group" \in PCs \ {"mm"} /\ prog[w] \in Listers \cup Detailers \cup {"none", "ding"}
      /\ kbuf' \ {w} = kbuf \ {w} /\ next[g[w]] \in Task \cup {InitTask}
  BY <1>2, <1>3, <1>5 DEF PCs, TypeOK, Listers
<1> QED
  BY <1>1, <1>2, <1>3, <1>5, <1>7, <1>8, <1>9, WalkIInv

LEMMA NextProcessStep ==
    ASSUME IInv, NEW w \in Ctx, prog[w] \in ThreadWalkers, NextProcess(w) PROVE IInv'
<1>1. PICK R \in SUBSET (Task \X Task) : ListInv(R) /\ \A v \in Ctx : CtxInv(R, v)
  BY DEF IInv
<1>2. TypeOK /\ CtxInv(R, w)
  BY <1>1 DEF IInv
<1>3. /\ Move(w, "group", prog[w], next[g[w]], t[w], seen[w], must[w])
      /\ pc[w] = "thread" /\ t[w] = Nil /\ UNCHANGED <<kbuf, usage, alloc_lock, timer>>
  BY <1>2, Same DEF NextProcess, MoveG, Go, Move, kernel
<1>4. /\ CtxStep(w)
      /\ pc'[w] = "group" /\ prog'[w] = prog[w] /\ g'[w] = next[g[w]] /\ t'[w] = t[w]
      /\ seen'[w] = seen[w] /\ must'[w] = must[w]
  BY <1>2, <1>3, MoveIs
<1>5. /\ g[w] \in Task /\ Kept(w, g[w]) /\ leader[g[w]] = g[w]
      /\ t[w] \in Task \cup {Nil} /\ seen[w] \in SUBSET Task /\ must[w] \in SUBSET Task
  BY <1>2, <1>3, CtxTypes DEF CtxInv, Pointers, Safe
<1> DEFINE y == next[g[w]]
<1>6. y \in Task => Kept(w, y) /\ leader[y] = y /\ Below(R, g[w], y)
  BY <1>1, <1>2, <1>5, LinksKept
<1>7. CtxInv(R, w)'
  <2>1. Place(w)'
    BY <1>2, <1>3, <1>4 DEF CtxInv, Place, CtxStep, Locked, Reading
  <2>2. Pointers(w)'
    BY <1>2, <1>3, <1>4, <1>6, ConstantsAssumption
       DEF CtxInv, Pointers, CtxStep, AtRest, Locked, ThreadWalkers, Detailers
  <2>3. Safe(w)'
    BY <1>1, <1>2, <1>3, <1>4, <1>5, <1>6, <2>1, SafeAfter DEF CtxInv, Safe, AtRest
  <2>4. WalkInv(R, w)'
    <3>1. \A x \in seen[w] : leader[x] \in Task /\ (Below(R, leader[x], g[w]) \/ leader[x] = g[w])
      BY <1>2, <1>5 DEF CtxInv, WalkInv, TypeOK
    <3>2. \A x \in seen[w] : y \in Task => Below(R, leader[x], y)
      BY <1>1, <1>5, <1>6, <3>1 DEF ListInv, OrderInv, StrictOrder
    <3>3. \A z \in must[w] \ seen[w] : y \in Task /\ (Below(R, y, leader[z]) \/ leader[z] = y)
      <4> SUFFICES ASSUME NEW z \in must[w] \ seen[w]
                   PROVE  UpTo(R, y, leader[z])
        BY DEF UpTo
      <4>1. Below(R, g[w], leader[z]) /\ Linked(z) /\ leader[z] \in must[w]
        BY <1>2, <1>3, ConstantsAssumption DEF CtxInv, WalkInv, Safe
      <4>2. Linked(leader[z]) /\ leader[leader[z]] = leader[z]
        BY <1>1, <1>5, <4>1 DEF ListInv, LinkInv
      <4> QED
        BY <1>1, <1>2, <1>5, <4>1, <4>2, NoJump
    <3>4. UNCHANGED leader /\ prog[w] # "foreach"
      BY <1>4 DEF CtxStep, ThreadWalkers
    <3> QED
      BY <1>3, <1>4, <3>2, <3>3, <3>4 DEF WalkInv, Passed
  <2> QED
    BY <2>1, <2>2, <2>3, <2>4 DEF CtxInv
<1>8. ~HoldsLock(w) /\ ~HoldsLock(w)' /\ ~Pins(w) /\ ~Pins(w)' /\ pc[w] # "idle"
  BY <1>3, <1>4 DEF HoldsLock, Pins, Locked, Reading
<1>9. /\ "group" \in PCs \ {"mm"} /\ prog[w] \in Listers \cup Detailers \cup {"none", "ding"}
      /\ kbuf' \ {w} = kbuf \ {w} /\ next[g[w]] \in Task \cup {InitTask}
  BY <1>2, <1>3, <1>5 DEF PCs, TypeOK
<1> QED
  BY <1>1, <1>3, <1>5, <1>7, <1>8, <1>9, WalkIInv

LEMMA ThreadStep ==
    ASSUME IInv, NEW w \in Ctx, prog[w] \in ThreadWalkers, FirstThread(w) \/ NextThread(w) PROVE IInv'
<1>1. PICK R \in SUBSET (Task \X Task) : ListInv(R) /\ \A v \in Ctx : CtxInv(R, v)
  BY DEF IInv
<1>2. TypeOK /\ CtxInv(R, w)
  BY <1>1 DEF IInv
<1>3. PICK x \in Task \cup {Nil} :
        /\ Move(w, "thread", prog[w], g[w], x, seen[w], must[w])
        /\ UNCHANGED <<kbuf, usage, alloc_lock, timer>>
        /\ \/ pc[w] = "group" /\ g[w] \in Task /\ x = first[g[w]]
           \/ pc[w] = "step" /\ t[w] \in Task /\ x = tnext[t[w]]
  <2>1. CASE FirstThread(w)
    <3>1. g[w] \in Task
      BY <1>2, <2>1, CtxTypes DEF FirstThread
    <3>2. Move(w, "thread", prog[w], g[w], first[g[w]], seen[w], must[w])
      BY <1>2, <2>1, Same DEF FirstThread, MoveT, Go, Move, kernel
    <3> QED
      BY <1>2, <2>1, <3>1, <3>2 DEF FirstThread, MoveT, Go, kernel, TypeOK
  <2>2. CASE NextThread(w)
    <3>1. t[w] \in Task
      BY <1>2, <2>2 DEF NextThread, MoveT, Go, CtxInv, Pointers
    <3>2. Move(w, "thread", prog[w], g[w], tnext[t[w]], seen[w], must[w])
      BY <1>2, <2>2, Same DEF NextThread, MoveT, Go, Move, kernel
    <3> QED
      BY <1>2, <2>2, <3>1, <3>2 DEF NextThread, MoveT, Go, kernel, TypeOK
  <2> QED
    BY <2>1, <2>2
<1>4. /\ CtxStep(w)
      /\ pc'[w] = "thread" /\ prog'[w] = prog[w] /\ g'[w] = g[w] /\ t'[w] = x
      /\ seen'[w] = seen[w] /\ must'[w] = must[w]
  BY <1>2, <1>3, MoveIs
<1>5. /\ g[w] \in Task /\ Kept(w, g[w]) /\ leader[g[w]] = g[w]
      /\ seen[w] \in SUBSET Task /\ must[w] \in SUBSET Task
  BY <1>2, <1>3, CtxTypes DEF CtxInv, Pointers, Safe
<1>6. x \in Task => Kept(w, x) /\ leader[x] = g[w]
  <2>1. CASE pc[w] = "group" /\ x = first[g[w]]
    <3>1. x \in Task => x = g[w]
      BY <1>1, <1>5, <2>1, ConstantsAssumption DEF ListInv, LifeInv
    <3> QED
      BY <1>5, <3>1
  <2>2. CASE pc[w] = "step" /\ t[w] \in Task /\ x = tnext[t[w]]
    <3>1. Kept(w, t[w]) /\ leader[t[w]] = g[w]
      BY <1>2, <2>2 DEF CtxInv, Pointers, Safe
    <3> QED
      BY <1>1, <1>2, <2>2, <3>1, LinksKept
  <2> QED
    BY <1>3, <2>1, <2>2
<1>7. CtxInv(R, w)'
  <2>1. Place(w)'
    BY <1>2, <1>3, <1>4 DEF CtxInv, Place, CtxStep, Locked, Reading, ThreadWalkers
  <2>2. Pointers(w)'
    BY <1>2, <1>3, <1>4, <1>5, <1>6, ConstantsAssumption
       DEF CtxInv, Pointers, CtxStep, AtRest, Locked, ThreadWalkers, Detailers
  <2>3. Safe(w)'
    BY <1>1, <1>2, <1>3, <1>4, <1>5, <1>6, <2>1, SafeAfter DEF CtxInv, Safe, AtRest
  <2>4. WalkInv(R, w)'
    <3>1. \A v \in seen[w] :
            \/ Below(R, leader[v], g[w])
            \/ leader[v] = g[w] /\ (x \in Task => Below(R, v, x))
      <4>1. CASE pc[w] = "group"
        BY <1>2, <1>5, <4>1 DEF CtxInv, WalkInv
      <4>2. CASE pc[w] = "step" /\ t[w] \in Task /\ x = tnext[t[w]]
        <5>1. \A v \in seen[w] :
                \/ Below(R, leader[v], g[w])
                \/ leader[v] = g[w] /\ (Below(R, v, t[w]) \/ v = t[w])
          BY <1>2, <1>5, <4>2 DEF CtxInv, WalkInv
        <5>2. x \in Task => Below(R, t[w], x)
          BY <1>1, <4>2 DEF ListInv, OrderInv
        <5> QED
          BY <1>1, <1>5, <4>2, <5>1, <5>2 DEF ListInv, OrderInv, StrictOrder
      <4> QED
        BY <1>3, <4>1, <4>2
    <3>2. ASSUME NEW z \in must[w] \ seen[w]
          PROVE  \/ Below(R, g[w], leader[z])
                 \/ leader[z] = g[w] /\ UpTo(R, x, z)
      <4>0. Linked(z) /\ z \in Task
        BY <1>2, <1>5 DEF CtxInv, Safe
      <4>1. CASE pc[w] = "group" /\ x = first[g[w]]
        <5>1. Below(R, g[w], leader[z]) \/ leader[z] = g[w]
          BY <1>2, <1>5, <4>1 DEF CtxInv, WalkInv
        <5>2. CASE leader[z] = g[w]
          <6>1. Linked(g[w])
            BY <1>1, <4>0, <5>2 DEF ListInv, LinkInv
          <6>2. x = g[w]
            BY <1>1, <1>5, <4>1, <6>1 DEF ListInv, LifeInv
          <6>3. UpTo(R, leader[z], z)
            BY <1>1, <4>0 DEF ListInv, OrderInv
          <6> QED
            BY <5>2, <6>2, <6>3
        <5> QED
          BY <5>1, <5>2
      <4>2. CASE pc[w] = "step" /\ t[w] \in Task /\ x = tnext[t[w]]
        <5>1. \/ Below(R, g[w], leader[z])
              \/ leader[z] = g[w] /\ Below(R, t[w], z)
          BY <1>2, <1>5, <4>2 DEF CtxInv, WalkInv, Passed
        <5>2. CASE leader[z] = g[w] /\ Below(R, t[w], z)
          <6>1. Kept(w, t[w]) /\ leader[t[w]] = g[w]
            BY <1>2, <4>2 DEF CtxInv, Pointers, Safe
          <6> QED
            BY <1>1, <1>2, <4>0, <4>2, <5>2, <6>1, NoJump
        <5> QED
          BY <5>1, <5>2
      <4> QED
        BY <1>3, <4>1, <4>2
    <3>3. UNCHANGED leader /\ prog[w] # "foreach"
      BY <1>4 DEF CtxStep, ThreadWalkers
    <3> QED
      BY <1>4, <1>5, <3>1, <3>2, <3>3 DEF WalkInv, Passed, UpTo
  <2> QED
    BY <2>1, <2>2, <2>3, <2>4 DEF CtxInv
<1>8. ~HoldsLock(w) /\ ~HoldsLock(w)' /\ ~Pins(w) /\ ~Pins(w)' /\ pc[w] # "idle"
  BY <1>3, <1>4 DEF HoldsLock, Pins, Locked, Reading
<1>9. /\ "thread" \in PCs \ {"mm"} /\ prog[w] \in Listers \cup Detailers \cup {"none", "ding"}
      /\ kbuf' \ {w} = kbuf \ {w}
  BY <1>2, <1>3 DEF PCs, TypeOK
<1> QED
  BY <1>1, <1>3, <1>5, <1>7, <1>8, <1>9, WalkIInv

-----------------------------------------------------------------------------
(* The walks: at a task *)

\* The task that a walk is about to visit becomes one that it has visited.
LEMMA VisitCtx ==
    ASSUME IInv, NEW R, ListInv(R), NEW w \in Ctx, CtxInv(R, w), CtxStep(w), Place(w)',
           prog[w] \in Listers \cup {"ding"}, pc[w] \in {"body", "thread"}, At(w) \in Task,
           pc'[w] \in {"resched", "put", "step"}, prog'[w] = prog[w], g'[w] = g[w], t'[w] = t[w],
           seen'[w] = seen[w] \cup {At(w)}, must'[w] = must[w]
    PROVE  CtxInv(R, w)'
<1>1. TypeOK /\ UNCHANGED leader /\ seen[w] \in SUBSET Task
  BY CtxTypes DEF IInv, CtxStep
<1>2. prog[w] = "foreach" => pc[w] = "body" /\ g[w] \in Task /\ At(w) = g[w]
  BY DEF CtxInv, Place, Pointers, Locked, At
<1>3. prog[w] # "foreach" => prog[w] \in ThreadWalkers /\ g[w] \in Task /\ t[w] \in Task /\ At(w) = t[w]
  BY DEF CtxInv, Pointers, Locked, At, Listers, ThreadWalkers
<1>4. Pointers(w)'
  <2>1. prog[w] \notin Detailers /\ pc'[w] \notin AtRest /\ pc'[w] # "group"
    BY DEF Listers, Detailers, AtRest
  <2> QED
    BY <1>1, <1>2, <1>3, <2>1 DEF CtxInv, Pointers, ThreadWalkers
<1>5. Safe(w)'
  <2>1. Kept(w, At(w))
    BY <1>2, <1>3 DEF CtxInv, Safe
  <2>2. /\ g'[w] \in Task => Kept(w, g'[w])
        /\ t'[w] \in Task => Kept(w, t'[w])
        /\ \A x \in seen'[w] : x \in Task /\ Kept(w, x)
    BY <1>1, <2>1 DEF CtxInv, Safe
  <2>3. pc[w] \notin AtRest /\ pc'[w] \notin AtRest
    BY DEF AtRest
  <2> QED
    BY <2>2, <2>3, SafeAfter
<1>6. WalkInv(R, w)'
  <2>1. Passed(w)' /\ ~Passed(w) /\ pc[w] # "group" /\ pc'[w] # "group"
    BY DEF Passed
  <2>2. CASE prog[w] = "foreach"
    <3>1. prog[w] \notin ThreadWalkers
      BY <2>2 DEF ThreadWalkers
    <3>2. \A x \in seen[w] : Below(R, x, g[w])
      BY <1>2, <2>1, <2>2 DEF CtxInv, WalkInv
    <3>3. \A z \in must[w] \ seen[w] : Below(R, g[w], z) \/ z = g[w]
      BY <1>2, <2>1, <2>2 DEF CtxInv, WalkInv
    <3> QED
      BY <1>1, <1>2, <2>1, <2>2, <3>1, <3>2, <3>3 DEF WalkInv
  <2>3. CASE prog[w] # "foreach"
    <3>1. leader[t[w]] = g[w]
      BY <1>3, <2>3 DEF CtxInv, Pointers
    <3>2. \A x \in seen[w] : Below(R, leader[x], g[w]) \/ (leader[x] = g[w] /\ Below(R, x, t[w]))
      BY <1>3, <2>1, <2>3 DEF CtxInv, WalkInv
    <3>3. \A z \in must[w] \ seen[w] :
            \/ Below(R, g[w], leader[z])
            \/ leader[z] = g[w] /\ (Below(R, t[w], z) \/ z = t[w])
      BY <1>3, <2>1, <2>3 DEF CtxInv, WalkInv
    <3> QED
      BY <1>1, <1>3, <2>1, <2>3, <3>1, <3>2, <3>3 DEF WalkInv
  <2> QED
    BY <2>2, <2>3
<1> QED
  BY <1>4, <1>5, <1>6 DEF CtxInv

\* A walk stays at its task.
LEMMA StayCtx ==
    ASSUME IInv, NEW R, ListInv(R), NEW w \in Ctx, CtxInv(R, w), CtxStep(w), Place(w)',
           prog[w] \in Listers, At(w) \in Task,
           pc[w] \notin AtRest, pc'[w] \in Locked \cup {"step"}, Passed(w)' <=> Passed(w),
           pc[w] = "group" => prog[w] = "foreach",
           prog'[w] = prog[w], g'[w] = g[w], t'[w] = t[w], seen'[w] = seen[w], must'[w] = must[w]
    PROVE  CtxInv(R, w)'
<1>1. TypeOK /\ UNCHANGED leader /\ seen[w] \in SUBSET Task
  BY CtxTypes DEF IInv, CtxStep
<1>2. /\ pc'[w] \notin AtRest /\ pc'[w] # "group" /\ prog[w] \notin Detailers
      /\ prog[w] = "foreach" => At(w) = g[w]
      /\ prog[w] # "foreach" => prog[w] = "showthreads" /\ At(w) = t[w]
  BY DEF AtRest, Locked, Listers, Detailers, At
<1>3. prog[w] = "showthreads" => g[w] \in Task
  BY DEF CtxInv, Pointers, Place, ThreadWalkers, AtRest, Locked
<1>4. Pointers(w)'
  BY <1>1, <1>2, <1>3 DEF CtxInv, Pointers, ThreadWalkers
<1>5. Safe(w)'
  <2>1. /\ g'[w] \in Task => Kept(w, g'[w])
        /\ t'[w] \in Task => Kept(w, t'[w])
        /\ \A x \in seen'[w] : x \in Task /\ Kept(w, x)
    BY <1>1 DEF CtxInv, Safe
  <2> QED
    BY <1>2, <2>1, SafeAfter
<1>6. WalkInv(R, w)'
  BY <1>1, <1>2 DEF CtxInv, WalkInv, ThreadWalkers
<1> QED
  BY <1>4, <1>5, <1>6 DEF CtxInv

LEMMA ListerLocks ==
    ASSUME IInv, NEW w \in Walker,
           \/ prog[w] = "foreach" /\ task_lock(w, "group", "body")
           \/ prog[w] = "showthreads" /\ task_lock(w, "thread", "body")
    PROVE  IInv'
<1>1. PICK R \in SUBSET (Task \X Task) : ListInv(R) /\ \A v \in Ctx : CtxInv(R, v)
  BY DEF IInv
<1>2. w \in Ctx /\ w # Softirq /\ TypeOK /\ CtxInv(R, w)
  BY <1>1, ConstantsAssumption DEF Ctx, IInv
<1>3. /\ Move(w, "body", prog[w], g[w], t[w], seen[w], must[w])
      /\ prog[w] \in Listers /\ pc[w] \in {"group", "thread"} /\ (pc[w] = "group" <=> prog[w] = "foreach")
      /\ At(w) \in Task /\ UNCHANGED <<kbuf, usage, timer>>
      /\ alloc_lock[At(w)] = Nil /\ alloc_lock' = [alloc_lock EXCEPT ![At(w)] = w]
  BY <1>2, Same DEF task_lock, Go, Move, Listers
<1>4. /\ CtxStep(w)
      /\ pc'[w] = "body" /\ prog'[w] = prog[w] /\ g'[w] = g[w] /\ t'[w] = t[w]
      /\ seen'[w] = seen[w] /\ must'[w] = must[w]
  BY <1>2, <1>3, MoveIs
<1>5. CtxInv(R, w)'
  <2>1. Place(w)'
    BY <1>2, <1>3, <1>4 DEF CtxInv, Place, CtxStep, Locked, Listers
  <2>2. ~Passed(w) /\ ~Passed(w)' /\ pc[w] \notin AtRest /\ pc'[w] \in Locked
    BY <1>3, <1>4 DEF Passed, AtRest, Locked
  <2> QED
    BY <1>1, <1>2, <1>3, <1>4, <2>1, <2>2, StayCtx
<1>6. ~HoldsLock(w) /\ HoldsLock(w)' /\ At(w)' = At(w) /\ ~Pins(w) /\ ~Pins(w)'
  BY <1>3, <1>4 DEF HoldsLock, At, Pins, Reading, Locked, Detailers, Listers
<1>7. LockInv' /\ UsageInv' /\ alloc_lock' \in [Task -> Walker \cup {Nil}]
  BY <1>3, <1>4, <1>6, LockStep
<1>8. usage' \in [Task -> Nat] /\ "body" \in PCs /\ kbuf' \ {w} = kbuf \ {w}
  BY <1>2, <1>3 DEF TypeOK, PCs
<1>9. /\ prog[w] \in Listers \cup Detailers \cup {"none", "ding"}
      /\ g[w] \in Task \cup {InitTask} /\ t[w] \in Task \cup {Nil}
      /\ seen[w] \in SUBSET Task /\ must[w] \in SUBSET Task
  BY <1>2, CtxTypes
<1> QED
  BY <1>1, <1>3, <1>5, <1>7, <1>8, <1>9, WalkerIInv

\* Only the holder of a task's lock has a reference of its own to it.
LEMMA PinnedOnce ==
    ASSUME IInv, NEW R, \A v \in Ctx : CtxInv(R, v)
    PROVE  /\ \A v \in Walker : Pins(v) => HoldsLock(v)
           /\ \A v, w \in Walker : HoldsLock(v) /\ HoldsLock(w) /\ At(v) = At(w) /\ At(v) \in Task => v = w
<1>1. \A v \in Walker : Pins(v) => HoldsLock(v)
  BY ConstantsAssumption DEF CtxInv, Place, Pins, HoldsLock, Locked, Reading, Listers, Ctx, IInv, TypeOK, Builds, Detailers
<1>2. \A v, w \in Walker : HoldsLock(v) /\ HoldsLock(w) /\ At(v) = At(w) /\ At(v) \in Task => v = w
  BY DEF IInv, LockInv
<1> QED
  BY <1>1, <1>2

LEMMA GetStep ==
    ASSUME IInv, NEW w \in Walker,
           \/ prog[w] = "foreach" /\ GetAndPrint(w, "resched")
           \/ prog[w] = "showthreads" /\ GetAndPrint(w, "put")
    PROVE  IInv'
<1>1. PICK R \in SUBSET (Task \X Task) : ListInv(R) /\ \A v \in Ctx : CtxInv(R, v)
  BY DEF IInv
<1>2. w \in Ctx /\ w # Softirq /\ TypeOK /\ CtxInv(R, w)
  BY <1>1, ConstantsAssumption DEF Ctx, IInv
<1> DEFINE a == At(w)
<1>3. PICK to \in {"resched", "put"} :
        /\ Move(w, to, prog[w], g[w], t[w], seen[w] \cup {a}, must[w])
        /\ prog[w] \in Listers /\ pc[w] = "body" /\ (to = "resched" <=> prog[w] = "foreach")
        /\ UNCHANGED <<kbuf, alloc_lock, timer>>
        /\ usage' = [usage EXCEPT ![a] = @ + 1]
  BY <1>2, Same DEF GetAndPrint, Go, Move, Listers
<1>4. /\ CtxStep(w)
      /\ pc'[w] = to /\ prog'[w] = prog[w] /\ g'[w] = g[w] /\ t'[w] = t[w]
      /\ seen'[w] = seen[w] \cup {a} /\ must'[w] = must[w]
  BY <1>2, <1>3, MoveIs
<1>5. a \in Task
  BY <1>2, <1>3 DEF CtxInv, Pointers, At, Listers, Locked, ThreadWalkers
<1>6. CtxInv(R, w)'
  <2>1. Place(w)'
    BY <1>2, <1>3, <1>4 DEF CtxInv, Place, CtxStep, Locked, Listers
  <2> QED
    BY <1>1, <1>2, <1>3, <1>4, <1>5, <2>1, VisitCtx
<1>7. HoldsLock(w) /\ HoldsLock(w)' /\ At(w)' = a /\ ~Pins(w) /\ Pins(w)'
  BY <1>3, <1>4 DEF HoldsLock, At, Pins, Locked
<1>8. \A v \in Walker \ {w} : (HoldsLock(v)' <=> HoldsLock(v)) /\ At(v)' = At(v) /\ (Pins(v)' <=> Pins(v))
  BY <1>4 DEF CtxStep, HoldsLock, At, Pins, Ctx
<1>9. LockInv'
  BY <1>3, <1>7, <1>8 DEF IInv, LockInv
<1>10. UsageInv' /\ usage' \in [Task -> Nat]
  <2>1. UNCHANGED life /\ usage \in [Task -> Nat]
    BY <1>2, <1>4 DEF CtxStep, TypeOK
  <2>2. \A v \in Walker : ~(Pins(v) /\ At(v) = a)
    BY <1>1, <1>5, <1>7, PinnedOnce
  <2>3. usage'[a] = usage[a] + 1 /\ \A x \in Task \ {a} : usage'[x] = usage[x]
    BY <1>3, <1>5, <2>1
  <2>4. \A x \in Task \ {a} : (\E v \in Walker : Pins(v)' /\ At(v)' = x) <=> (\E v \in Walker : Pins(v) /\ At(v) = x)
    BY <1>7, <1>8
  <2>5. \E v \in Walker : Pins(v)' /\ At(v)' = a
    BY <1>7
  <2>6. usage[a] = IF life[a] = "free" THEN 0 ELSE 1
    BY <1>5, <2>2 DEF IInv, UsageInv
  <2>7. UsageInv'
    BY <1>5, <2>1, <2>3, <2>4, <2>5, <2>6 DEF IInv, UsageInv
  <2> QED
    BY <1>3, <1>5, <2>1, <2>7
<1>11. /\ to \in PCs /\ to # "mm" /\ kbuf' \ {w} = kbuf \ {w}
       /\ alloc_lock' \in [Task -> Walker \cup {Nil}]
  BY <1>2, <1>3 DEF TypeOK, PCs
<1>12. /\ prog[w] \in Listers \cup Detailers \cup {"none", "ding"}
       /\ g[w] \in Task \cup {InitTask} /\ t[w] \in Task \cup {Nil}
       /\ seen[w] \cup {a} \in SUBSET Task /\ must[w] \in SUBSET Task
  BY <1>2, <1>5, CtxTypes
<1> HIDE DEF a
<1> QED
  BY <1>1, <1>3, <1>6, <1>9, <1>10, <1>11, <1>12, WalkerIInv

LEMMA DingTestStep ==
    ASSUME IInv, DingTest PROVE IInv'
<1>1. PICK R \in SUBSET (Task \X Task) : ListInv(R) /\ \A v \in Ctx : CtxInv(R, v)
  BY DEF IInv
<1>2. Softirq \in Ctx /\ Softirq \notin Walker /\ TypeOK /\ CtxInv(R, Softirq)
  BY <1>1, ConstantsAssumption DEF Ctx, IInv
<1>3. prog[Softirq] = "ding" /\ Softirq \notin kbuf
  BY <1>2 DEF CtxInv, Place
<1>4. /\ g[Softirq] \in Task \cup {InitTask} /\ t[Softirq] \in Task
      /\ seen[Softirq] \in SUBSET Task /\ must[Softirq] \in SUBSET Task
  BY <1>2, CtxTypes DEF DingTest
<1>5. /\ Move(Softirq, "step", prog[Softirq], g[Softirq], t[Softirq], seen[Softirq] \cup {t[Softirq]}, must[Softirq])
      /\ pc[Softirq] = "thread" /\ UNCHANGED <<kbuf, usage, alloc_lock, pending, vmod>>
  BY <1>2, Same DEF DingTest, Go, Move, kernel, timer
<1>6. /\ CtxStep(Softirq)
      /\ pc'[Softirq] = "step" /\ prog'[Softirq] = "ding" /\ g'[Softirq] = g[Softirq] /\ t'[Softirq] = t[Softirq]
      /\ seen'[Softirq] = seen[Softirq] \cup {t[Softirq]} /\ must'[Softirq] = must[Softirq]
  BY <1>2, <1>3, <1>5, MoveIs
<1>7. CtxInv(R, Softirq)'
  <2>1. Place(Softirq)' /\ At(Softirq) = t[Softirq]
    BY <1>3, <1>5, <1>6 DEF Place, At
  <2> QED
    BY <1>1, <1>2, <1>3, <1>4, <1>5, <1>6, <2>1, VisitCtx
<1>8. vmod # "out" /\ pending' \in BOOLEAN
  BY <1>2, <1>5 DEF IInv, TimerInModule, TypeOK
<1>9. /\ "step" \in PCs /\ seen[Softirq] \cup {t[Softirq]} \in SUBSET Task
      /\ t[Softirq] \in Task \cup {Nil} /\ must[Softirq] \subseteq must[Softirq]
  BY <1>4 DEF PCs
<1>10. Move(Softirq, "step", "ding", g[Softirq], t[Softirq], seen[Softirq] \cup {t[Softirq]}, must[Softirq])
  BY <1>3, <1>5
<1> QED
  BY <1>1, <1>4, <1>5, <1>7, <1>8, <1>9, <1>10, DingIInv

\* cond_resched does not end the section of a walk on a kernel that counts
\* spinlocks, and taskinfo_read runs on no other.
LEMMA CondReschedStep ==
    ASSUME IInv, NEW w \in Walker, prog[w] = "foreach", CondResched(w) PROVE IInv'
<1>1. PICK R \in SUBSET (Task \X Task) : ListInv(R) /\ \A v \in Ctx : CtxInv(R, v)
  BY DEF IInv
<1>2. w \in Ctx /\ w # Softirq /\ TypeOK /\ CtxInv(R, w)
  BY <1>1, ConstantsAssumption DEF Ctx, IInv
<1>3. build = "preempt"
  BY <1>2, Sections DEF CtxInv
<1>4. gp' = gp /\ pc[w] = "resched" /\ pc' = [pc EXCEPT ![w] = "put"] /\ UNCHANGED <<build, prog>>
  <2>1. \E switched \in {{}, {}} : gp' = [x \in Task |-> gp[x] \ switched]
    BY <1>3 DEF CondResched
  <2>2. gp' = [x \in Task |-> gp[x]] /\ gp = [x \in Task |-> gp[x]]
    BY <1>2, <2>1 DEF TypeOK
  <2> QED
    BY <2>2 DEF CondResched, Go
<1>5. GracePeriods
  <2>1. \A v \in Ctx : InSection(v)' <=> InSection(v)
    <3> SUFFICES ASSUME NEW v \in Ctx PROVE InSection(v)' <=> InSection(v)
      OBVIOUS
    <3>1. CASE v = w
      BY <1>2, <1>3, <1>4, <3>1 DEF InSection, TypeOK, Listers
    <3>2. CASE v # w
      BY <1>2, <1>4, <3>2 DEF InSection, TypeOK
    <3> QED
      BY <3>1, <3>2
  <2>2. Readers' = Readers
    BY <2>1 DEF Readers
  <2>3. \A x \in Task : gp[x] \cap Readers = gp[x]
    BY <1>1 DEF ListInv, LifeInv
  <2>4. gp = [x \in Task |-> gp[x] \cap Readers']
    BY <1>2, <2>2, <2>3 DEF TypeOK
  <2> QED
    BY <1>4, <2>4 DEF GracePeriods
<1>6. /\ Move(w, "put", prog[w], g[w], t[w], seen[w], must[w])
      /\ UNCHANGED <<kbuf, usage, alloc_lock, timer>>
  BY <1>2, <1>4, <1>5, Same DEF CondResched, Move, kernel
<1>7. /\ CtxStep(w)
      /\ pc'[w] = "put" /\ prog'[w] = prog[w] /\ g'[w] = g[w] /\ t'[w] = t[w]
      /\ seen'[w] = seen[w] /\ must'[w] = must[w]
  BY <1>2, <1>6, MoveIs
<1>8. CtxInv(R, w)'
  <2>1. Place(w)'
    BY <1>2, <1>4, <1>6, <1>7 DEF CtxInv, Place, Locked
  <2>2. Passed(w) /\ Passed(w)' /\ pc[w] \notin AtRest /\ pc'[w] \in Locked /\ At(w) \in Task /\ prog[w] \in Listers
    BY <1>2, <1>4, <1>7 DEF Passed, AtRest, Locked, CtxInv, Pointers, At, Listers
  <2> QED
    BY <1>1, <1>2, <1>4, <1>7, <2>1, <2>2, StayCtx
<1>9. HoldsLock(w) /\ HoldsLock(w)' /\ At(w)' = At(w) /\ Pins(w) /\ Pins(w)'
  BY <1>4, <1>7 DEF HoldsLock, At, Pins, Locked, Listers
<1>10. LockInv' /\ UsageInv'
  BY <1>2, <1>6, <1>7, <1>9, NoLockStep
<1>11. /\ usage' \in [Task -> Nat] /\ "put" \in PCs /\ kbuf' \ {w} = kbuf \ {w}
       /\ alloc_lock' \in [Task -> Walker \cup {Nil}]
  BY <1>2, <1>6 DEF TypeOK, PCs
<1>12. /\ prog[w] \in Listers \cup Detailers \cup {"none", "ding"}
       /\ g[w] \in Task \cup {InitTask} /\ t[w] \in Task \cup {Nil}
       /\ seen[w] \in SUBSET Task /\ must[w] \in SUBSET Task
  BY <1>2, CtxTypes
<1> QED
  BY <1>1, <1>6, <1>8, <1>10, <1>11, <1>12, WalkerIInv

\* The reference that is given back is never the last one: the task is kept.
LEMMA PutStep ==
    ASSUME IInv, NEW w \in Walker, prog[w] \in Listers, PutTask(w) PROVE IInv'
<1>1. PICK R \in SUBSET (Task \X Task) : ListInv(R) /\ \A v \in Ctx : CtxInv(R, v)
  BY DEF IInv
<1>2. w \in Ctx /\ w # Softirq /\ TypeOK /\ CtxInv(R, w)
  BY <1>1, ConstantsAssumption DEF Ctx, IInv
<1> DEFINE a == At(w)
<1>3. pc[w] = "put" /\ pc' = [pc EXCEPT ![w] = "unlock"]
  BY DEF PutTask, Go
<1>4. a \in Task /\ Kept(w, a)
  BY <1>2, <1>3 DEF CtxInv, Pointers, Safe, At, Listers, Locked, ThreadWalkers
<1>5. HoldsLock(w) /\ Pins(w)
  BY <1>3 DEF HoldsLock, Pins, Locked
<1>6. usage[a] = 2
  <2>1. life[a] # "free"
    BY <1>1, <1>4 DEF Kept, Linked, ListInv, LifeInv
  <2> QED
    BY <1>4, <1>5, <2>1 DEF IInv, UsageInv
<1>7. UNCHANGED <<life, leader, next, first, tnext>> /\ usage' = [usage EXCEPT ![a] = @ - 1]
  <2>1. life' = [life EXCEPT ![a] = life[a]] /\ UNCHANGED <<leader, next, first, tnext>>
    BY <1>6 DEF PutTask, put_task_struct
  <2>2. life' = life
    BY <1>2, <1>4, <2>1 DEF TypeOK
  <2> QED
    BY <2>1, <2>2 DEF PutTask, put_task_struct
<1>8. /\ Move(w, "unlock", prog[w], g[w], t[w], seen[w], must[w])
      /\ UNCHANGED <<kbuf, alloc_lock, timer>>
  BY <1>2, <1>3, <1>7, Same DEF PutTask, Move
<1>9. /\ CtxStep(w)
      /\ pc'[w] = "unlock" /\ prog'[w] = prog[w] /\ g'[w] = g[w] /\ t'[w] = t[w]
      /\ seen'[w] = seen[w] /\ must'[w] = must[w]
  BY <1>2, <1>8, MoveIs
<1>10. CtxInv(R, w)'
  <2>1. Place(w)'
    BY <1>2, <1>3, <1>8, <1>9 DEF CtxInv, Place, Locked, CtxStep, Listers
  <2>2. Passed(w) /\ Passed(w)' /\ pc[w] \notin AtRest /\ pc'[w] \in Locked
    BY <1>3, <1>9 DEF Passed, AtRest, Locked
  <2> QED
    BY <1>1, <1>2, <1>3, <1>4, <1>9, <2>1, <2>2, StayCtx
<1>11. HoldsLock(w)' /\ At(w)' = a /\ ~Pins(w)'
  BY <1>9 DEF HoldsLock, At, Pins, Locked
<1>12. \A v \in Walker \ {w} : (HoldsLock(v)' <=> HoldsLock(v)) /\ At(v)' = At(v) /\ (Pins(v)' <=> Pins(v))
  BY <1>9 DEF CtxStep, HoldsLock, At, Pins, Ctx
<1>13. LockInv'
  BY <1>5, <1>8, <1>11, <1>12 DEF IInv, LockInv
<1>14. UsageInv' /\ usage' \in [Task -> Nat]
  <2>1. usage \in [Task -> Nat]
    BY <1>2 DEF TypeOK
  <2>2. \A v \in Walker \ {w} : ~(Pins(v) /\ At(v) = a)
    BY <1>1, <1>4, <1>5, PinnedOnce
  <2>3. usage'[a] = 1 /\ \A x \in Task \ {a} : usage'[x] = usage[x]
    BY <1>4, <1>6, <1>7, <2>1
  <2>4. \A x \in Task \ {a} : (\E v \in Walker : Pins(v)' /\ At(v)' = x) <=> (\E v \in Walker : Pins(v) /\ At(v) = x)
    BY <1>11, <1>12
  <2>5. ~ \E v \in Walker : Pins(v)' /\ At(v)' = a
    BY <1>11, <1>12, <2>2
  <2>6. life[a] # "free"
    BY <1>1, <1>4 DEF Kept, Linked, ListInv, LifeInv
  <2>7. UsageInv'
    BY <1>4, <1>7, <2>3, <2>4, <2>5, <2>6 DEF IInv, UsageInv
  <2> QED
    BY <1>4, <1>6, <1>7, <2>1, <2>7
<1>15. "unlock" \in PCs /\ kbuf' \ {w} = kbuf \ {w} /\ alloc_lock' \in [Task -> Walker \cup {Nil}]
  BY <1>2, <1>8 DEF TypeOK, PCs
<1>16. /\ prog[w] \in Listers \cup Detailers \cup {"none", "ding"}
       /\ g[w] \in Task \cup {InitTask} /\ t[w] \in Task \cup {Nil}
       /\ seen[w] \in SUBSET Task /\ must[w] \in SUBSET Task
  BY <1>2, CtxTypes
<1> HIDE DEF a
<1> QED
  BY <1>1, <1>8, <1>10, <1>13, <1>14, <1>15, <1>16, WalkerIInv

LEMMA ListerUnlocks ==
    ASSUME IInv, NEW w \in Walker, prog[w] \in Listers, TaskUnlock(w) PROVE IInv'
<1>1. PICK R \in SUBSET (Task \X Task) : ListInv(R) /\ \A v \in Ctx : CtxInv(R, v)
  BY DEF IInv
<1>2. w \in Ctx /\ w # Softirq /\ TypeOK /\ CtxInv(R, w)
  BY <1>1, ConstantsAssumption DEF Ctx, IInv
<1>3. /\ Move(w, "step", prog[w], g[w], t[w], seen[w], must[w])
      /\ pc[w] = "unlock" /\ UNCHANGED <<kbuf, usage, timer>>
      /\ alloc_lock' = [alloc_lock EXCEPT ![At(w)] = Nil]
  BY <1>2, Same DEF TaskUnlock, Go, Move
<1>4. /\ CtxStep(w)
      /\ pc'[w] = "step" /\ prog'[w] = prog[w] /\ g'[w] = g[w] /\ t'[w] = t[w]
      /\ seen'[w] = seen[w] /\ must'[w] = must[w]
  BY <1>2, <1>3, MoveIs
<1>5. At(w) \in Task
  BY <1>2, <1>3 DEF CtxInv, Pointers, At, Listers, Locked, ThreadWalkers
<1>6. CtxInv(R, w)'
  <2>1. Place(w)'
    BY <1>2, <1>3, <1>4 DEF CtxInv, Place, Locked, CtxStep, Listers
  <2>2. Passed(w) /\ Passed(w)' /\ pc[w] \notin AtRest
    BY <1>3, <1>4 DEF Passed, AtRest
  <2> QED
    BY <1>1, <1>2, <1>3, <1>4, <1>5, <2>1, <2>2, StayCtx
<1>7. HoldsLock(w) /\ ~HoldsLock(w)' /\ ~Pins(w) /\ ~Pins(w)'
  BY <1>3, <1>4 DEF HoldsLock, Pins, Locked, Reading
<1>8. LockInv' /\ UsageInv' /\ alloc_lock' \in [Task -> Walker \cup {Nil}]
  BY <1>3, <1>4, <1>5, <1>7, UnlockStep
<1>9. usage' \in [Task -> Nat] /\ "step" \in PCs /\ kbuf' \ {w} = kbuf \ {w}
  BY <1>2, <1>3 DEF TypeOK, PCs
<1>10. /\ prog[w] \in Listers \cup Detailers \cup {"none", "ding"}
       /\ g[w] \in Task \cup {InitTask} /\ t[w] \in Task \cup {Nil}
       /\ seen[w] \in SUBSET Task /\ must[w] \in SUBSET Task
  BY <1>2, CtxTypes
<1> QED
  BY <1>1, <1>3, <1>6, <1>8, <1>9, <1>10, WalkerIInv

-----------------------------------------------------------------------------
(* Steps that leave the lists and the contexts alone *)

LEMMA Untouched ==
    ASSUME NEW R, UNCHANGED <<build, life, leader, next, first, tnext, usage, alloc_lock, gp, walkers>>
    PROVE  /\ ListInv(R) => ListInv(R)'
           /\ \A w \in Ctx : CtxInv(R, w) => CtxInv(R, w)'
           /\ LockInv => LockInv'
           /\ UsageInv => UsageInv'
<1> USE DEF walkers
<1>1. \A w \in Ctx : InSection(w)' <=> InSection(w)
  BY DEF InSection
<1>2. Readers' = Readers
  BY <1>1 DEF Readers
<1>3. LifeInv => LifeInv'
  BY <1>2 DEF LifeInv, Linked
<1>4. LinkInv => LinkInv'
  BY DEF LinkInv, Linked, Listed
<1>5. RemovedInv => RemovedInv'
  BY DEF RemovedInv, Kept, Linked
<1>6. OrderInv(R) => OrderInv(R)'
  BY DEF OrderInv, UpTo, Linked
<1>7. NoGapInv(R) => NoGapInv(R)'
  BY DEF NoGapInv, UpTo, Linked, Listed
<1>8. ASSUME NEW w \in Ctx, CtxInv(R, w) PROVE CtxInv(R, w)'
  <2>1. Place(w)' /\ Pointers(w)'
    BY <1>8 DEF CtxInv, Place, Pointers
  <2>2. Safe(w)'
    BY <1>1, <1>8 DEF CtxInv, Safe, Kept, Linked
  <2>3. WalkInv(R, w)'
    BY <1>8 DEF CtxInv, WalkInv, Passed
  <2> QED
    BY <2>1, <2>2, <2>3 DEF CtxInv
<1>9. \A w \in Walker : (HoldsLock(w)' <=> HoldsLock(w)) /\ At(w)' = At(w) /\ (Pins(w)' <=> Pins(w))
  BY DEF HoldsLock, At, Pins
<1>10. (LockInv => LockInv') /\ (UsageInv => UsageInv')
  BY <1>9 DEF LockInv, UsageInv
<1> QED
  BY <1>3, <1>4, <1>5, <1>6, <1>7, <1>8, <1>10 DEF ListInv

LEMMA TimerSteps ==
    ASSUME IInv, timer_simple_init \/ Rmmod \/ timer_simple_exit \/ UNCHANGED vars PROVE IInv'
<1>1. PICK R \in SUBSET (Task \X Task) : ListInv(R) /\ \A v \in Ctx : CtxInv(R, v)
  BY DEF IInv
<1>2. UNCHANGED <<build, life, leader, next, first, tnext, usage, alloc_lock, mm, gp, walkers>>
  BY DEF timer_simple_init, Rmmod, timer_simple_exit, vars, kernel
<1>3. ListInv(R)' /\ (\A v \in Ctx : CtxInv(R, v)') /\ LockInv' /\ UsageInv'
  BY <1>1, <1>2, Untouched DEF IInv
<1>4. MmStays'
  BY <1>2 DEF IInv, MmStays, walkers
<1>5. TimerInModule' /\ pending' \in BOOLEAN /\ vmod' \in {"out", "in", "exiting"}
  <2> USE <1>2 DEF IInv, TypeOK, TimerInModule, timer, walkers
  <2>1. CASE timer_simple_init
    BY <2>1 DEF timer_simple_init
  <2>2. CASE Rmmod
    BY <2>2 DEF Rmmod
  <2>3. CASE timer_simple_exit
    BY <2>3 DEF timer_simple_exit
  <2>4. CASE UNCHANGED vars
    BY <2>4 DEF vars
  <2> QED
    BY <2>1, <2>2, <2>3, <2>4
<1>6. TypeOK'
  BY <1>2, <1>5 DEF IInv, TypeOK, walkers
<1> QED
  BY <1>1, <1>3, <1>4, <1>5, <1>6 DEF IInv

\* What a context has locked is kept for it.
LEMMA HeldKept ==
    ASSUME IInv, NEW R, NEW w \in Walker, CtxInv(R, w), HoldsLock(w)
    PROVE  At(w) \in Task /\ Kept(w, At(w))
  BY DEF HoldsLock, CtxInv, Pointers, Safe, At, Listers, Detailers, ThreadWalkers, Locked, Reading

LEMMA ExitMmStep ==
    ASSUME IInv, NEW x \in Task, ExitMm(x) PROVE IInv'
<1>1. PICK R \in SUBSET (Task \X Task) : ListInv(R) /\ \A v \in Ctx : CtxInv(R, v)
  BY DEF IInv
<1>2. /\ UNCHANGED <<build, life, leader, next, first, tnext, usage, alloc_lock, gp, walkers, timer>>
      /\ alloc_lock[x] = Nil /\ mm' = [mm EXCEPT ![x] = FALSE]
  BY DEF ExitMm
<1>3. ListInv(R)' /\ (\A v \in Ctx : CtxInv(R, v)') /\ LockInv' /\ UsageInv'
  BY <1>1, <1>2, Untouched DEF IInv
<1>4. TypeOK
  BY DEF IInv
<1>5. MmStays'
  <2> SUFFICES ASSUME NEW w \in Walker, pc[w] = "mm" PROVE mm'[t[w]]
    BY <1>2 DEF MmStays, walkers
  <2>1. w \in Ctx /\ CtxInv(R, w)
    BY <1>1 DEF Ctx
  <2>2. prog[w] \in Detailers /\ HoldsLock(w) /\ At(w) = t[w]
    <3>1. prog[w] \in Listers \cup Detailers \cup {"none", "ding"}
      BY <1>4, <2>1, CtxTypes
    <3> QED
      BY <2>1, <3>1 DEF CtxInv, Place, HoldsLock, At, Detailers, Reading, Locked, Listers
  <2>3. t[w] \in Task /\ alloc_lock[t[w]] = w
    BY <2>1, <2>2, HeldKept DEF IInv, LockInv
  <2>4. t[w] # x /\ mm[t[w]]
    BY <1>2, <2>3, ConstantsAssumption DEF IInv, MmStays
  <2> QED
    BY <1>2, <1>4, <2>3, <2>4 DEF TypeOK
<1>6. TimerInModule'
  BY <1>2 DEF IInv, TimerInModule, timer, walkers
<1>7. TypeOK'
  <2>1. mm' \in [Task -> BOOLEAN]
    BY <1>2, <1>4 DEF TypeOK
  <2> QED
    BY <1>2, <1>4, <2>1 DEF TypeOK, timer, walkers
<1> QED
  BY <1>1, <1>2, <1>3, <1>5, <1>6, <1>7 DEF IInv

-----------------------------------------------------------------------------
(* Tasks come and go *)

\* A task_struct that is free, or whose grace period is over, is of no concern
\* to any context, and neither is what becomes of it.
LEMMA KeptChain ==
    ASSUME TypeOK, NEW R, ListInv(R), NEW w \in Ctx, NEW y \in Task, Kept(w, y)
    PROVE  leader[y] \in Task /\ Kept(w, leader[y])
  BY DEF TypeOK, ListInv, LinkInv, RemovedInv, Kept

LEMMA CtxUnconcerned ==
    ASSUME IInv, NEW R, ListInv(R), NEW w \in Ctx, CtxInv(R, w), NEW x \in Task, ~Kept(w, x),
           UNCHANGED <<build, gp, walkers>>,
           \A y \in Task \ {x} : life'[y] = life[y] /\ leader'[y] = leader[y],
           NEW Q, \A y, z \in Task \ {x} : Below(Q, y, z) <=> Below(R, y, z)
    PROVE  CtxInv(Q, w)'
<1> USE DEF walkers
<1>1. TypeOK /\ seen[w] \in SUBSET Task /\ must[w] \in SUBSET Task
  BY CtxTypes DEF IInv
<1>2. \A y \in Task : Kept(w, y) => /\ y # x /\ leader[y] # x /\ leader[y] \in Task
                                    /\ Kept(w, y)' /\ leader'[y] = leader[y]
  BY <1>1, KeptChain DEF Kept, Linked
<1>3. /\ g[w] \in Task => Kept(w, g[w])
      /\ t[w] \in Task => Kept(w, t[w])
      /\ \A y \in seen[w] : y \in Task /\ Kept(w, y)
      /\ \A y \in must[w] : y \in Task /\ Linked(y) /\ Kept(w, y)
  BY <1>1 DEF CtxInv, Safe, Kept
<1>4. Place(w)' /\ (InSection(w)' <=> InSection(w))
  BY DEF CtxInv, Place, InSection
<1>5. Pointers(w)'
  BY <1>2, <1>3 DEF CtxInv, Pointers
<1>6. Safe(w)'
  <2>1. \A y \in must[w] : Linked(y)' /\ leader'[y] = leader[y]
    BY <1>2, <1>3 DEF Linked
  <2> QED
    BY <1>2, <1>3, <1>4, <2>1 DEF CtxInv, Safe
<1>7. WalkInv(Q, w)'
  <2>1. CASE prog[w] = "foreach"
    <3>1. prog[w] \notin ThreadWalkers
      BY <2>1 DEF ThreadWalkers
    <3> QED
      BY <1>2, <1>3, <2>1, <3>1 DEF CtxInv, WalkInv, Passed
  <2>2. CASE prog[w] # "foreach"
    BY <1>2, <1>3, <2>2 DEF CtxInv, WalkInv, Passed
  <2> QED
    BY <2>1, <2>2
<1> QED
  BY <1>4, <1>5, <1>6, <1>7 DEF CtxInv

\* The order after x has come: x is above all others.
OnTop(R, x) == {p \in R : p[1] # x /\ p[2] # x} \cup ((Task \ {x}) \X {x})

LEMMA NewOrder ==
    ASSUME NEW R \in SUBSET (Task \X Task), StrictOrder(R), NEW x \in Task
    PROVE  /\ OnTop(R, x) \in SUBSET (Task \X Task)
           /\ StrictOrder(OnTop(R, x))
           /\ \A y, z \in Task \ {x} : Below(OnTop(R, x), y, z) <=> Below(R, y, z)
           /\ \A y \in Task \ {x} : Below(OnTop(R, x), y, x)
           /\ \A y \in Task : ~Below(OnTop(R, x), x, y)
<1>1. OnTop(R, x) \in SUBSET (Task \X Task)
  BY DEF OnTop
<1>2. \A y, z \in Task \ {x} : Below(OnTop(R, x), y, z) <=> Below(R, y, z)
  BY DEF OnTop, Below
<1>3. \A y \in Task \ {x} : Below(OnTop(R, x), y, x)
  BY DEF OnTop, Below
<1>4. \A y \in Task : ~Below(OnTop(R, x), x, y)
  BY DEF OnTop, Below
<1>5. StrictOrder(OnTop(R, x))
  BY <1>2, <1>3, <1>4 DEF StrictOrder
<1> QED
  BY <1>1, <1>2, <1>3, <1>4, <1>5

\* Both kinds of fork, x a process if l is x and a thread of l otherwise.
Forked(x, l) ==
    /\ life[x] = "free" /\ (l = x \/ (Linked(l) /\ leader[l] = l))
    /\ life' = [life EXCEPT ![x] = "linked"] /\ leader' = [leader EXCEPT ![x] = l]
    /\ \A y \in Task \cup {InitTask} : next'[y] =
          IF l = x /\ y # x /\ Listed(y) /\ next[y] = InitTask THEN x
          ELSE IF y = x THEN InitTask ELSE next[y]
    /\ \A y \in Task : first'[y] =
          IF y = x THEN (IF l = x THEN x ELSE Nil) ELSE first[y]
    /\ \A y \in Task : tnext'[y] =
          IF y # x /\ Linked(y) /\ leader[y] = l /\ tnext[y] = Nil THEN x
          ELSE IF y = x THEN Nil ELSE tnext[y]
    /\ UNCHANGED <<build, gp, walkers>>

LEMMA ForkLists ==
    ASSUME IInv, NEW R \in SUBSET (Task \X Task), ListInv(R), \A w \in Ctx : CtxInv(R, w),
           NEW x \in Task, NEW l \in Task, Forked(x, l)
    PROVE  ListInv(OnTop(R, x))'
<1> USE DEF ListInv
<1> DEFINE Q == OnTop(R, x)
<1>0. /\ StrictOrder(Q)
      /\ \A y, z \in Task \ {x} : Below(Q, y, z) <=> Below(R, y, z)
      /\ \A y \in Task \ {x} : Below(Q, y, x)
      /\ \A y \in Task : ~Below(Q, x, y)
  BY NewOrder DEF OrderInv
<1> HIDE DEF Q
<1>1. /\ TypeOK /\ InitTask \notin Task /\ Nil \notin Task
      /\ ~Linked(x) /\ gp[x] = {} /\ leader[x] = x /\ next[x] = InitTask
  BY ConstantsAssumption DEF IInv, Forked, LifeInv, Linked
<1>2. /\ \A y \in Task \ {x} : life'[y] = life[y] /\ leader'[y] = leader[y] /\ (Linked(y)' <=> Linked(y))
      /\ life'[x] = "linked" /\ leader'[x] = l /\ Linked(x)'
      /\ UNCHANGED <<gp, must>>
  BY <1>1 DEF Forked, TypeOK, Linked, walkers
<1>3. \A y \in Task : Linked(y) => leader[y] # x /\ next[y] # x /\ tnext[y] # x
  BY <1>1 DEF LinkInv, Listed, TypeOK
<1>4. \A y \in Task : \A w \in gp[y] :
        /\ y # x /\ ~Linked(y) /\ w \in Ctx /\ leader[y] # x /\ next[y] # x /\ tnext[y] # x
        /\ leader[y] \in Task
  BY <1>1 DEF RemovedInv, LifeInv, Kept, TypeOK, Linked
<1>5. Listed(InitTask) /\ next[InitTask] # x
  BY <1>1 DEF LinkInv, Listed
<1>6. Readers' = Readers
  <2>1. \A w \in Ctx : InSection(w)' <=> InSection(w)
    BY DEF Forked, walkers, InSection
  <2> QED
    BY <2>1 DEF Readers
<1>7. LifeInv'
  <2> SUFFICES ASSUME NEW y \in Task
               PROVE  /\ life'[y] \in {"free", "linked", "removed"}
                      /\ gp[y] \subseteq Readers
                      /\ gp[y] # {} => life'[y] = "removed"
                      /\ life'[y] = "free" => leader'[y] = y /\ next'[y] = InitTask /\ tnext'[y] = Nil
                      /\ first'[y] = IF life'[y] = "linked" /\ leader'[y] = y THEN y ELSE Nil
                      /\ leader'[y] # y => next'[y] = InitTask
    BY <1>2, <1>6 DEF LifeInv, Linked
  <2>1. CASE y = x
    BY <1>1, <1>2, <2>1 DEF Forked, LifeInv
  <2>2. CASE y # x
    <3>1. /\ life'[y] = life[y] /\ leader'[y] = leader[y] /\ first'[y] = first[y]
          /\ life[y] = "free" \/ leader[y] # y => next'[y] = next[y]
          /\ life[y] = "free" => tnext'[y] = tnext[y]
      BY <1>1, <1>2, <2>2 DEF Forked, Listed, Linked
    <3> QED
      BY <3>1 DEF LifeInv, Linked
  <2> QED
    BY <2>1, <2>2
<1>8. \A y \in Task : Linked(y) => life'[y] = "linked" /\ leader'[y] = leader[y]
  BY <1>1, <1>2 DEF Linked
<1>9. l = x => life'[x] = "linked" /\ leader'[x] = x
  BY <1>2
<1>10. LinkInv'
  <2>1. next'[InitTask] \in Task => life'[next'[InitTask]] = "linked" /\ leader'[next'[InitTask]] = next'[InitTask]
    BY <1>1, <1>5, <1>8, <1>9 DEF LinkInv, Forked, Listed
  <2>2. ASSUME NEW y \in Task, life'[y] = "linked"
        PROVE  /\ life'[leader'[y]] = "linked" /\ leader'[leader'[y]] = leader'[y]
               /\ next'[y] \in Task => life'[next'[y]] = "linked" /\ leader'[next'[y]] = next'[y]
               /\ tnext'[y] \in Task => life'[tnext'[y]] = "linked" /\ leader'[tnext'[y]] = leader'[y]
    <3>1. CASE y = x
      <4>1. next'[y] = InitTask /\ tnext'[y] = Nil /\ leader'[y] = l
        BY <1>1, <1>2, <3>1 DEF Forked
      <4>2. life'[l] = "linked" /\ leader'[l] = l
        BY <1>2, <1>8, <1>9 DEF Forked
      <4> QED
        BY <1>1, <4>1, <4>2
    <3>2. CASE y # x
      <4>1. Linked(y) /\ leader'[y] = leader[y] /\ leader[y] # x /\ leader[y] \in Task
        BY <1>1, <1>2, <1>3, <2>2, <3>2 DEF TypeOK, Linked
      <4>2. life'[leader'[y]] = "linked" /\ leader'[leader'[y]] = leader'[y]
        BY <1>8, <4>1 DEF LinkInv
      <4>3. next'[y] \in Task => life'[next'[y]] = "linked" /\ leader'[next'[y]] = next'[y]
        BY <1>1, <1>8, <1>9, <3>2, <4>1 DEF LinkInv, Forked, Listed
      <4>4. tnext'[y] \in Task => life'[tnext'[y]] = "linked" /\ leader'[tnext'[y]] = leader'[y]
        BY <1>1, <1>2, <1>8, <3>2, <4>1 DEF LinkInv, Forked
      <4> QED
        BY <4>2, <4>3, <4>4
    <3> QED
      BY <3>1, <3>2
  <2> QED
    BY <2>1, <2>2 DEF LinkInv, Listed, Linked
<1>11. ASSUME NEW y \in Task, NEW w \in gp[y]
       PROVE  next'[y] = next[y] /\ tnext'[y] = tnext[y] /\ leader'[y] = leader[y] /\ y # x
  BY <1>1, <1>2, <1>4 DEF Forked, Listed
<1>12. RemovedInv'
  <2> SUFFICES ASSUME NEW y \in Task, NEW w \in gp[y]
               PROVE  /\ Kept(w, leader[y])' /\ leader'[leader[y]] = leader[y]
                      /\ next[y] \in Task => Kept(w, next[y])' /\ leader'[next[y]] = next[y]
                      /\ tnext[y] \in Task => Kept(w, tnext[y])' /\ leader'[tnext[y]] = leader[y]
    BY <1>2, <1>11 DEF RemovedInv, Kept, Linked
  <2>1. \A z \in Task \ {x} : Kept(w, z) => Kept(w, z)'
    BY <1>2 DEF Kept, Linked
  <2> QED
    BY <1>2, <1>4, <1>11, <2>1 DEF RemovedInv
<1>13. OrderInv(Q)'
  <2> SUFFICES ASSUME NEW y \in Task
               PROVE  /\ next'[y] \in Task => Below(Q, y, next'[y])
                      /\ tnext'[y] \in Task => Below(Q, y, tnext'[y])
                      /\ Linked(y)' => UpTo(Q, leader'[y], y)
    BY <1>0 DEF OrderInv, StrictOrder, UpTo
  <2>1. next'[y] \in Task => Below(Q, y, next'[y])
    BY <1>0, <1>1 DEF OrderInv, Forked
  <2>2. tnext'[y] \in Task => Below(Q, y, tnext'[y])
    BY <1>0, <1>1 DEF OrderInv, Forked
  <2>3. Linked(y)' => UpTo(Q, leader'[y], y)
    BY <1>0, <1>1, <1>2, <1>3 DEF OrderInv, UpTo
  <2> QED
    BY <2>1, <2>2, <2>3
<1>14. NoGapInv(Q)'
  <2>1. ASSUME NEW z \in Task, Listed(z)' PROVE UpTo(Q, next'[InitTask], z)
    <3>1. CASE z = x
      <4>1. l = x
        BY <1>1, <1>2, <2>1, <3>1 DEF Listed
      <4> QED
        BY <1>0, <1>1, <1>5, <3>1, <4>1 DEF Forked, UpTo, TypeOK
    <3>2. CASE z # x
      <4>1. Listed(z)
        BY <1>1, <1>2, <2>1, <3>2 DEF Listed
      <4>2. UpTo(R, next[InitTask], z)
        BY <4>1 DEF NoGapInv
      <4> QED
        BY <1>0, <1>1, <1>5, <3>2, <4>2 DEF UpTo, Forked
    <3> QED
      BY <3>1, <3>2
  <2>2. ASSUME NEW y \in Task, NEW z \in Task, Linked(y)', Linked(z)', Below(Q, y, z)
        PROVE  /\ leader'[y] = y /\ leader'[z] = z => UpTo(Q, next'[y], z)
               /\ leader'[y] = leader'[z] => UpTo(Q, tnext'[y], z)
    <3>1. y # x /\ Linked(y) /\ leader'[y] = leader[y]
      BY <1>0, <1>2, <2>2
    <3>2. CASE z = x
      <4>1. leader[y] = y /\ l = x => UpTo(Q, next'[y], z)
        BY <1>0, <1>1, <1>3, <3>1, <3>2 DEF Forked, UpTo, Listed, TypeOK
      <4>2. leader[y] = l => UpTo(Q, tnext'[y], z)
        BY <1>0, <1>1, <1>3, <3>1, <3>2 DEF Forked, UpTo, TypeOK
      <4> QED
        BY <1>2, <3>1, <3>2, <4>1, <4>2
    <3>3. CASE z # x
      <4>1. Linked(z) /\ leader'[z] = leader[z] /\ Below(R, y, z)
        BY <1>0, <1>2, <2>2, <3>1, <3>3
      <4>2. /\ leader[y] = y /\ leader[z] = z => UpTo(R, next[y], z)
            /\ leader[y] = leader[z] => UpTo(R, tnext[y], z)
        BY <3>1, <4>1 DEF NoGapInv
      <4>3. leader[y] = y /\ leader[z] = z => UpTo(Q, next'[y], z)
        BY <1>0, <1>1, <1>3, <3>1, <3>3, <4>2 DEF UpTo, Forked
      <4>4. leader[y] = leader[z] => UpTo(Q, tnext'[y], z)
        BY <1>0, <1>1, <1>3, <3>1, <3>3, <4>2 DEF UpTo, Forked
      <4> QED
        BY <3>1, <4>1, <4>3, <4>4
    <3> QED
      BY <3>2, <3>3
  <2>3. ASSUME NEW y \in Task, NEW w \in gp[y], NEW z \in must[w], Below(Q, y, z)
        PROVE  /\ leader'[y] = y /\ leader'[z] = z => UpTo(Q, next'[y], z)
               /\ leader'[y] = leader'[z] => UpTo(Q, tnext'[y], z)
    <3>1. w \in Ctx /\ y # x /\ next[y] # x /\ tnext[y] # x
      BY <1>4
    <3>2. z \in Task /\ Linked(z) /\ z # x
      BY <1>1, <3>1, CtxTypes DEF CtxInv, Safe
    <3>3. leader'[z] = leader[z] /\ Below(R, y, z)
      BY <1>0, <1>2, <2>3, <3>1, <3>2
    <3>4. /\ leader[y] = y /\ leader[z] = z => UpTo(R, next[y], z)
          /\ leader[y] = leader[z] => UpTo(R, tnext[y], z)
      BY <3>3 DEF NoGapInv
    <3> QED
      BY <1>0, <1>11, <3>1, <3>2, <3>3, <3>4 DEF UpTo
  <2> QED
    BY <1>2, <2>1, <2>2, <2>3 DEF NoGapInv, UpTo
<1> QED
  BY <1>7, <1>10, <1>12, <1>13, <1>14 DEF Q

LEMMA ForksAlike ==
    ASSUME IInv, NEW R, ListInv(R), NEW x \in Task, NEW l \in Task, NEW m,
           (l = x /\ ForkProcess(x, m)) \/ ForkThread(x, l)
    PROVE  Forked(x, l)
<1>1. TypeOK /\ LifeInv /\ InitTask \notin Task /\ Nil \notin Task
  BY ConstantsAssumption DEF IInv, ListInv
<1>2. CASE l = x /\ ForkProcess(x, m)
  BY <1>1, <1>2 DEF ForkProcess, NewTask, Forked, TypeOK
<1>3. CASE ForkThread(x, l)
  <2>1. /\ Linked(l) /\ leader[l] = l /\ life[x] = "free" /\ l # x /\ first[l] = l
        /\ next[x] = InitTask /\ UNCHANGED next
    BY <1>1, <1>3 DEF ForkThread, NewTask, Linked, LifeInv
  <2>2. first' = [first EXCEPT ![x] = Nil]
    BY <1>1, <1>3, <2>1 DEF ForkThread, TypeOK
  <2> QED
    BY <1>1, <1>3, <2>1, <2>2 DEF ForkThread, NewTask, Forked, TypeOK
<1> QED
  BY <1>2, <1>3

LEMMA ForkTypes ==
    ASSUME TypeOK, NEW x \in Task, NEW l \in Task, NEW m \in BOOLEAN,
           (l = x /\ ForkProcess(x, m)) \/ ForkThread(x, l)
    PROVE  TypeOK'
<1>1. \E hasmm \in BOOLEAN : NewTask(x, l, hasmm)
  BY DEF ForkProcess, ForkThread
<1>2. PICK hasmm \in BOOLEAN : NewTask(x, l, hasmm)
  BY <1>1
<1>3. UNCHANGED <<build, gp, pc, prog, g, t, kbuf, seen, must, pending, vmod>>
  BY <1>2 DEF NewTask, walkers, timer
<1>4. /\ life' \in [Task -> {"free", "linked", "removed", "put"}]
      /\ leader' \in [Task -> Task]
      /\ usage' \in [Task -> Nat]
      /\ alloc_lock' \in [Task -> Walker \cup {Nil}]
  BY <1>2 DEF NewTask, TypeOK
<1>5. mm' \in [Task -> BOOLEAN]
  BY <1>2 DEF NewTask, TypeOK
<1>6. tnext' \in [Task -> Task \cup {Nil}]
  BY <1>2 DEF NewTask, TypeOK
<1>7. next' \in [Task \cup {InitTask} -> Task \cup {InitTask}]
  BY DEF ForkProcess, ForkThread, TypeOK
<1>8. first' \in [Task -> Task \cup {Nil}]
  <2>1. first \in [Task -> Task \cup {Nil}]
    BY DEF TypeOK
  <2>2. CASE ForkProcess(x, m)
    <3>1. first' = [first EXCEPT ![x] = x]
      BY <2>2 DEF ForkProcess
    <3> QED
      BY <2>1, <3>1
  <2>3. CASE ForkThread(x, l)
    <3>1. first' = [first EXCEPT ![x] = Nil, ![l] = IF first[l] = Nil THEN x ELSE first[l]]
      BY <2>3 DEF ForkThread
    <3> QED
      BY <2>1, <3>1
  <2> QED
    BY <2>2, <2>3
<1> QED
  BY <1>3, <1>4, <1>5, <1>6, <1>7, <1>8 DEF TypeOK

\* What becomes of a task that no context keeps: the counts and the locks.
LEMMA NobodyHolds ==
    ASSUME IInv, NEW R, ListInv(R), \A w \in Ctx : CtxInv(R, w), NEW x \in Task,
           \A w \in Ctx : ~Kept(w, x)
    PROVE  /\ \A w \in Walker : ~(HoldsLock(w) /\ At(w) = x)
           /\ ~ \E w \in Walker : Pins(w) /\ At(w) = x
           /\ \A w \in Walker : pc[w] = "mm" => t[w] \in Task \ {x}
<1>1. \A w \in Walker : w \in Ctx /\ w # Softirq /\ prog[w] \in Listers \cup Detailers \cup {"none", "ding"}
  BY ConstantsAssumption, CtxTypes DEF Ctx, IInv
<1>2. \A w \in Walker : ~(HoldsLock(w) /\ At(w) = x)
  BY <1>1, HeldKept
<1>3. \A w \in Walker : Pins(w) => HoldsLock(w)
  BY <1>1 DEF CtxInv, Place, Pins, HoldsLock, Listers, Detailers, Locked, Reading
<1>4. ASSUME NEW w \in Walker, pc[w] = "mm" PROVE t[w] \in Task \ {x}
  <2>1. prog[w] \in Detailers
    BY <1>1, <1>4 DEF CtxInv, Place, Listers, Detailers, Locked
  <2>2. HoldsLock(w) /\ At(w) = t[w]
    BY <1>4, <2>1 DEF HoldsLock, At, Detailers, Reading
  <2> QED
    BY <1>1, <1>2, <2>2, HeldKept
<1> QED
  BY <1>2, <1>3, <1>4

LEMMA ForkStep ==
    ASSUME IInv, NEW x \in Task, NEW l \in Task, NEW m \in BOOLEAN,
           (l = x /\ ForkProcess(x, m)) \/ ForkThread(x, l)
    PROVE  IInv'
<1>1. PICK R \in SUBSET (Task \X Task) : ListInv(R) /\ \A v \in Ctx : CtxInv(R, v)
  BY DEF IInv
<1>2. TypeOK /\ TypeOK' /\ Forked(x, l)
  BY <1>1, ForkTypes, ForksAlike DEF IInv
<1> DEFINE Q == OnTop(R, x)
<1>3. /\ Q \in SUBSET (Task \X Task)
      /\ \A y, z \in Task \ {x} : Below(Q, y, z) <=> Below(R, y, z)
  BY <1>1, NewOrder DEF ListInv, OrderInv
<1>4. ListInv(Q)'
  BY <1>1, <1>2, ForkLists
<1> HIDE DEF Q
<1>5. /\ life[x] = "free" /\ \A w \in Ctx : ~Kept(w, x)
      /\ life'[x] = "linked"
      /\ \A y \in Task \ {x} : life'[y] = life[y] /\ leader'[y] = leader[y]
      /\ UNCHANGED <<build, gp, walkers>>
  BY <1>1, <1>2 DEF Forked, Kept, Linked, ListInv, LifeInv, TypeOK
<1>6. \A w \in Ctx : CtxInv(Q, w)'
  BY <1>1, <1>3, <1>5, CtxUnconcerned
<1>7. PICK hasmm \in BOOLEAN : NewTask(x, l, hasmm)
  BY DEF ForkProcess, ForkThread
<1>8. /\ \A w \in Walker : ~(HoldsLock(w) /\ At(w) = x)
      /\ ~ \E w \in Walker : Pins(w) /\ At(w) = x
      /\ \A w \in Walker : pc[w] = "mm" => t[w] \in Task \ {x}
  BY <1>1, <1>5, NobodyHolds
<1>9. \A w \in Walker : (HoldsLock(w)' <=> HoldsLock(w)) /\ At(w)' = At(w) /\ (Pins(w)' <=> Pins(w))
  BY <1>5 DEF HoldsLock, At, Pins, walkers
<1>10. LockInv'
  BY <1>2, <1>7, <1>8, <1>9, ConstantsAssumption DEF IInv, LockInv, NewTask, TypeOK
<1>11. UsageInv'
  BY <1>2, <1>5, <1>7, <1>8, <1>9 DEF IInv, UsageInv, NewTask, TypeOK
<1>12. MmStays'
  BY <1>2, <1>5, <1>7, <1>8 DEF IInv, MmStays, NewTask, TypeOK, walkers
<1>13. TimerInModule'
  BY <1>5, <1>7 DEF IInv, TimerInModule, NewTask, walkers, timer
<1> QED
  BY <1>2, <1>3, <1>4, <1>5, <1>6, <1>10, <1>11, <1>12, <1>13 DEF IInv, SafeBuilds

\* release_task: the order of the tasks stays, and x is kept for all readers.
LEMMA ReleaseLinks ==
    ASSUME IInv, NEW R, ListInv(R), NEW x \in Task, ReleaseTask(x)
    PROVE  /\ TypeOK' /\ Readers' = Readers /\ gp'[x] = Readers
           /\ \A y \in Task \ {x} : life'[y] = life[y] /\ gp'[y] = gp[y]
           /\ life'[x] = "removed" /\ leader' = leader
           /\ \A w \in Ctx : InSection(w)' <=> InSection(w)
           /\ \A w \in Ctx : must'[w] = must[w] \ {x}
           /\ \A y \in Task : Linked(y) /\ leader[y] = x => y = x
           /\ next[x] # x /\ tnext[x] # x
           /\ next'[InitTask] = IF next[InitTask] = x THEN next[x] ELSE next[InitTask]
           /\ \A y \in Task : next'[y] = IF Linked(y) /\ next[y] = x THEN next[x] ELSE next[y]
           /\ \A y \in Task : tnext'[y] = IF Linked(y) /\ tnext[y] = x THEN tnext[x] ELSE tnext[y]
           /\ \A y \in Task : first'[y] = IF y = x THEN Nil ELSE first[y]
<1>1. /\ TypeOK /\ InitTask \notin Task /\ Nil \notin Task
      /\ LifeInv /\ LinkInv /\ OrderInv(R) /\ Linked(x)
  BY ConstantsAssumption DEF IInv, ListInv, ReleaseTask
<1>2. \A w \in Ctx : InSection(w)' <=> InSection(w)
  BY DEF ReleaseTask, InSection
<1>3. Readers' = Readers /\ Readers \in SUBSET Ctx
  BY <1>2 DEF Readers
<1>4. /\ \A y \in Task \ {x} : life'[y] = life[y] /\ gp'[y] = gp[y]
      /\ life'[x] = "removed" /\ gp'[x] = Readers
      /\ \A w \in Ctx : must'[w] = must[w] \ {x}
      /\ leader' = leader
      /\ \A y \in Task : Linked(y) /\ leader[y] = x => y = x
  BY <1>1 DEF ReleaseTask, TypeOK
<1>5. next[x] # x /\ tnext[x] # x
  BY <1>1 DEF OrderInv, StrictOrder
<1>6. \A y \in Task : next[y] = x /\ Linked(y) => Listed(y)
  BY <1>1 DEF LifeInv, Listed
<1>7. leader[x] = x => tnext[x] = Nil
  BY <1>1, <1>4, <1>5 DEF LinkInv, TypeOK
<1>8. \A y \in Task : first'[y] = IF y = x THEN Nil ELSE first[y]
  BY <1>1, <1>7 DEF ReleaseTask, LifeInv
<1>9. /\ next'[InitTask] = IF next[InitTask] = x THEN next[x] ELSE next[InitTask]
      /\ \A y \in Task : next'[y] = IF Linked(y) /\ next[y] = x THEN next[x] ELSE next[y]
      /\ \A y \in Task : tnext'[y] = IF Linked(y) /\ tnext[y] = x THEN tnext[x] ELSE tnext[y]
  BY <1>1, <1>6 DEF ReleaseTask, Listed
<1>10. TypeOK'
  <2>1. /\ life' \in [Task -> {"free", "linked", "removed", "put"}]
        /\ next' \in [Task \cup {InitTask} -> Task \cup {InitTask}]
        /\ first' \in [Task -> Task \cup {Nil}] /\ tnext' \in [Task -> Task \cup {Nil}]
    BY <1>1 DEF ReleaseTask, TypeOK
  <2>2. gp' \in [Task -> SUBSET Ctx] /\ must' \in [Ctx -> SUBSET Task]
    BY <1>1, <1>3 DEF ReleaseTask, TypeOK
  <2> QED
    BY <1>1, <2>1, <2>2 DEF ReleaseTask, TypeOK, timer
<1> QED
  BY <1>2, <1>3, <1>4, <1>5, <1>8, <1>9, <1>10

LEMMA ReleaseLists ==
    ASSUME IInv, NEW R, ListInv(R), \A w \in Ctx : CtxInv(R, w), NEW x \in Task, ReleaseTask(x)
    PROVE  ListInv(R)'
<1> USE DEF ListInv
<1>1. TypeOK /\ InitTask \notin Task /\ Nil \notin Task /\ Linked(x)
  BY ConstantsAssumption DEF IInv, ReleaseTask
<1>2. /\ TypeOK' /\ Readers' = Readers /\ gp'[x] = Readers
      /\ \A y \in Task \ {x} : life'[y] = life[y] /\ gp'[y] = gp[y]
      /\ life'[x] = "removed" /\ leader' = leader
      /\ \A w \in Ctx : must'[w] = must[w] \ {x}
      /\ \A y \in Task : Linked(y) /\ leader[y] = x => y = x
      /\ next[x] # x /\ tnext[x] # x
      /\ next'[InitTask] = IF next[InitTask] = x THEN next[x] ELSE next[InitTask]
      /\ \A y \in Task : next'[y] = IF Linked(y) /\ next[y] = x THEN next[x] ELSE next[y]
      /\ \A y \in Task : tnext'[y] = IF Linked(y) /\ tnext[y] = x THEN tnext[x] ELSE tnext[y]
      /\ \A y \in Task : first'[y] = IF y = x THEN Nil ELSE first[y]
  BY ReleaseLinks
<1>3. /\ next'[x] = next[x] /\ tnext'[x] = tnext[x]
      /\ \A y \in Task : ~Linked(y) => next'[y] = next[y] /\ tnext'[y] = tnext[y]
      /\ \A y \in Task : Linked(y)' <=> Linked(y) /\ y # x
  BY <1>1, <1>2 DEF Linked
<1>4. \A y \in Task : \A w \in gp[y] : y # x /\ ~Linked(y) /\ w \in Readers
  BY <1>1 DEF LifeInv, Linked
<1>5. LifeInv'
  <2> SUFFICES ASSUME NEW y \in Task
               PROVE  /\ life'[y] \in {"free", "linked", "removed"}
                      /\ gp'[y] \subseteq Readers
                      /\ gp'[y] # {} => life'[y] = "removed"
                      /\ life'[y] = "free" => leader'[y] = y /\ next'[y] = InitTask /\ tnext'[y] = Nil
                      /\ first'[y] = IF life'[y] = "linked" /\ leader'[y] = y THEN y ELSE Nil
                      /\ leader'[y] # y => next'[y] = InitTask
    BY <1>2 DEF LifeInv, Linked
  <2>1. CASE y = x
    BY <1>2, <1>3, <2>1 DEF LifeInv
  <2>2. CASE y # x
    <3>1. leader[y] # y => next'[y] = InitTask
      BY <1>1, <1>2 DEF LifeInv
    <3> QED
      BY <1>2, <1>3, <2>2, <3>1 DEF LifeInv, Linked
  <2> QED
    BY <2>1, <2>2
<1>6. LinkInv'
  <2>1. ASSUME NEW z \in Task, Listed(z), z # x PROVE life'[z] = "linked" /\ leader[z] = z
    BY <1>1, <1>2, <2>1 DEF Listed, Linked
  <2>2. next'[InitTask] \in Task => life'[next'[InitTask]] = "linked" /\ leader[next'[InitTask]] = next'[InitTask]
    BY <1>1, <1>2, <2>1 DEF LinkInv
  <2>3. ASSUME NEW y \in Task, Linked(y), y # x
        PROVE  /\ life'[leader[y]] = "linked" /\ leader[leader[y]] = leader[y]
               /\ next'[y] \in Task => life'[next'[y]] = "linked" /\ leader[next'[y]] = next'[y]
               /\ tnext'[y] \in Task => life'[tnext'[y]] = "linked" /\ leader[tnext'[y]] = leader[y]
    <3>1. leader[y] \in Task /\ leader[y] # x
      BY <1>1, <1>2, <2>3 DEF TypeOK
    <3>2. life'[leader[y]] = "linked" /\ leader[leader[y]] = leader[y]
      BY <1>2, <2>3, <3>1 DEF LinkInv, Linked
    <3>3. next'[y] \in Task => life'[next'[y]] = "linked" /\ leader[next'[y]] = next'[y]
      BY <1>1, <1>2, <2>1, <2>3 DEF LinkInv
    <3>4. tnext'[y] \in Task => life'[tnext'[y]] = "linked" /\ leader[tnext'[y]] = leader[y]
      BY <1>1, <1>2, <2>3 DEF LinkInv, Linked
    <3> QED
      BY <3>2, <3>3, <3>4
  <2> QED
    BY <1>2, <1>3, <2>2, <2>3 DEF LinkInv, Listed, Linked
<1>7. RemovedInv'
  <2> DEFINE Stays(w, z) == life'[z] = "linked" \/ w \in gp'[z]
  <2>1. ASSUME NEW y \in Task, NEW w \in gp'[y]
        PROVE  /\ Stays(w, leader[y]) /\ leader[leader[y]] = leader[y]
               /\ next'[y] \in Task => Stays(w, next'[y]) /\ leader[next'[y]] = next'[y]
               /\ tnext'[y] \in Task => Stays(w, tnext'[y]) /\ leader[tnext'[y]] = leader[y]
    <3>1. w \in Readers /\ next'[y] = next[y] /\ tnext'[y] = tnext[y]
      BY <1>2, <1>3, <1>4
    <3>2. \A z \in Task : Kept(w, z) => Stays(w, z)
      BY <1>2, <3>1 DEF Kept, Linked
    <3> HIDE DEF Stays
    <3>3. CASE y = x
      BY <1>1, <3>1, <3>2, <3>3 DEF LinkInv, Listed, Kept, TypeOK
    <3>4. CASE y # x
      BY <1>1, <1>2, <3>1, <3>2, <3>4 DEF RemovedInv, TypeOK
    <3> QED
      BY <3>3, <3>4
  <2> QED
    BY <1>2, <2>1 DEF RemovedInv, Kept, Linked
<1>8. OrderInv(R)'
  <2> SUFFICES ASSUME NEW y \in Task
               PROVE  /\ next'[y] \in Task => Below(R, y, next'[y])
                      /\ tnext'[y] \in Task => Below(R, y, tnext'[y])
                      /\ Linked(y)' => UpTo(R, leader[y], y)
    BY <1>2 DEF OrderInv, StrictOrder, UpTo
  <2>1. next'[y] \in Task => Below(R, y, next'[y])
    BY <1>2 DEF OrderInv, StrictOrder
  <2>2. tnext'[y] \in Task => Below(R, y, tnext'[y])
    BY <1>2 DEF OrderInv, StrictOrder
  <2> QED
    BY <1>3, <2>1, <2>2 DEF OrderInv
<1>9. NoGapInv(R)'
  <2>1. ASSUME NEW z \in Task, Listed(z)' PROVE UpTo(R, next'[InitTask], z)
    <3>1. Listed(z) /\ z # x
      BY <1>1, <1>2, <1>3, <2>1 DEF Listed
    <3>2. UpTo(R, next[InitTask], z)
      BY <3>1 DEF NoGapInv
    <3>3. CASE next[InitTask] = x
      <4>1. leader[x] = x /\ Below(R, x, z) /\ leader[z] = z /\ Linked(z)
        BY <1>1, <3>1, <3>2, <3>3 DEF LinkInv, Listed, UpTo
      <4> QED
        BY <1>1, <1>2, <3>3, <4>1 DEF NoGapInv
    <3> QED
      BY <1>2, <3>2, <3>3
  <2>2. ASSUME NEW y \in Task, NEW z \in Task, Linked(y)', Linked(z)', Below(R, y, z)
        PROVE  /\ leader[y] = y /\ leader[z] = z => UpTo(R, next'[y], z)
               /\ leader[y] = leader[z] => UpTo(R, tnext'[y], z)
    <3>1. Linked(y) /\ Linked(z) /\ y # x /\ z # x
      BY <1>3, <2>2
    <3>2. /\ leader[y] = y /\ leader[z] = z => UpTo(R, next[y], z)
          /\ leader[y] = leader[z] => UpTo(R, tnext[y], z)
      BY <2>2, <3>1 DEF NoGapInv
    <3>3. ASSUME leader[y] = y, leader[z] = z, next[y] = x PROVE UpTo(R, next[x], z)
      <4>1. Below(R, x, z) /\ leader[x] = x
        BY <1>1, <3>1, <3>2, <3>3 DEF UpTo, LinkInv, Listed
      <4> QED
        BY <1>1, <3>1, <3>3, <4>1 DEF NoGapInv
    <3>4. ASSUME leader[y] = leader[z], tnext[y] = x PROVE UpTo(R, tnext[x], z)
      <4>1. Below(R, x, z) /\ leader[x] = leader[y]
        BY <1>1, <3>1, <3>2, <3>4 DEF UpTo, LinkInv
      <4> QED
        BY <1>1, <3>1, <3>4, <4>1 DEF NoGapInv
    <3> QED
      BY <1>2, <3>1, <3>2, <3>3, <3>4
  <2>3. ASSUME NEW y \in Task, NEW w \in gp'[y], NEW z \in must'[w], Below(R, y, z)
        PROVE  /\ leader[y] = y /\ leader[z] = z => UpTo(R, next'[y], z)
               /\ leader[y] = leader[z] => UpTo(R, tnext'[y], z)
    <3>1. w \in Readers /\ w \in Ctx /\ z \in must[w]
      BY <1>2, <1>4 DEF Readers
    <3>2. z \in Task /\ Linked(z)
      BY <1>1, <3>1, CtxTypes DEF CtxInv, Safe
    <3>3. next'[y] = next[y] /\ tnext'[y] = tnext[y]
      BY <1>2, <1>3, <1>4
    <3>4. CASE y = x
      BY <1>1, <2>3, <3>2, <3>3, <3>4 DEF NoGapInv
    <3>5. CASE y # x
      BY <1>2, <2>3, <3>1, <3>3, <3>5 DEF NoGapInv
    <3> QED
      BY <3>4, <3>5
  <2> QED
    BY <1>2, <2>1, <2>2, <2>3 DEF NoGapInv, UpTo
<1> QED
  BY <1>5, <1>6, <1>7, <1>8, <1>9

LEMMA ReleaseStep ==
    ASSUME IInv, NEW x \in Task, ReleaseTask(x) PROVE IInv'
<1>1. PICK R \in SUBSET (Task \X Task) : ListInv(R) /\ \A v \in Ctx : CtxInv(R, v)
  BY DEF IInv
<1>2. /\ TypeOK /\ TypeOK' /\ gp'[x] = Readers
      /\ \A y \in Task \ {x} : life'[y] = life[y] /\ gp'[y] = gp[y]
      /\ life'[x] = "removed" /\ leader' = leader
      /\ \A w \in Ctx : InSection(w)' <=> InSection(w)
      /\ \A w \in Ctx : must'[w] = must[w] \ {x}
      /\ \A y \in Task : Linked(y) /\ leader[y] = x => y = x
  BY <1>1, ReleaseLinks DEF IInv
<1>3. ListInv(R)'
  BY <1>1, ReleaseLists
<1>4. UNCHANGED <<build, usage, alloc_lock, mm, pc, prog, g, t, kbuf, seen, pending, vmod>> /\ Linked(x)
  BY DEF ReleaseTask, timer
<1>5. ASSUME NEW w \in Ctx PROVE CtxInv(R, w)'
  <2>1. Place(w)'
    BY <1>1, <1>4 DEF CtxInv, Place
  <2>2. Pointers(w)'
    BY <1>1, <1>2, <1>4 DEF CtxInv, Pointers
  <2>3. WalkInv(R, w)'
    <3>1. Passed(w)' <=> Passed(w)
      BY <1>4 DEF Passed
    <3>2. must'[w] \subseteq must[w]
      BY <1>2
    <3> QED
      BY <1>1, <1>2, <1>4, <3>1, <3>2 DEF CtxInv, WalkInv
  <2>4. Safe(w)'
    <3>0. seen[w] \in SUBSET Task /\ must[w] \in SUBSET Task
      BY <1>2, CtxTypes
    <3>1. InSection(w) => \A y \in Task : Kept(w, y) => Kept(w, y)'
      BY <1>2 DEF Kept, Linked, Readers
    <3>2. \A y \in must'[w] : Linked(y)' /\ leader[y] \in must'[w] /\ (prog[w] = "foreach" => leader[y] = y)
      <4> TAKE y \in must'[w]
      <4>1. y \in must[w] /\ y # x /\ y \in Task /\ Linked(y)
        BY <1>1, <1>2, <3>0 DEF CtxInv, Safe
      <4>2. leader[y] \in must[w] /\ leader[y] # x
        BY <1>1, <1>2, <4>1 DEF CtxInv, Safe
      <4> QED
        BY <1>1, <1>2, <4>1, <4>2 DEF CtxInv, Safe, Linked
    <3>3. CASE InSection(w)
      BY <1>1, <1>2, <1>4, <3>0, <3>1, <3>2, <3>3 DEF CtxInv, Safe
    <3>4. CASE ~InSection(w)
      <4>1. pc[w] \in AtRest /\ g[w] = InitTask /\ t[w] = Nil /\ seen[w] = {}
        BY <1>1, <3>4 DEF CtxInv, Safe, Pointers
      <4> QED
        BY <1>2, <1>4, <3>2, <4>1, ConstantsAssumption DEF Safe
    <3> QED
      BY <3>3, <3>4
  <2> QED
    BY <2>1, <2>2, <2>3, <2>4 DEF CtxInv
<1>6. \A w \in Walker : (HoldsLock(w)' <=> HoldsLock(w)) /\ At(w)' = At(w) /\ (Pins(w)' <=> Pins(w))
  BY <1>4 DEF HoldsLock, At, Pins
<1>7. LockInv' /\ MmStays' /\ TimerInModule'
  BY <1>4, <1>6 DEF IInv, LockInv, MmStays, TimerInModule
<1>8. UsageInv'
  BY <1>2, <1>4, <1>6 DEF IInv, UsageInv, Linked
<1> QED
  BY <1>1, <1>2, <1>3, <1>4, <1>5, <1>7, <1>8 DEF IInv

\* The grace period of x is over: no context keeps it, and no link that is
\* still followed leads to it, so that it can be freed.
LEMMA FreeLists ==
    ASSUME IInv, NEW R, ListInv(R), \A w \in Ctx : CtxInv(R, w), NEW x \in Task,
           life[x] = "removed", gp[x] = {}, UNCHANGED <<build, gp, walkers>>,
           life' = [life EXCEPT ![x] = "free"], leader' = [leader EXCEPT ![x] = x],
           next' = [next EXCEPT ![x] = InitTask], first' = [first EXCEPT ![x] = Nil],
           tnext' = [tnext EXCEPT ![x] = Nil]
    PROVE  ListInv(R)'
<1> USE DEF ListInv
<1>1. /\ TypeOK /\ InitTask \notin Task /\ Nil \notin Task
      /\ ~Linked(x) /\ \A w \in Ctx : ~Kept(w, x)
  BY ConstantsAssumption DEF IInv, Linked, Kept
<1>2. /\ \A y \in Task \ {x} : /\ life'[y] = life[y] /\ leader'[y] = leader[y] /\ next'[y] = next[y]
                               /\ first'[y] = first[y] /\ tnext'[y] = tnext[y]
      /\ life'[x] = "free" /\ leader'[x] = x /\ next'[x] = InitTask /\ first'[x] = Nil /\ tnext'[x] = Nil
      /\ next'[InitTask] = next[InitTask]
      /\ gp' = gp /\ must' = must
  BY <1>1 DEF TypeOK, walkers
<1>3. Readers' = Readers
  <2>1. \A w \in Ctx : InSection(w)' <=> InSection(w)
    BY DEF walkers, InSection
  <2> QED
    BY <2>1 DEF Readers
<1>4. LifeInv'
  <2> SUFFICES ASSUME NEW y \in Task
               PROVE  /\ life'[y] \in {"free", "linked", "removed"}
                      /\ gp[y] \subseteq Readers
                      /\ gp[y] # {} => life'[y] = "removed"
                      /\ life'[y] = "free" => leader'[y] = y /\ next'[y] = InitTask /\ tnext'[y] = Nil
                      /\ first'[y] = IF life'[y] = "linked" /\ leader'[y] = y THEN y ELSE Nil
                      /\ leader'[y] # y => next'[y] = InitTask
    BY <1>2, <1>3 DEF LifeInv, Linked
  <2> QED
    BY <1>2 DEF LifeInv, Linked
<1>5. LinkInv'
  <2>1. next[InitTask] \in Task => life'[next[InitTask]] = "linked" /\ leader'[next[InitTask]] = next[InitTask]
    BY <1>1, <1>2 DEF LinkInv, Listed, Linked
  <2>2. ASSUME NEW y \in Task, life'[y] = "linked"
        PROVE  /\ life'[leader'[y]] = "linked" /\ leader'[leader'[y]] = leader'[y]
               /\ next'[y] \in Task => life'[next'[y]] = "linked" /\ leader'[next'[y]] = next'[y]
               /\ tnext'[y] \in Task => life'[tnext'[y]] = "linked" /\ leader'[tnext'[y]] = leader'[y]
    <3>1. y # x /\ Linked(y)
      BY <1>2, <2>2 DEF Linked
    <3>2. leader[y] \in Task /\ leader[y] # x /\ next[y] # x /\ tnext[y] # x
      BY <1>1, <3>1 DEF LinkInv, Listed, TypeOK
    <3> QED
      BY <1>1, <1>2, <3>1, <3>2 DEF LinkInv, Listed, Linked
  <2> QED
    BY <1>2, <2>1, <2>2 DEF LinkInv, Listed, Linked
<1>6. \A y \in Task : \A w \in gp[y] :
        y # x /\ w \in Ctx /\ leader[y] \in Task /\ leader[y] # x /\ next[y] # x /\ tnext[y] # x
  BY <1>1 DEF RemovedInv, TypeOK
<1>7. RemovedInv'
  <2> DEFINE Stays(w, z) == life'[z] = "linked" \/ w \in gp[z]
  <2>1. ASSUME NEW y \in Task, NEW w \in gp[y]
        PROVE  /\ Stays(w, leader[y]) /\ leader'[leader[y]] = leader[y]
               /\ next[y] \in Task => Stays(w, next[y]) /\ leader'[next[y]] = next[y]
               /\ tnext[y] \in Task => Stays(w, tnext[y]) /\ leader'[tnext[y]] = leader[y]
    <3>1. \A z \in Task \ {x} : Kept(w, z) => Stays(w, z)
      BY <1>2 DEF Kept, Linked
    <3> HIDE DEF Stays
    <3> QED
      BY <1>2, <1>6, <3>1 DEF RemovedInv
  <2>2. \A y \in Task : \A w \in gp[y] : leader'[y] = leader[y] /\ next'[y] = next[y] /\ tnext'[y] = tnext[y]
    BY <1>2, <1>6
  <2> QED
    BY <1>2, <2>1, <2>2 DEF RemovedInv, Kept, Linked
<1>8. OrderInv(R)'
  <2> SUFFICES ASSUME NEW y \in Task
               PROVE  /\ next'[y] \in Task => Below(R, y, next'[y])
                      /\ tnext'[y] \in Task => Below(R, y, tnext'[y])
                      /\ life'[y] = "linked" => UpTo(R, leader'[y], y)
    BY DEF OrderInv, StrictOrder, UpTo, Linked
  <2> QED
    BY <1>1, <1>2 DEF OrderInv, Linked
<1>9. NoGapInv(R)'
  <2>1. \A y \in Task : Linked(y)' => y # x /\ Linked(y) /\ leader'[y] = leader[y]
    BY <1>2 DEF Linked
  <2>2. ASSUME NEW z \in Task, Listed(z)' PROVE UpTo(R, next[InitTask], z)
    BY <1>1, <2>1, <2>2 DEF NoGapInv, Listed
  <2>3. ASSUME NEW y \in Task, NEW z \in Task, Linked(y)', Linked(z)', Below(R, y, z)
        PROVE  /\ leader'[y] = y /\ leader'[z] = z => UpTo(R, next'[y], z)
               /\ leader'[y] = leader'[z] => UpTo(R, tnext'[y], z)
    <3>1. Linked(y) /\ Linked(z) /\ y # x /\ leader'[y] = leader[y] /\ leader'[z] = leader[z]
      BY <2>1, <2>3
    <3> QED
      BY <1>2, <2>3, <3>1 DEF NoGapInv
  <2>4. ASSUME NEW y \in Task, NEW w \in gp[y], NEW z \in must[w], Below(R, y, z)
        PROVE  /\ leader'[y] = y /\ leader'[z] = z => UpTo(R, next'[y], z)
               /\ leader'[y] = leader'[z] => UpTo(R, tnext'[y], z)
    <3>1. z \in Task /\ z # x /\ y # x
      BY <1>1, <1>6, CtxTypes DEF CtxInv, Safe
    <3> QED
      BY <1>2, <2>4, <3>1 DEF NoGapInv
  <2> QED
    BY <1>2, <2>2, <2>3, <2>4 DEF NoGapInv, UpTo
<1> QED
  BY <1>4, <1>5, <1>7, <1>8, <1>9

LEMMA DelayedPutStep ==
    ASSUME IInv, NEW x \in Task, DelayedPut(x) PROVE IInv'
<1>1. PICK R \in SUBSET (Task \X Task) : ListInv(R) /\ \A v \in Ctx : CtxInv(R, v)
  BY DEF IInv
<1>2. /\ TypeOK /\ life[x] = "removed" /\ gp[x] = {} /\ (\A w \in Ctx : ~Kept(w, x))
      /\ UNCHANGED <<build, alloc_lock, mm, gp, walkers, timer>>
  BY DEF IInv, DelayedPut, Kept, Linked
<1>3. /\ \A w \in Walker : ~(HoldsLock(w) /\ At(w) = x)
      /\ ~ \E w \in Walker : Pins(w) /\ At(w) = x
      /\ \A w \in Walker : pc[w] = "mm" => t[w] \in Task \ {x}
  BY <1>1, <1>2, NobodyHolds
<1>4. usage[x] = 1
  BY <1>2, <1>3 DEF IInv, UsageInv
<1>5. /\ life' = [life EXCEPT ![x] = "free"] /\ leader' = [leader EXCEPT ![x] = x]
      /\ next' = [next EXCEPT ![x] = InitTask] /\ first' = [first EXCEPT ![x] = Nil]
      /\ tnext' = [tnext EXCEPT ![x] = Nil]
      /\ usage' = [usage EXCEPT ![x] = 0]
  BY <1>2, <1>4 DEF DelayedPut, put_task_struct, TypeOK
<1>6. ListInv(R)'
  BY <1>1, <1>2, <1>5, FreeLists
<1>7. \A y \in Task \ {x} : life'[y] = life[y] /\ leader'[y] = leader[y]
  BY <1>2, <1>5 DEF TypeOK
<1>8. \A w \in Ctx : CtxInv(R, w)'
  BY <1>1, <1>2, <1>7, CtxUnconcerned
<1>9. \A w \in Walker : (HoldsLock(w)' <=> HoldsLock(w)) /\ At(w)' = At(w) /\ (Pins(w)' <=> Pins(w))
  BY <1>2 DEF HoldsLock, At, Pins, walkers
<1>10. LockInv' /\ MmStays' /\ TimerInModule'
  BY <1>2, <1>9 DEF IInv, LockInv, MmStays, TimerInModule, walkers, timer
<1>11. UsageInv'
  BY <1>2, <1>3, <1>5, <1>7, <1>9 DEF IInv, UsageInv, TypeOK
<1>12. TypeOK'
  <2>1. /\ life' \in [Task -> {"free", "linked", "removed", "put"}]
        /\ leader' \in [Task -> Task]
        /\ next' \in [Task \cup {InitTask} -> Task \cup {InitTask}]
        /\ first' \in [Task -> Task \cup {Nil}] /\ tnext' \in [Task -> Task \cup {Nil}]
        /\ usage' \in [Task -> Nat]
    BY <1>2, <1>5 DEF TypeOK
  <2> QED
    BY <1>2, <2>1 DEF TypeOK, walkers, timer
<1> QED
  BY <1>1, <1>2, <1>6, <1>8, <1>10, <1>11, <1>12 DEF IInv

-----------------------------------------------------------------------------
(* The invariant holds at first and is kept by every step *)

LEMMA InitIInv == SafeBuilds /\ Init => IInv
<1> SUFFICES ASSUME SafeBuilds, Init PROVE IInv
  OBVIOUS
<1> USE ConstantsAssumption DEF Ctx
<1>1. PICK x \in Task :
        /\ life = [y \in Task |-> IF y = x THEN "linked" ELSE "free"]
        /\ leader = [y \in Task |-> y]
        /\ next = [y \in Task \cup {InitTask} |-> IF y = InitTask THEN x ELSE InitTask]
        /\ first = [y \in Task |-> IF y = x THEN x ELSE Nil]
        /\ tnext = [y \in Task |-> Nil]
        /\ usage = [y \in Task |-> IF y = x THEN 1 ELSE 0]
        /\ mm = [y \in Task |-> y = x]
  BY DEF Init
<1>2. \A w \in Ctx : /\ pc[w] = "idle" /\ prog[w] = (IF w = Softirq THEN "ding" ELSE "none")
                     /\ g[w] = InitTask /\ t[w] = Nil /\ seen[w] = {} /\ must[w] = {}
                     /\ w \notin kbuf
  BY DEF Init
<1>3. TypeOK
  <2>1. mm \in [Task -> BOOLEAN]
    BY <1>1
  <2>2. pending \in BOOLEAN
    BY DEF Init
  <2>3. /\ life \in [Task -> {"free", "linked", "removed", "put"}]
        /\ leader \in [Task -> Task]
        /\ next \in [Task \cup {InitTask} -> Task \cup {InitTask}]
        /\ first \in [Task -> Task \cup {Nil}] /\ tnext \in [Task -> Task \cup {Nil}]
        /\ usage \in [Task -> Nat]
    BY <1>1
  <2> QED
    BY <2>1, <2>2, <2>3 DEF Init, TypeOK, Listers, Detailers
<1>4. ListInv({})
  <2>1. \A y \in Task : (Linked(y) <=> y = x) /\ gp[y] = {}
    BY <1>1 DEF Init, Linked
  <2>2. LifeInv
    BY <1>1, <2>1 DEF LifeInv
  <2>3. LinkInv
    BY <1>1, <2>1 DEF LinkInv, Listed
  <2>4. RemovedInv
    BY <2>1 DEF RemovedInv
  <2>5. OrderInv({})
    BY <1>1 DEF OrderInv, StrictOrder, Below, UpTo
  <2>6. NoGapInv({})
    BY <1>1, <2>1 DEF NoGapInv, Listed, UpTo, Below
  <2> QED
    BY <2>2, <2>3, <2>4, <2>5, <2>6 DEF ListInv
<1>5. ASSUME NEW w \in Ctx PROVE CtxInv({}, w)
  <2>1. Place(w)
    BY <1>2 DEF Place
  <2>2. Pointers(w)
    BY <1>2 DEF Pointers, Locked, ThreadWalkers, Detailers
  <2>3. Safe(w)
    BY <1>2 DEF Safe, AtRest
  <2>4. WalkInv({}, w)
    BY <1>2 DEF WalkInv, Passed
  <2> QED
    BY <2>1, <2>2, <2>3, <2>4 DEF CtxInv
<1>6. LockInv
  BY <1>2 DEF LockInv, HoldsLock, Init, Locked, Reading
<1>7. UsageInv
  BY <1>1, <1>2 DEF UsageInv, Pins
<1>8. MmStays /\ TimerInModule
  BY <1>2 DEF MmStays, TimerInModule, Init
<1>9. {} \in SUBSET (Task \X Task)
  OBVIOUS
<1> QED
  BY <1>3, <1>4, <1>5, <1>6, <1>7, <1>8, <1>9 DEF IInv

LEMMA TasksStep ==
    ASSUME IInv, Tasks PROVE IInv'
<1>1. ASSUME NEW x \in Task, NEW m \in BOOLEAN, ForkProcess(x, m) PROVE IInv'
  BY <1>1, ForkStep
<1>2. ASSUME NEW x \in Task, NEW l \in Task, ForkThread(x, l) PROVE IInv'
  <2>1. TRUE \in BOOLEAN
    OBVIOUS
  <2> QED
    BY <1>2, <2>1, ForkStep
<1>3. ASSUME NEW x \in Task, ExitMm(x) \/ ReleaseTask(x) \/ DelayedPut(x) PROVE IInv'
  BY <1>3, ExitMmStep, ReleaseStep, DelayedPutStep
<1> QED
  BY <1>1, <1>2, <1>3 DEF Tasks

LEMMA ListersStep ==
    ASSUME IInv, NEW w \in Walker, taskinfo_read(w) \/ showthrds(w) PROVE IInv'
<1> USE DEF Ctx
<1>1. CASE ReadBegins(w) \/ ShowBegins(w)
  BY <1>1, ReadBeginsStep, WalkBegins
<1>2. CASE ReadSteps(w)
  <2>1. prog[w] = "foreach" /\ prog[w] \in Listers
    BY <1>2 DEF ReadSteps, Listers
  <2> QED
    BY <1>2, <2>1, WalkBegins, ListerLocks, GetStep, CondReschedStep, PutStep, ListerUnlocks,
       ReadNextStep, WalkEnds DEF ReadSteps
<1>3. CASE ShowSteps(w)
  <2>1. prog[w] = "showthreads" /\ prog[w] \in Listers /\ prog[w] \in ThreadWalkers
    BY <1>3 DEF ShowSteps, Listers, ThreadWalkers
  <2> QED
    BY <1>3, <2>1, ThreadStep, NextProcessStep, ListerLocks, GetStep, PutStep, ListerUnlocks,
       WalkEnds DEF ShowSteps
<1> QED
  BY <1>1, <1>2, <1>3 DEF taskinfo_read, showthrds

LEMMA DetailersStep ==
    ASSUME IInv, NEW w \in Walker, disp_task_details(w) \/ display_task_details(w) PROVE IInv'
<1>1. prog[w] \in Detailers
  BY DEF disp_task_details, display_task_details, Detailers
<1>2. CASE Pass(w, "task", IF mm[t[w]] THEN "mm" ELSE "rest")
  BY <1>1, <1>2, DetailsPass
<1>3. CASE Pass(w, "mm", "rest") \/ Pass(w, "rest", "unlock") \/ DisplayAlive(w)
  BY <1>1, <1>3, DetailsPass DEF DisplayAlive
<1>4. CASE task_lock(w, "lock", "task")
  BY <1>1, <1>4, DetailsLocks
<1>5. CASE DetailsEnd(w) \/ DisplayDead(w)
  BY <1>1, <1>5, DetailsEnds
<1> QED
  BY <1>2, <1>3, <1>4, <1>5
     DEF disp_task_details, display_task_details, DetailsLock, DetailsTask, DetailsMm, DetailsRest,
         DisplayLock, DisplayTask, DisplayMm, DisplayRest

LEMMA DingStep ==
    ASSUME IInv, ding PROVE IInv'
<1>1. Softirq \in Ctx
  BY DEF Ctx
<1>2. prog[Softirq] \in ThreadWalkers
  BY <1>1 DEF IInv, CtxInv, Place, ThreadWalkers
<1> QED
  BY <1>1, <1>2, DingTimer, ThreadStep, NextProcessStep, DingTestStep, WalkEnds DEF ding

LEMMA NextIInv == IInv /\ [Next]_vars => IInv'
<1> SUFFICES ASSUME IInv, [Next]_vars PROVE IInv'
  OBVIOUS
<1>1. ASSUME NEW w \in Walker, taskinfo_read(w) \/ showthrds(w) PROVE IInv'
  BY <1>1, ListersStep
<1>2. ASSUME NEW w \in Walker, NEW x \in Task, taskdtl_init(w, x) \/ DisplayBegins(w, x) PROVE IInv'
  BY <1>2, DetailsBegin
<1>3. ASSUME NEW w \in Walker, disp_task_details(w) \/ display_task_details(w) PROVE IInv'
  BY <1>3, DetailersStep
<1> QED
  BY <1>1, <1>2, <1>3, TasksStep, DingStep, TimerSteps DEF Next

LEMMA Invariance == SafeBuilds /\ Spec => []IInv
  BY InitIInv, NextIInv, PTL DEF Spec

-----------------------------------------------------------------------------
(* Theorems *)

\* What the invariant says of a pointer: the task it leads to is not free.
LEMMA PointersAlive ==
    ASSUME IInv, NEW w \in Ctx
    PROVE  /\ g[w] \in Task => life[g[w]] # "free"
           /\ t[w] \in Task => life[t[w]] # "free"
<1>1. PICK R \in SUBSET (Task \X Task) : ListInv(R) /\ \A v \in Ctx : CtxInv(R, v)
  BY DEF IInv
<1>2. \A x \in Task : Kept(w, x) => life[x] # "free"
  BY <1>1 DEF ListInv, LifeInv, Kept, Linked
<1> QED
  BY <1>1, <1>2 DEF CtxInv, Safe

\* On a kernel that counts preemption under taskinfo_read and showthrds, and on
\* one that does not under showthrds and disp_task_details, no step of a walk,
\* of ding or of a display touches a task_struct that has been freed, however
\* many tasks come and go and however many contexts run at once.
THEOREM FreedTasksUntouched == SafeBuilds /\ Spec => []NoStaleTask
<1>1. IInv => NoStaleTask
  BY PointersAlive DEF NoStaleTask, Touches
<1> QED
  BY <1>1, Invariance, PTL

\* There, too, get_task_struct and put_task_struct balance, task_lock is held
\* by the context that looks at the task, and taskinfo_read frees its kbuf.
THEOREM ReferencesBalance == SafeBuilds /\ Spec => []NothingLeaks
<1>1. ASSUME IInv PROVE NothingLeaks
  <2>1. PICK R \in SUBSET (Task \X Task) : ListInv(R) /\ \A v \in Ctx : CtxInv(R, v)
    BY <1>1 DEF IInv
  <2>2. ASSUME NEW x \in Task
        PROVE  usage[x] = (IF life[x] \in {"linked", "removed"} THEN 1 ELSE 0) + Cardinality(Pinning(x))
    <3>1. /\ life[x] = "free" <=> life[x] \notin {"linked", "removed"}
          /\ usage[x] = (IF life[x] = "free" THEN 0 ELSE 1)
                        + (IF \E w \in Walker : Pins(w) /\ At(w) = x THEN 1 ELSE 0)
      BY <1>1, <2>1 DEF IInv, UsageInv, ListInv, LifeInv
    <3>2. Cardinality(Pinning(x)) = IF \E w \in Walker : Pins(w) /\ At(w) = x THEN 1 ELSE 0
      <4>1. CASE \E w \in Walker : Pins(w) /\ At(w) = x
        <5>1. PICK w \in Walker : Pins(w) /\ At(w) = x
          BY <4>1
        <5>2. \A v \in Walker : Pins(v) /\ At(v) = x => v = w
          BY <1>1, <2>1, <5>1, PinnedOnce
        <5>3. Pinning(x) = {w}
          BY <5>1, <5>2 DEF Pinning, Pins
        <5> QED
          BY <4>1, <5>3, FS_Singleton
      <4>2. CASE ~ \E w \in Walker : Pins(w) /\ At(w) = x
        <5>1. Pinning(x) = {}
          BY <4>2 DEF Pinning, Pins
        <5> QED
          BY <4>2, <5>1, FS_EmptySet
      <4> QED
        BY <4>1, <4>2
    <3> QED
      BY <3>1, <3>2
  <2>3. \A x \in Task : alloc_lock[x] # Nil => At(alloc_lock[x]) = x
    BY <1>1 DEF IInv, LockInv, TypeOK
  <2>4. \A w \in kbuf : pc[w] # "idle"
    <3>1. \A w \in kbuf : w \in Ctx
      BY <1>1 DEF IInv, TypeOK, Ctx
    <3> QED
      BY <2>1, <3>1 DEF CtxInv, Place, Locked
  <2> QED
    BY <2>2, <2>3, <2>4 DEF NothingLeaks
<1> QED
  BY <1>1, Invariance, PTL

\* Between the test of p->mm and the last read through it, task_lock keeps
\* exit_mm from taking the mm away.
THEOREM MmUnderLock == SafeBuilds /\ Spec => []MmStays
<1>1. IInv => MmStays
  BY DEF IInv
<1> QED
  BY <1>1, Invariance, PTL

\* A walk over processes or threads visits each task that stays on the lists
\* exactly once, in a list of any length that changes under it at any place.
THEOREM WalksAreExact == SafeBuilds /\ Spec => []WalkExact
<1>1. ASSUME IInv, NEW w \in Ctx
      PROVE  /\ pc[w] = "group" /\ g[w] = InitTask => must[w] \subseteq seen[w]
             /\ pc[w] = "body" => At(w) \notin seen[w]
             /\ w = Softirq /\ pc[w] = "thread" => t[w] \notin seen[w]
  <2>1. PICK R \in SUBSET (Task \X Task) : ListInv(R) /\ \A v \in Ctx : CtxInv(R, v)
    BY <1>1 DEF IInv
  <2>2. /\ CtxInv(R, w) /\ prog[w] \in Listers \cup Detailers \cup {"none", "ding"}
        /\ seen[w] \in SUBSET Task /\ must[w] \in SUBSET Task
        /\ \A x \in Task : ~Below(R, x, x)
    BY <1>1, <2>1, CtxTypes DEF IInv, ListInv, OrderInv, StrictOrder
  <2>3. pc[w] \in {"group", "body", "thread"} => prog[w] = "foreach" \/ prog[w] \in ThreadWalkers
    BY <2>2 DEF CtxInv, Place, Listers, Detailers, ThreadWalkers, Reading
  <2>4. pc[w] = "group" /\ g[w] = InitTask => must[w] \subseteq seen[w]
    BY <2>2, <2>3, ConstantsAssumption DEF CtxInv, WalkInv
  <2>5. ASSUME pc[w] = "body" PROVE At(w) \notin seen[w]
    <3>1. ~Passed(w)
      BY <2>5 DEF Passed
    <3>2. CASE prog[w] = "foreach"
      BY <2>2, <2>5, <3>1, <3>2 DEF CtxInv, WalkInv, Pointers, Locked, At
    <3>3. CASE prog[w] \in ThreadWalkers
      <4>1. At(w) = t[w] /\ t[w] \in Task /\ g[w] \in Task /\ leader[t[w]] = g[w]
        BY <2>2, <2>5, <3>3 DEF CtxInv, Pointers, Locked, At, ThreadWalkers
      <4> QED
        BY <2>2, <3>1, <3>3, <4>1 DEF CtxInv, WalkInv
    <3> QED
      BY <2>3, <2>5, <3>2, <3>3
  <2>6. ASSUME w = Softirq, pc[w] = "thread" PROVE t[w] \notin seen[w]
    <3>1. ~Passed(w) /\ prog[w] \in ThreadWalkers
      BY <2>2, <2>6 DEF Passed, CtxInv, Place, ThreadWalkers
    <3>2. t[w] \in Task => leader[t[w]] = g[w] /\ g[w] \in Task
      BY <2>2, <2>6, <3>1 DEF CtxInv, Pointers
    <3> QED
      BY <2>2, <3>1, <3>2 DEF CtxInv, WalkInv
  <2> QED
    BY <2>4, <2>5, <2>6
<1>2. IInv => WalkExact
  BY <1>1 DEF WalkExact
<1> QED
  BY <1>2, Invariance, PTL

\* The timer needs none of this: its invariant is inductive by itself.
Placed == pc = [w \in Ctx |-> pc[w]]

\* A walker's step leaves the timer and the place of ding alone.
LEMMA WalkersLeaveTimer ==
    ASSUME Placed, NEW w \in Walker, NEW from, NEW to, Go(w, from, to)
    PROVE  Placed' /\ pc'[Softirq] = pc[Softirq]
  BY ConstantsAssumption DEF Go, Placed, Ctx

\* del_timer_sync leaves neither an armed timer nor a running callback behind,
\* whatever the kernel's build and whatever else runs on it.
THEOREM CallbackInModule == Spec => []TimerInModule
<1>1. Init => Placed /\ TimerInModule
  BY DEF Init, Placed, TimerInModule, Ctx
<1>2. ASSUME Placed, TimerInModule, [Next]_vars PROVE Placed' /\ TimerInModule'
  <2>1. ASSUME NEW w \in Walker, taskinfo_read(w) PROVE UNCHANGED timer /\ \E from, to : Go(w, from, to)
    BY <2>1 DEF taskinfo_read, ReadBegins, ReadSteps, Call, FirstProcess, task_lock, GetAndPrint, CondResched,
                PutTask, TaskUnlock, ReadNext, ReadLeaves, ReadReturns, MoveG, timer
  <2>2. ASSUME NEW w \in Walker, showthrds(w) PROVE UNCHANGED timer /\ \E from, to : Go(w, from, to)
    BY <2>2 DEF showthrds, ShowBegins, ShowSteps, FirstProcess, task_lock, GetAndPrint, PutTask, TaskUnlock,
                FirstThread, NextProcess, NextThread, ShowEnds, MoveG, MoveT, timer
  <2>3. ASSUME NEW w \in Walker, NEW x \in Task, taskdtl_init(w, x) \/ DisplayBegins(w, x)
        PROVE  UNCHANGED timer /\ \E from, to : Go(w, from, to)
    BY <2>3 DEF taskdtl_init, DisplayBegins, Call
  <2>4. ASSUME NEW w \in Walker, disp_task_details(w) \/ display_task_details(w)
        PROVE  UNCHANGED timer /\ \E from, to : Go(w, from, to)
    BY <2>4 DEF disp_task_details, display_task_details, DetailsLock, DetailsTask, DetailsMm, DetailsRest,
                DisplayLock, DisplayTask, DisplayMm, DisplayRest, DisplayAlive, DisplayDead, DetailsEnd,
                task_lock, Pass
  <2>5. CASE Tasks
    BY <1>2, <2>5 DEF Tasks, ForkProcess, ForkThread, NewTask, ExitMm, ReleaseTask, DelayedPut, walkers, timer,
                      Placed, TimerInModule
  <2>6. CASE ding
    <3>1. Softirq \in Ctx
      BY DEF Ctx
    <3>2. UNCHANGED vmod /\ \E from, to : Go(Softirq, from, to)
      BY <2>6 DEF ding, DingBegins, FirstProcess, FirstThread, NextProcess, NextThread, MoveT, MoveG, DingTest,
                  DingRearms, DingReturns, Pass, timer
    <3>3. Placed'
      BY <1>2, <3>1, <3>2 DEF Placed, Go
    <3>4. vmod # "out"
      <4>1. CASE DingBegins
        BY <1>2, <4>1 DEF DingBegins, TimerInModule
      <4>2. CASE ~DingBegins
        BY <1>2, <2>6, <4>2 DEF ding, FirstThread, NextProcess, NextThread, MoveT, MoveG, DingTest,
                  DingRearms, DingReturns, Pass, Go, TimerInModule
      <4> QED
        BY <4>1, <4>2
    <3> QED
      BY <3>2, <3>3, <3>4 DEF TimerInModule
  <2>7. CASE timer_simple_init \/ Rmmod \/ timer_simple_exit
    BY <1>2, <2>7 DEF timer_simple_init, Rmmod, timer_simple_exit, walkers, Placed, TimerInModule
  <2>8. CASE UNCHANGED vars
    BY <1>2, <2>8 DEF vars, walkers, timer, Placed, TimerInModule
  <2>9. ASSUME NEW w \in Walker, UNCHANGED timer, \E from, to : Go(w, from, to) PROVE Placed' /\ TimerInModule'
    BY <1>2, <2>9, WalkersLeaveTimer DEF TimerInModule, timer
  <2> QED
    BY <1>2, <2>1, <2>2, <2>3, <2>4, <2>5, <2>6, <2>7, <2>8, <2>9 DEF Next
<1>3. Spec => [](Placed /\ TimerInModule)
  BY <1>1, <1>2, PTL DEF Spec
<1> QED
  BY <1>3, PTL
=============================================================================
