------------------------------ MODULE TaskWalk ------------------------------
(***************************************************************************)
(* The kernel modules that walk the task list or look into a task_struct,  *)
(* against tasks that are created and die meanwhile:                       *)
(*                                                                         *)
(*   foreach/prcs_show/foreach.c       taskinfo_read, all processes        *)
(*   foreach/thrd_show/showthreads.c   showthrds, all threads              *)
(*   vcpu_check/vcpu_check.c           ding, all threads, in a timer       *)
(*   taskdtl/taskdtl_raw/taskdtl.c     disp_task_details of one task       *)
(*   taskdtl/taskdtl_display.c         the same for another module         *)
(*                                                                         *)
(* The task list, the reference count, task_lock, RCU and timers are the   *)
(* kernel's; they are modelled from what this code relies on.  What is     *)
(* printed is left out: a line printed about a task is a read of it.       *)
(***************************************************************************)
EXTENDS Integers, FiniteSets

CONSTANTS
    Task,       \* addresses a task_struct can have
    Walker,     \* kernel contexts that call the modules' functions
    Softirq,    \* the context of the timer callback
    InitTask,   \* init_task: the head of the process list, never freed
    Nil,        \* the end of a thread list; no lock holder
    Programs    \* Programs[b]: what the walkers run on a kernel of build b

\* "preempt": CONFIG_PREEMPT_COUNT is set, so that cond_resched sees that a
\* spinlock is held and does nothing; RCU knows its readers by rcu_read_lock
\* and by disabled preemption.  "none": neither is counted; kernel code is left
\* only where it says so, and RCU takes every such place for the end of a
\* read-side section.
Builds == {"preempt", "none"}

Listers == {"foreach", "showthreads"}
Detailers == {"taskdtl", "display"}

ASSUME ConstantsAssumption ==
    /\ IsFiniteSet(Walker)
    /\ Softirq \notin Walker
    /\ InitTask \notin Task /\ Nil \notin Task /\ InitTask # Nil
    /\ Nil \notin Walker /\ Nil # Softirq
    /\ Programs \in [Builds -> SUBSET (Listers \cup Detailers)]

VARIABLES
    build,      \* how the kernel was built
    life,       \* life[x]: "linked" while x is on the lists, "removed" while
                \*   release_task's reference waits for a grace period, "put"
                \*   when only walkers still hold x, "free"
    leader,     \* leader[x]: the process x is a thread of; x itself if a process
    next,       \* the process list: x->tasks.next
    first,      \* first[x]: x->signal->thread_head.next
    tnext,      \* the thread lists: x->thread_node.next
    usage,      \* usage[x]: the reference count
    alloc_lock, \* alloc_lock[x]: who holds task_lock(x)
    mm,         \* mm[x]: x->mm is not NULL
    gp,         \* gp[x]: the readers x's grace period still waits for
    pc, prog,   \* what each context does next, and in which program
    g, t,       \* its pointers: the process, and the task it looks at
    kbuf,       \* the walkers that own an allocated kbuf
    seen, must, \* tasks a walk has visited; tasks it must visit, as they are
                \*   on the list from its first step on
    pending,    \* vcpu_check: the timer is armed
    vmod        \* vcpu_check: "out", "in" or, during rmmod, "exiting"

kernel == <<life, leader, next, first, tnext, usage, alloc_lock, mm>>
walkers == <<pc, prog, g, t, kbuf, seen, must>>
timer == <<pending, vmod>>
vars == <<build, kernel, gp, walkers, timer>>

Ctx == Walker \cup {Softirq}

TypeOK ==
    /\ build \in Builds
    /\ life \in [Task -> {"free", "linked", "removed", "put"}]
    /\ leader \in [Task -> Task]
    /\ next \in [Task \cup {InitTask} -> Task \cup {InitTask}]
    /\ first \in [Task -> Task \cup {Nil}]
    /\ tnext \in [Task -> Task \cup {Nil}]
    /\ usage \in [Task -> Nat]
    /\ alloc_lock \in [Task -> Walker \cup {Nil}]
    /\ mm \in [Task -> BOOLEAN]
    /\ gp \in [Task -> SUBSET Ctx]
    /\ pc \in [Ctx -> {"idle", "enter", "group", "thread", "body",
                       "resched", "put", "unlock", "step", "copy", "alive",
                       "lock", "task", "mm", "rest", "return"}]
    /\ prog \in [Ctx -> Listers \cup Detailers \cup {"none", "ding"}]
    /\ g \in [Ctx -> Task \cup {InitTask}]
    /\ t \in [Ctx -> Task \cup {Nil}]
    /\ kbuf \in SUBSET Walker
    /\ seen \in [Ctx -> SUBSET Task]
    /\ must \in [Ctx -> SUBSET Task]
    /\ pending \in BOOLEAN
    /\ vmod \in {"out", "in", "exiting"}

\* One process exists when the modules are loaded.
Init ==
    /\ build \in Builds
    /\ \E x \in Task :
        /\ life = [y \in Task |-> IF y = x THEN "linked" ELSE "free"]
        /\ leader = [y \in Task |-> y]
        /\ next = [y \in Task \cup {InitTask} |->
                    IF y = InitTask THEN x ELSE InitTask]
        /\ first = [y \in Task |-> IF y = x THEN x ELSE Nil]
        /\ tnext = [y \in Task |-> Nil]
        /\ usage = [y \in Task |-> IF y = x THEN 1 ELSE 0]
        /\ mm = [y \in Task |-> y = x]
    /\ alloc_lock = [x \in Task |-> Nil]
    /\ gp = [x \in Task |-> {}]
    /\ pc = [w \in Ctx |-> "idle"]
    /\ prog = [w \in Ctx |-> IF w = Softirq THEN "ding" ELSE "none"]
    /\ g = [w \in Ctx |-> InitTask]
    /\ t = [w \in Ctx |-> Nil]
    /\ kbuf = {}
    /\ seen = [w \in Ctx |-> {}]
    /\ must = [w \in Ctx |-> {}]
    /\ pending = FALSE
    /\ vmod = "out"

-----------------------------------------------------------------------------
(* RCU *)

\* Mutant: without rcu_read_lock, RCU sees a walk only while it holds a lock.
InSectionUnprotected(w) ==
    \/ w = Softirq /\ pc[w] # "idle"
    \/ w # Softirq /\ pc[w] \in {"body", "resched", "put", "unlock"}

\* The contexts a grace period that starts now has to wait for.  On a preemptible
\* kernel RCU counts a softirq as a reader since 4.20, when its flavours became
\* one; ding relies on that, as it calls no rcu_read_lock (vcpu_check.c:60).
InSection(w) ==
    \/ w = Softirq /\ pc[w] # "idle"
    \/ w # Softirq /\ build = "none" /\ pc[w] # "idle"
    \/ /\ w # Softirq /\ build = "preempt" /\ prog[w] \in Listers
       /\ pc[w] \notin {"idle", "enter", "copy"}
    \/ /\ w # Softirq /\ build = "preempt" /\ prog[w] \in Detailers
       /\ pc[w] \in {"task", "mm", "rest", "unlock"}

Readers == {w \in Ctx : InSection(w)}

\* Grace periods stop waiting for a context once it has left its section.
GracePeriods == gp' = [x \in Task |-> gp[x] \cap Readers']

-----------------------------------------------------------------------------
(* Tasks come and go *)

Linked(x) == life[x] = "linked"
Listed(x) == x = InitTask \/ (Linked(x) /\ leader[x] = x)

\* copy_process, up to the point where the new task is on the lists.
NewTask(x, l, hasmm) ==
    /\ life[x] = "free"
    /\ life' = [life EXCEPT ![x] = "linked"]
    /\ leader' = [leader EXCEPT ![x] = l]
    /\ usage' = [usage EXCEPT ![x] = 1]
    /\ alloc_lock' = [alloc_lock EXCEPT ![x] = Nil]
    /\ mm' = [mm EXCEPT ![x] = hasmm]
    /\ tnext' = [y \in Task |->
                  IF y # x /\ Linked(y) /\ leader[y] = l /\ tnext[y] = Nil
                  THEN x ELSE IF y = x THEN Nil ELSE tnext[y]]
    /\ UNCHANGED <<build, gp, walkers, timer>>

\* A process joins the end of the process list.  A kernel thread has no mm.
ForkProcess(x, hasmm) ==
    /\ NewTask(x, x, hasmm)
    /\ next' = [y \in Task \cup {InitTask} |->
                 IF y # x /\ Listed(y) /\ next[y] = InitTask
                 THEN x ELSE IF y = x THEN InitTask ELSE next[y]]
    /\ first' = [first EXCEPT ![x] = x]

\* A thread joins the end of its process's thread list.
ForkThread(x, l) ==
    /\ Linked(l) /\ leader[l] = l /\ mm[l]
    /\ NewTask(x, l, TRUE)
    /\ first' = [first EXCEPT ![x] = Nil, ![l] = IF first[l] = Nil THEN x ELSE @]
    /\ UNCHANGED next

\* exit_mm: the mm goes away under task_lock.
ExitMm(x) ==
    /\ Linked(x) /\ mm[x] /\ alloc_lock[x] = Nil
    /\ mm' = [mm EXCEPT ![x] = FALSE]
    /\ UNCHANGED <<build, life, leader, next, first, tnext, usage, alloc_lock,
                   gp, walkers, timer>>

\* release_task: x leaves the lists and keeps its own links; its reference is
\* dropped after a grace period.  A process outlives its other threads.
ReleaseTask(x) ==
    /\ Linked(x) /\ ~mm[x]
    /\ \A y \in Task : (Linked(y) /\ leader[y] = x) => y = x
    /\ life' = [life EXCEPT ![x] = "removed"]
    /\ next' = [y \in Task \cup {InitTask} |->
                 IF Listed(y) /\ next[y] = x THEN next[x] ELSE next[y]]
    /\ first' = [y \in Task |-> IF first[y] = x THEN tnext[x] ELSE first[y]]
    /\ tnext' = [y \in Task |->
                  IF Linked(y) /\ tnext[y] = x THEN tnext[x] ELSE tnext[y]]
    /\ gp' = [gp EXCEPT ![x] = Readers]
    /\ must' = [w \in Ctx |-> must[w] \ {x}]
    /\ UNCHANGED <<build, leader, usage, alloc_lock, mm,
                   pc, prog, g, t, kbuf, seen, timer>>

\* One reference to x is dropped; the last one frees it, with its links.
put_task_struct(x, left) ==
    /\ usage' = [usage EXCEPT ![x] = @ - 1]
    /\ IF usage[x] = 1
       THEN /\ life' = [life EXCEPT ![x] = "free"]
            /\ leader' = [leader EXCEPT ![x] = x]
            /\ next' = [next EXCEPT ![x] = InitTask]
            /\ first' = [first EXCEPT ![x] = Nil]
            /\ tnext' = [tnext EXCEPT ![x] = Nil]
       ELSE /\ life' = [life EXCEPT ![x] = left]
            /\ UNCHANGED <<leader, next, first, tnext>>

\* The grace period is over: delayed_put_task_struct.
DelayedPut(x) ==
    /\ life[x] = "removed" /\ gp[x] = {}
    /\ put_task_struct(x, "put")
    /\ UNCHANGED <<build, alloc_lock, mm, gp, walkers, timer>>

-----------------------------------------------------------------------------
(* Steps the programs share *)

Go(w, from, to) == pc[w] = from /\ pc' = [pc EXCEPT ![w] = to]

\* A step that changes nothing but the place of w.
Pass(w, from, to) ==
    /\ Go(w, from, to)
    /\ UNCHANGED <<build, kernel, prog, g, t, kbuf, seen, must, timer>>
    /\ GracePeriods

\* A step that loads a pointer.
MoveT(w, from, to, x) ==
    /\ Go(w, from, to)
    /\ t' = [t EXCEPT ![w] = x]
    /\ UNCHANGED <<build, kernel, prog, g, kbuf, seen, must, timer>>
    /\ GracePeriods

MoveG(w, from, to, x) ==
    /\ Go(w, from, to)
    /\ g' = [g EXCEPT ![w] = x]
    /\ UNCHANGED <<build, kernel, prog, t, kbuf, seen, must, timer>>
    /\ GracePeriods

\* A function of program p is called.
Call(w, p, to) ==
    /\ w \in Walker /\ p \in Programs[build]
    /\ Go(w, "idle", to)
    /\ prog' = [prog EXCEPT ![w] = p]

\* A function returns to its caller.
Return(w) == prog' = [prog EXCEPT ![w] = "none"]

\* A context is done with its pointers; the walk's ghost sets are emptied.
Forget(w) ==
    /\ g' = [g EXCEPT ![w] = InitTask]
    /\ t' = [t EXCEPT ![w] = Nil]
    /\ seen' = [seen EXCEPT ![w] = {}]
    /\ must' = [must EXCEPT ![w] = {}]

\* The task w works on: the variable p or t of its function.
At(w) == IF prog[w] = "foreach" THEN g[w] ELSE t[w]

task_lock(w, from, to) ==
    /\ Go(w, from, to)
    /\ At(w) \in Task
    /\ alloc_lock[At(w)] = Nil
    /\ alloc_lock' = [alloc_lock EXCEPT ![At(w)] = w]
    /\ UNCHANGED <<build, life, leader, next, first, tnext, usage, mm,
                   prog, g, t, kbuf, seen, must, timer>>
    /\ GracePeriods

\* get_task_struct, and what is printed about the task while it is locked.
GetAndPrint(w, to) ==
    /\ Go(w, "body", to)
    /\ usage' = [usage EXCEPT ![At(w)] = @ + 1]
    /\ seen' = [seen EXCEPT ![w] = @ \cup {At(w)}]
    /\ UNCHANGED <<build, life, leader, next, first, tnext, alloc_lock, mm,
                   prog, g, t, kbuf, must, timer>>
    /\ GracePeriods

\* Mutant: the reference is not given back.
PutForgotten(w) == Pass(w, "put", "unlock")

\* put_task_struct comes before task_unlock.
PutTask(w) ==
    /\ Go(w, "put", "unlock")
    /\ put_task_struct(At(w), life[At(w)])
    /\ UNCHANGED <<build, alloc_lock, mm, prog, g, t, kbuf, seen, must, timer>>
    /\ GracePeriods

\* Mutant: the lock is not given back.
UnlockForgotten(w) == Pass(w, "unlock", "step")

TaskUnlock(w) ==
    /\ Go(w, "unlock", "step")
    /\ alloc_lock' = [alloc_lock EXCEPT ![At(w)] = Nil]
    /\ UNCHANGED <<build, life, leader, next, first, tnext, usage, mm,
                   prog, g, t, kbuf, seen, must, timer>>
    /\ GracePeriods

\* The walk starts behind init_task.
FirstProcess(w, from, p) ==
    /\ Go(w, from, "group")
    /\ prog' = [prog EXCEPT ![w] = p]
    /\ g' = [g EXCEPT ![w] = next[InitTask]]
    /\ must' = [must EXCEPT ![w] = {x \in Task :
                  Linked(x) /\ (p = "foreach" => leader[x] = x)}]
    /\ UNCHANGED <<build, kernel, t, kbuf, seen, vmod>>
    /\ GracePeriods

\* for_each_process_thread: the first thread of process g.
FirstThread(w) ==
    /\ g[w] # InitTask
    /\ MoveT(w, "group", "thread", first[g[w]])

\* The end of g's threads is reached: the next process.
NextProcess(w) ==
    /\ t[w] = Nil
    /\ MoveG(w, "thread", "group", next[g[w]])

\* Mutant: the walk goes from a process to the next one, past its threads.
NextThreadSkips(w) == MoveT(w, "step", "thread", Nil)

NextThread(w) == MoveT(w, "step", "thread", tnext[t[w]])

-----------------------------------------------------------------------------
(* foreach.c: taskinfo_read *)

\* kzalloc returns a buffer.  (Otherwise it returns -ENOMEM at once.)
ReadBegins(w) ==
    /\ Call(w, "foreach", "enter")
    /\ kbuf' = kbuf \cup {w}
    /\ UNCHANGED <<build, kernel, g, t, seen, must, timer>>
    /\ GracePeriods

\* Where spinlocks are not counted, cond_resched may give the processor away:
\* to RCU, everything w was reading until then is over.
CondResched(w) ==
    /\ Go(w, "resched", "put")
    /\ \E switched \in {{}, IF build = "none" THEN {w} ELSE {}} :
        gp' = [x \in Task |-> gp[x] \ switched]
    /\ UNCHANGED <<build, kernel, prog, g, t, kbuf, seen, must, timer>>

ReadNext(w) == MoveG(w, "step", "group", next[g[w]])

\* The loop ends at init_task: rcu_read_unlock.
ReadLeaves(w) ==
    /\ g[w] = InitTask
    /\ Go(w, "group", "copy")
    /\ Forget(w)
    /\ UNCHANGED <<build, kernel, prog, kbuf, timer>>
    /\ GracePeriods

\* Mutant: the kernel buffer is not freed.
ReadReturnsLeaking(w) ==
    /\ Go(w, "copy", "idle") /\ Return(w)
    /\ UNCHANGED <<build, kernel, g, t, kbuf, seen, must, timer>>
    /\ GracePeriods

\* copy_to_user works or fails (-EFAULT); kbuf is freed either way.
ReadReturns(w) ==
    /\ Go(w, "copy", "idle") /\ Return(w)
    /\ kbuf' = kbuf \ {w}
    /\ UNCHANGED <<build, kernel, g, t, seen, must, timer>>
    /\ GracePeriods

ReadSteps(w) ==
    /\ w \in Walker /\ prog[w] = "foreach"
    /\ \/ FirstProcess(w, "enter", "foreach") /\ UNCHANGED pending
       \/ task_lock(w, "group", "body") \/ GetAndPrint(w, "resched")
       \/ CondResched(w) \/ PutTask(w) \/ TaskUnlock(w) \/ ReadNext(w)
       \/ ReadLeaves(w) \/ ReadReturns(w)

taskinfo_read(w) == ReadBegins(w) \/ ReadSteps(w)

-----------------------------------------------------------------------------
(* showthreads.c: showthrds *)

ShowBegins(w) ==
    /\ Call(w, "showthreads", "group")
    /\ FirstProcess(w, "idle", "showthreads")
    /\ UNCHANGED pending

ShowEnds(w) ==
    /\ g[w] = InitTask
    /\ Go(w, "group", "idle") /\ Return(w)
    /\ Forget(w)
    /\ UNCHANGED <<build, kernel, kbuf, timer>>
    /\ GracePeriods

ShowSteps(w) ==
    /\ w \in Walker /\ prog[w] = "showthreads"
    /\ \/ FirstThread(w) \/ NextProcess(w)
       \/ task_lock(w, "thread", "body") \/ GetAndPrint(w, "put")
       \/ PutTask(w) \/ TaskUnlock(w) \/ NextThread(w)
       \/ ShowEnds(w)

showthrds(w) == ShowBegins(w) \/ ShowSteps(w)

-----------------------------------------------------------------------------
(* vcpu_check.c *)

\* The timer expires: ding starts its walk.
DingBegins ==
    /\ pending
    /\ FirstProcess(Softirq, "idle", "ding")
    /\ pending' = FALSE

\* t->flags is tested.
DingTest ==
    /\ t[Softirq] # Nil
    /\ Go(Softirq, "thread", "step")
    /\ seen' = [seen EXCEPT ![Softirq] = @ \cup {t[Softirq]}]
    /\ UNCHANGED <<build, kernel, prog, g, t, kbuf, must, timer>>
    /\ GracePeriods

\* Mutant: the callback looks for PF_VCPU again instead of arming the timer.
DingStaysIn ==
    /\ g[Softirq] = InitTask
    /\ MoveG(Softirq, "group", "group", next[InitTask])

\* mod_timer.
DingRearms ==
    /\ g[Softirq] = InitTask
    /\ Go(Softirq, "group", "return")
    /\ Forget(Softirq)
    /\ pending' = TRUE
    /\ UNCHANGED <<build, kernel, prog, kbuf, vmod>>
    /\ GracePeriods

DingReturns == Pass(Softirq, "return", "idle")

ding ==
    \/ DingBegins
    \/ FirstThread(Softirq) \/ NextProcess(Softirq) \/ NextThread(Softirq)
    \/ DingTest \/ DingRearms \/ DingReturns

\* add_timer.
timer_simple_init ==
    /\ vmod = "out"
    /\ vmod' = "in" /\ pending' = TRUE
    /\ UNCHANGED <<build, kernel, gp, walkers>>

\* rmmod: from here on timer_simple_exit runs.
Rmmod ==
    /\ vmod = "in"
    /\ vmod' = "exiting"
    /\ UNCHANGED <<build, kernel, gp, walkers, pending>>

\* Mutant: del_timer, which does not wait for a callback that is running.
del_timer ==
    /\ vmod = "exiting"
    /\ vmod' = "out" /\ pending' = FALSE
    /\ UNCHANGED <<build, kernel, gp, walkers>>

\* del_timer_sync gets hold of the timer while ding is not running.
timer_simple_exit ==
    /\ vmod = "exiting" /\ pc[Softirq] = "idle"
    /\ vmod' = "out" /\ pending' = FALSE
    /\ UNCHANGED <<build, kernel, gp, walkers>>

-----------------------------------------------------------------------------
(* taskdtl.c and taskdtl_display.c *)

\* taskdtl_init: pid_task(find_vpid(pid)) finds x, without a lock or a
\* reference.  (Without a task of that pid it returns -EINVAL at once.)
taskdtl_init(w, x) ==
    /\ Linked(x)
    /\ Call(w, "taskdtl", "lock")
    /\ t' = [t EXCEPT ![w] = x]
    /\ UNCHANGED <<build, kernel, g, kbuf, seen, must, timer>>
    /\ GracePeriods

\* Another module passes a task it has found to taskdtl_display.c.
DisplayBegins(w, x) ==
    /\ Linked(x)
    /\ Call(w, "display", "alive")
    /\ t' = [t EXCEPT ![w] = x]
    /\ UNCHANGED <<build, kernel, g, kbuf, seen, must, timer>>
    /\ GracePeriods

\* Mutant: the details are read without task_lock.
DetailsNoLock(w) == Pass(w, "lock", "task")

DetailsLock(w) == task_lock(w, "lock", "task")

\* Ids, state, flags and scheduling; then whether there is an mm.
DetailsTask(w) == Pass(w, "task", IF mm[t[w]] THEN "mm" ELSE "rest")

\* What p->mm points to.
DetailsMm(w) == Pass(w, "mm", "rest")

\* Times, counts and the hardware context.
DetailsRest(w) == Pass(w, "rest", "unlock")

DetailsEnd(w) ==
    /\ Go(w, "unlock", "idle") /\ Return(w)
    /\ alloc_lock' = [alloc_lock EXCEPT ![t[w]] = Nil]
    /\ Forget(w)
    /\ UNCHANGED <<build, life, leader, next, first, tnext, usage, mm,
                   kbuf, timer>>
    /\ GracePeriods

disp_task_details(w) ==
    /\ w \in Walker /\ prog[w] = "taskdtl"
    /\ \/ DetailsLock(w) \/ DetailsTask(w) \/ DetailsMm(w) \/ DetailsRest(w)
       \/ DetailsEnd(w)

\* The disp_task_details of taskdtl_display.c: it also looks whether the task is
\* still alive, but before it takes the lock and without keeping the task.

\* pid_alive fails: -EINVAL.
DisplayDead(w) ==
    /\ Go(w, "alive", "idle") /\ Return(w)
    /\ ~Linked(t[w])
    /\ Forget(w)
    /\ UNCHANGED <<build, kernel, kbuf, timer>>
    /\ GracePeriods

DisplayAlive(w) ==
    /\ Pass(w, "alive", "lock")
    /\ Linked(t[w])

DisplayLock(w) == task_lock(w, "lock", "task")

\* Ids, state, thread count, scheduling and policy; then whether there is an mm.
DisplayTask(w) == Pass(w, "task", IF mm[t[w]] THEN "mm" ELSE "rest")

\* What p->mm points to: page tables, counters and the user-space segments.
DisplayMm(w) == Pass(w, "mm", "rest")

\* Times, faults, I/O counts and the hardware context.
DisplayRest(w) == Pass(w, "rest", "unlock")

display_task_details(w) ==
    /\ w \in Walker /\ prog[w] = "display"
    /\ \/ DisplayDead(w) \/ DisplayAlive(w)
       \/ DisplayLock(w) \/ DisplayTask(w) \/ DisplayMm(w) \/ DisplayRest(w)
       \/ DetailsEnd(w)

-----------------------------------------------------------------------------
Tasks ==
    \/ \E x \in Task, m \in BOOLEAN : ForkProcess(x, m)
    \/ \E x, l \in Task : ForkThread(x, l)
    \/ \E x \in Task : ExitMm(x) \/ ReleaseTask(x) \/ DelayedPut(x)

Next ==
    \/ Tasks
    \/ \E w \in Walker : taskinfo_read(w) \/ showthrds(w)
    \/ \E w \in Walker, x \in Task : taskdtl_init(w, x) \/ DisplayBegins(w, x)
    \/ \E w \in Walker : disp_task_details(w) \/ display_task_details(w)
    \/ ding \/ timer_simple_init \/ Rmmod \/ timer_simple_exit

Spec == Init /\ [][Next]_vars

\* Contexts that have work to do run, spinlocks are granted in turn, grace
\* periods end, the timer expires, and del_timer_sync, which tries again and
\* again, hits one of the gaps between two callbacks.  Nobody has to call
\* anything, and no task has to start or to die.
Locks(w) ==
    \/ prog[w] = "foreach" /\ task_lock(w, "group", "body")
    \/ prog[w] = "showthreads" /\ task_lock(w, "thread", "body")
    \/ prog[w] = "taskdtl" /\ DetailsLock(w)
    \/ prog[w] = "display" /\ DisplayLock(w)

Fairness ==
    /\ \A w \in Walker :
        /\ WF_vars(ReadSteps(w) \/ ShowSteps(w)
                   \/ disp_task_details(w) \/ display_task_details(w))
        /\ SF_vars(Locks(w))
    /\ \A x \in Task : WF_vars(DelayedPut(x))
    /\ WF_vars(ding)
    /\ SF_vars(timer_simple_exit)

FairSpec == Spec /\ Fairness

-----------------------------------------------------------------------------
(* Properties *)

\* The task_structs the next step of w reads or writes.
Touches(w) ==
    {x \in Task :
        \/ x = t[w] /\ prog[w] # "foreach" /\ pc[w] \notin {"idle", "group"}
        \/ x = g[w] /\ pc[w] \in {"group", "thread", "body"}
        \/ x = g[w] /\ prog[w] = "foreach" /\ pc[w] \in {"put", "unlock", "step"}}

\* No walk and no display of details touches a task_struct that has been freed,
\* whatever dies under it: rcu_read_lock (foreach.c:43, showthreads.c:28) and
\* softirq context protect the whole walk, including the unlock after the put
\* and the step to the next task.
NoStaleTask == \A w \in Ctx : \A x \in Touches(w) : life[x] # "free"

\* The walkers between get_task_struct(x) and put_task_struct(x).
Pinning(x) == {w \in Walker : At(w) = x /\ pc[w] \in {"resched", "put"}}

\* A task's reference count is what release_task and the walkers between
\* get_task_struct and put_task_struct hold; a context that has returned has
\* left no lock held and no kbuf allocated, and only its holder has a lock.
NothingLeaks ==
    /\ \A x \in Task :
        usage[x] = (IF life[x] \in {"linked", "removed"} THEN 1 ELSE 0)
                   + Cardinality(Pinning(x))
    /\ \A x \in Task : alloc_lock[x] # Nil => At(alloc_lock[x]) = x
    /\ \A w \in kbuf : pc[w] # "idle"

\* disp_task_details tests p->mm once and then reads through it dozens of
\* times: the mm cannot go away in between (taskdtl.c:190-272,
\* taskdtl_display.c:174-242).
MmStays == \A w \in Walker : pc[w] = "mm" => mm[t[w]]

\* A walk visits every task that is on the list from its first step to its
\* last, and none twice, whatever joins and leaves the list meanwhile.
WalkExact ==
    \A w \in Ctx :
        /\ pc[w] = "group" /\ g[w] = InitTask => must[w] \subseteq seen[w]
        /\ pc[w] = "body" => At(w) \notin seen[w]
        /\ w = Softirq /\ pc[w] = "thread" => t[w] \notin seen[w]

\* While vcpu_check's timer is armed or its callback runs, the module's code
\* is there: rmmod neither leaves the timer behind nor overtakes the callback
\* (vcpu_check.c:95).
TimerInModule == pending \/ pc[Softirq] # "idle" => vmod # "out"

\* Every walk of foreach, showthreads and ding ends, also while tasks keep
\* coming and going in front of it.
WalksEnd == \A w \in Ctx : pc[w] # "idle" ~> pc[w] = "idle"

\* rmmod of vcpu_check ends although ding arms the timer again and again.
RmmodEnds == vmod = "exiting" ~> vmod = "out"

\* A task that has left the list is freed in the end: no walker keeps it.
TasksFreed == \A x \in Task : life[x] = "removed" ~> life[x] = "free"
=============================================================================
