\* Two walkers and the timer callback against two task_structs that live, die
\* and are reused.
SPECIFICATION Spec
CONSTANTS
    Task = {t1, t2}
    Walker = {w1, w2}
    Softirq = Softirq
    InitTask = InitTask
    Nil = Nil
    Programs <- SafePrograms
SYMMETRY Symmetry
INVARIANTS
    NoStaleTask
    NothingLeaks
    MmStays
    WalkExact
    TimerInModule
