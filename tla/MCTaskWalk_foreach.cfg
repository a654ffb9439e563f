\* taskinfo_read on a kernel that does not count spinlocks.
SPECIFICATION Spec
CONSTANTS
    Task = {t1, t2}
    Walker = {w1}
    Softirq = Softirq
    InitTask = InitTask
    Nil = Nil
    Programs <- ForeachAnywhere
INVARIANTS
    NoStaleTask
