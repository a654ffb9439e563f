\* Liveness: one walker and the timer callback, no symmetry.
SPECIFICATION FairSpec
CONSTANTS
    Task = {t1, t2}
    Walker = {w1}
    Softirq = Softirq
    InitTask = InitTask
    Nil = Nil
    Programs <- LivePrograms
PROPERTIES
    WalksEnd
    RmmodEnds
    TasksFreed
