\* readtimed with every kind of timeout, on a clock of six seconds.  The clock
\* stops at LastTick, and then so does the model.
SPECIFICATION FairSpec
CONSTANTS
    MILLION = 3
    FD_SETSIZE = 1
    Fds <- SomeFds
    Timeouts <- SomeTimeouts
    LastCall = 2
    LastTick = 6
INVARIANTS
    TypeOK
    NeverEarly
    WaitEndsOnTime
PROPERTIES
    TimedReadReturns
CHECK_DEADLOCK FALSE
