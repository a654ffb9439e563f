\* Up to four threads increment the counter.
SPECIFICATION FairSpec
CONSTANTS
    MAX_THREADS = 4
    Args <- ArgValues
INVARIANTS
    CountBounds
    PrintedCountIsFinal
PROPERTIES
    MainEnds
