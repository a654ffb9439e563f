\* Six modules, four nodes, sizes from 6 up to 12, steps of ksz_test of either
\* sign; device nodes with minor 0 and 1, buffers of 0 to 4 bytes and texts of
\* 1 to 4.
SPECIFICATION TDFairSpec
CONSTANTS
    Modules <- AllModules
    Steps <- AllSteps
    FirstNum = 6
    KmallocStep = 3
    MaxKmalloc = 12
    Minors = {0, 1}
    Args <- AllArgs
    MaxText = 4
INVARIANTS
    NothingLeftBehind
    ListFreedOnce
    
    ListPrinted
PROPERTIES
    LoadingEnds
