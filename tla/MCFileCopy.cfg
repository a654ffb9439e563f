\* The library's five functions in any order on six bytes with three lines, the
\* middle one empty, and buffers of 0 to 3 bytes; the programs on a source of up
\* to five bytes, two pages, with a target that was shorter or longer.
SPECIFICATION FCFairSpec
CONSTANTS
    Stream = 6
    Newlines = {2, 3, 5}
    BLKSIZE = 2
    Sizes = {0, 1, 3}
    Calls <- AllFns
    INT_MAX = 5
    Progs <- AllProgs
    PAGE = 3
    LINE = 2
    LABELS = 5
    OldLen = 6
INVARIANTS
    WrittenInOrder
    BufferBounds
    ReturnsExact
    TargetBytes
    CopyExtent
    BusErrorOnlyIfShrunk
    HexDumpExact
PROPERTIES
    CallsEnd
    ProgramsEnd
