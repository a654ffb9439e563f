\* insmod's own script; four addresses, so that the asynchronous test
\* can have replaced both books before any callback has run.
SPECIFICATION MFairSpec
CONSTANTS
    Books = Books
    Null = Null
    Poison = Poison
    Nobody = Nobody
    insmod = insmod
    Tasks = {insmod}
    Nodes = {n1, n2, n3, n4}
    Ids = {0, 1}
    Modes = {0, 1}
    Calls <- AllCalls
CHECK_DEADLOCK FALSE
INVARIANTS
    ListEmptyBetweenTests
PROPERTIES
    BooksFreedUnlessUnloaded
