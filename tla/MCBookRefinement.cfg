\* One updater and one reader; reclaim through synchronize_rcu or call_rcu.  The
\* list also implements the abstract shelf.
SPECIFICATION Spec
CONSTANTS
    upd = upd
    rd = rd
    dl = dl
    Books = Books
    Null = Null
    Poison = Poison
    Nobody = Nobody
    Tasks = {upd, rd}
    Nodes = {n1, n2, n3}
    Ids = {0, 1}
    Modes = {0, 1}
    Calls <- CallsUpdater
SYMMETRY NodeSymmetry
INVARIANTS
    NoUseAfterFree
    OneReclaimer
    ListConsistent
    LookupNeverMisses
PROPERTIES
    UpdatedBookMoves
    ImplementsShelf
