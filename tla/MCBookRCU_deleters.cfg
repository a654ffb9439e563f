\* Two tasks that add, delete and walk.  Two addresses, so that kzalloc runs
\* out of memory too; no symmetry, for the liveness properties.
SPECIFICATION FairSpec
CONSTANTS
    upd = upd
    rd = rd
    dl = dl
    Books = Books
    Null = Null
    Poison = Poison
    Nobody = Nobody
    Tasks = {rd, dl}
    Nodes = {n1, n2}
    Ids = {0}
    Modes = {0, 1}
    Calls <- CallsDeleters
INVARIANTS
    TakesOutLinkedBook
PROPERTIES
    CallsReturn
    UnlinkedBooksFreed
