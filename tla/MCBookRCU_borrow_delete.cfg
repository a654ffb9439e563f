\* borrow_book and delete_book called by two tasks.
SPECIFICATION Spec
CONSTANTS
    upd = upd
    rd = rd
    dl = dl
    Books = Books
    Null = Null
    Poison = Poison
    Nobody = Nobody
    Tasks = {upd, rd}
    Nodes = {n1, n2}
    Ids = {0}
    Modes = {0, 1}
    Calls <- CallsBorrowDelete
INVARIANT
    TakesOutLinkedBook
