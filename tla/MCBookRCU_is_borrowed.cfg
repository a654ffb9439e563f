\* is_borrowed_book called while another task deletes the book.
SPECIFICATION Spec
CONSTANTS
    upd = upd
    rd = rd
    dl = dl
    Books = Books
    Null = Null
    Poison = Poison
    Nobody = Nobody
    Tasks = {upd, rd}
    Nodes = {n1, n2}
    Ids = {0}
    Modes = {0, 1}
    Calls <- CallsIsBorrowed
INVARIANT
    NoUseAfterFree
