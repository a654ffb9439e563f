----------------------------- MODULE MCBookRCU -----------------------------
(***************************************************************************)
(* Instances of BookRCU for TLC: which tasks there are and what each calls *)
(***************************************************************************)
EXTENDS BookRCU, TLC

CONSTANTS upd, rd, dl

\* One updating task, as test_example has, and a task that walks the list.
CallsUpdater ==
    [t \in Tasks |->
        IF t = upd THEN {"add", "borrow", "return", "delete", "is_borrowed"}
                   ELSE {"print"}]

\* Tasks that only add, delete and print: books_lock is enough for these.
CallsDeleters == [t \in Tasks |-> {"add", "delete", "print"}]

\* Two tasks, one borrowing while the other deletes.
CallsBorrowDelete ==
    [t \in Tasks |-> IF t = upd THEN {"add", "borrow"} ELSE {"delete"}]

\* A task asks is_borrowed_book while another deletes.
CallsIsBorrowed ==
    [t \in Tasks |-> IF t = upd THEN {"add", "delete"} ELSE {"is_borrowed"}]

NodeSymmetry == Permutations(Nodes)
=============================================================================
