----------------------------- MODULE BookShelf -----------------------------
(***************************************************************************)
(* What the book functions of ksync/rcu_example/list_rcu_example.c promise *)
(* their callers, without pointers, locks or memory: a shelf of books on   *)
(* which each successful call takes effect in one step.                    *)
(***************************************************************************)
EXTENDS Naturals, Sequences, SequencesExt

CONSTANT Ids

VARIABLE shelf      \* the books in list order

Book(i, b) == [id |-> i, borrow |-> b]

Init == shelf = <<>>

\* add_book puts the book at the front.
Add(i) == shelf' = <<Book(i, 0)>> \o shelf

\* borrow_book and return_book change one book with that id, and only when
\* it is not in the wanted state yet.
Borrow(i) ==
    \E k \in DOMAIN shelf :
        shelf[k] = Book(i, 0) /\ shelf' = [shelf EXCEPT ![k] = Book(i, 1)]

GiveBack(i) ==
    \E k \in DOMAIN shelf :
        shelf[k] = Book(i, 1) /\ shelf' = [shelf EXCEPT ![k] = Book(i, 0)]

\* delete_book removes the first book with that id.
Delete(i) ==
    \E k \in DOMAIN shelf :
        /\ shelf[k].id = i
        /\ \A j \in 1..(k - 1) : shelf[j].id # i
        /\ shelf' = RemoveAt(shelf, k)

Next == \E i \in Ids : Add(i) \/ Borrow(i) \/ GiveBack(i) \/ Delete(i)

Spec == Init /\ [][Next]_shelf
=============================================================================
