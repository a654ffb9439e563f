-------------------------- MODULE MCBookRefinement --------------------------
(***************************************************************************)
(* The pointer-level list of BookRCU implements the shelf of BookShelf.    *)
(***************************************************************************)
EXTENDS MCBookRCU

\* The k-th struct book met by a walk from the list head.
At[k \in Nat] == IF k = 0 THEN Books ELSE nxt[At[k - 1]]

BooksOnList ==
    [k \in 1..Cardinality(Linked) |-> [id |-> bid[At[k]], borrow |-> brw[At[k]]]]

Shelf == INSTANCE BookShelf WITH shelf <- BooksOnList, Ids <- Ids

\* Each list_add_rcu, list_replace_rcu and list_del_rcu is one step of the
\* shelf (Add, Borrow or GiveBack, Delete); every other step of every
\* function, and every grace period and callback, changes nothing on it.
ImplementsShelf == Shelf!Spec
=============================================================================
