------------------------------ MODULE BookRCU ------------------------------
(***************************************************************************)
(* The RCU-protected book list of ksync/rcu_example/list_rcu_example.c.    *)
(*                                                                         *)
(* Tasks call add_book, borrow_book, return_book, is_borrowed_book,        *)
(* delete_book and print_book concurrently.  The list is the circular      *)
(* doubly linked `books` list, at the level of its next and prev pointers: *)
(* a task that walks it reads one pointer at a time.  Memory is a set of   *)
(* addresses that kzalloc hands out and kfree takes back, so an address    *)
(* can be reused, and kzalloc can fail at every call.                      *)
(*                                                                         *)
(* A step is what a task does between two accesses to shared memory.  Each *)
(* list_xxx_rcu primitive is one step: it makes its change visible to      *)
(* walkers by one pointer store, and books_lock orders it with the others. *)
(***************************************************************************)
EXTENDS Naturals, FiniteSets

CONSTANTS
    Tasks,          \* the tasks that call the book functions
    Nodes,          \* the addresses at which a struct book can be allocated
    Ids,            \* book ids
    Calls,          \* Calls[t]: the functions task t calls
    Modes,          \* the values callers pass for `async`: a subset of {0, 1}
    Books,          \* &books, the list head
    Null,           \* the NULL pointer
    Poison,         \* LIST_POISON2
    Nobody          \* books_lock is free

\* borrow_book and return_book: copy a node, change the copy, swap it in.
UpdateOps == {"borrow", "return"}
\* The functions that walk the list inside rcu_read_lock ... rcu_read_unlock.
ReadSide == UpdateOps \cup {"is_borrowed", "print"}
\* The functions that take a node off the list and reclaim it.
UnlinkingOps == UpdateOps \cup {"delete"}
Ops == ReadSide \cup {"add", "delete"}

PCs == {"idle", "walk", "test", "miss", "leave", "drop", "late", "alloc",
        "lock", "link", "unlink", "unlock", "exit", "reclaim", "sync"}

ASSUME ConstantsAssumption ==
    /\ Calls \in [Tasks -> SUBSET Ops]
    /\ Modes \subseteq {0, 1}
    /\ Books \notin Nodes /\ Null \notin Nodes /\ Poison \notin Nodes
    /\ Books # Null /\ Books # Poison /\ Null # Poison
    /\ Nobody \notin Tasks
    /\ Ids # {}

VARIABLES
    nst,        \* nst[n]: "free", "new" (allocated, not yet published),
                \*   "linked" (on the list) or "gone" (unlinked, not yet freed)
    bid,        \* bid[n]: b->id
    brw,        \* brw[n]: b->borrow
    nxt,        \* node.next of every struct book, and of the list head
    prv,        \* node.prev of every struct book, and of the list head
    lock,       \* the holder of books_lock, or Nobody
    readers,    \* the tasks between rcu_read_lock and rcu_read_unlock
    gp,         \* gp[n]: the readers the grace period of node n waits for
    cbs,        \* the nodes handed to call_rcu whose callback has not run
    pc,         \* pc[t]: what task t does next
    call,       \* call[t]: the function t runs and its arguments
    cur,        \* cur[t]: the loop cursor b
    old,        \* old[t]: old_b (in delete_book: the b that was unlinked)
    new,        \* new[t]: new_b (in add_book: b)
    holders,    \* auxiliary.  holders[n]: the tasks inside a read-side section
                \*   since before n was unlinked: they may still reach n
    absent      \* auxiliary.  absent[t]: at some moment since t began its
                \*   walk no book with the id t looks for was on the list

heap == <<nst, bid, brw>>
links == <<nxt, prv>>
rcu == <<readers, gp, cbs>>
aux == <<holders, absent>>
vars == <<heap, links, lock, rcu, pc, call, cur, old, new, aux>>

Op(t) == call[t].op
NoCall == [op |-> "none", id |-> 0, async |-> 0]
Ptrs == Nodes \cup {Books}

AnId == CHOOSE i \in Ids : TRUE

Linked == {n \in Nodes : nst[n] = "linked"}
OnList(p) == p = Books \/ (p \in Nodes /\ nst[p] = "linked")
HasBook(i) == \E n \in Nodes : nst[n] = "linked" /\ bid[n] = i

TypeOK ==
    /\ nst \in [Nodes -> {"free", "new", "linked", "gone"}]
    /\ bid \in [Nodes -> Ids]
    /\ brw \in [Nodes -> {0, 1}]
    /\ nxt \in [Ptrs -> Ptrs]
    /\ prv \in [Ptrs -> Ptrs \cup {Poison}]
    /\ lock \in Tasks \cup {Nobody}
    /\ readers \subseteq Tasks
    /\ gp \in [Nodes -> SUBSET Tasks]
    /\ cbs \subseteq Nodes
    /\ pc \in [Tasks -> PCs]
    /\ call \in [Tasks -> [op : Ops, id : Ids, async : Modes \cup {0}] \cup {NoCall}]
    /\ cur \in [Tasks -> Ptrs]
    /\ old \in [Tasks -> Nodes \cup {Null}]
    /\ new \in [Tasks -> Nodes \cup {Null}]
    /\ holders \in [Nodes -> SUBSET Tasks]
    /\ absent \in [Tasks -> BOOLEAN]

Init ==
    /\ nst = [n \in Nodes |-> "free"]
    /\ bid = [n \in Nodes |-> AnId]
    /\ brw = [n \in Nodes |-> 0]
    /\ nxt = [n \in Ptrs |-> Books]
    /\ prv = [n \in Ptrs |-> IF n = Books THEN Books ELSE Poison]
    /\ lock = Nobody
    /\ readers = {}
    /\ gp = [n \in Nodes |-> {}]
    /\ cbs = {}
    /\ pc = [t \in Tasks |-> "idle"]
    /\ call = [t \in Tasks |-> NoCall]
    /\ cur = [t \in Tasks |-> Books]
    /\ old = [t \in Tasks |-> Null]
    /\ new = [t \in Tasks |-> Null]
    /\ holders = [n \in Nodes |-> {}]
    /\ absent = [t \in Tasks |-> FALSE]

-----------------------------------------------------------------------------
(* The kernel primitives, from how the functions below use them.           *)

Goto(t, label) == pc' = [pc EXCEPT ![t] = label]

\* The function returns: its locals are gone.
Return(t) ==
    /\ Goto(t, "idle")
    /\ absent' = [absent EXCEPT ![t] = FALSE]
    /\ call' = [call EXCEPT ![t] = NoCall]
    /\ cur' = [cur EXCEPT ![t] = Books]
    /\ old' = [old EXCEPT ![t] = Null]
    /\ new' = [new EXCEPT ![t] = Null]

\* Leaving a read-side section: no grace period waits for t any longer.
rcu_read_unlock(t) ==
    /\ readers' = readers \ {t}
    /\ gp' = [n \in Nodes |-> gp[n] \ {t}]
    /\ holders' = [n \in Nodes |-> holders[n] \ {t}]
    /\ UNCHANGED cbs

\* call_rcu and synchronize_rcu: a grace period begins for node n; it waits
\* for the read-side sections that are open now and for no later one.
start_grace_period(n) == gp' = [gp EXCEPT ![n] = readers]

\* The list_xxx_rcu primitives.  list_replace_rcu and list_del_rcu store
\* through the prev pointer of the node they take out and then poison it; a
\* poisoned prev faults, and the task never gets past the store.
list_add_rcu(n) ==
    /\ nxt' = [nxt EXCEPT ![n] = nxt[Books], ![Books] = n]
    /\ prv' = [prv EXCEPT ![n] = Books, ![nxt[Books]] = n]
    /\ nst' = [nst EXCEPT ![n] = "linked"]
    /\ UNCHANGED holders

list_replace_rcu(o, n) ==
    /\ prv[o] # Poison
    /\ nxt' = [nxt EXCEPT ![n] = nxt[o], ![prv[o]] = n]
    /\ prv' = [prv EXCEPT ![n] = prv[o], ![nxt[o]] = n, ![o] = Poison]
    /\ nst' = [nst EXCEPT ![o] = "gone", ![n] = "linked"]
    /\ holders' = [holders EXCEPT ![o] = readers]

list_del_rcu(o) ==
    /\ prv[o] # Poison
    /\ nxt' = [nxt EXCEPT ![prv[o]] = nxt[o]]
    /\ prv' = [prv EXCEPT ![nxt[o]] = prv[o], ![o] = Poison]
    /\ nst' = [nst EXCEPT ![o] = "gone"]
    /\ holders' = [holders EXCEPT ![o] = readers]

\* What a freed struct book holds means nothing; it is kept in one form.
kfree(n) ==
    /\ nst' = [nst EXCEPT ![n] = "free"]
    /\ bid' = [bid EXCEPT ![n] = AnId]
    /\ brw' = [brw EXCEPT ![n] = 0]
    /\ nxt' = [nxt EXCEPT ![n] = Books]
    /\ prv' = [prv EXCEPT ![n] = Poison]

-----------------------------------------------------------------------------
(* Steps that several functions share.                                     *)

\* A caller calls function o.  The read-side functions begin with
\* rcu_read_lock, add_book with kzalloc, delete_book with spin_lock.
Call(t, o, i, a) ==
    /\ pc[t] = "idle"
    /\ call' = [call EXCEPT ![t] = [op |-> o, id |-> i, async |-> a]]
    /\ IF o \in ReadSide
       THEN /\ readers' = readers \cup {t}
            /\ absent' = [absent EXCEPT ![t] = ~HasBook(i)]
            /\ Goto(t, "walk")
       ELSE /\ Goto(t, IF o = "add" THEN "alloc" ELSE "lock")
            /\ UNCHANGED <<readers, absent>>
    /\ UNCHANGED <<heap, links, lock, gp, cbs, cur, old, new, holders>>

\* list_for_each_entry: load the next pointer of the node b stands on; the
\* loop ends when that is the list head again.
Walk(t) ==
    /\ pc[t] = "walk"
    /\ IF nxt[cur[t]] = Books
       THEN Goto(t, "miss") /\ UNCHANGED cur
       ELSE Goto(t, "test") /\ cur' = [cur EXCEPT ![t] = nxt[cur[t]]]
    /\ UNCHANGED <<heap, links, lock, rcu, call, old, new, aux>>

\* The loop body: b->id is not the id looked for, or it is.
Test(t, found) ==
    /\ pc[t] = "test"
    /\ Goto(t, IF bid[cur[t]] = call[t].id THEN found ELSE "walk")
    /\ UNCHANGED <<heap, links, lock, rcu, call, cur, old, new, aux>>

\* kzalloc returned memory: the caller fills in the new struct book.
Alloc(t, id, borrow) ==
    /\ pc[t] = "alloc"
    /\ \E n \in Nodes :
        /\ nst[n] = "free"
        /\ nst' = [nst EXCEPT ![n] = "new"]
        /\ bid' = [bid EXCEPT ![n] = id]
        /\ brw' = [brw EXCEPT ![n] = borrow]
        /\ new' = [new EXCEPT ![t] = n]
    /\ Goto(t, "lock")
    /\ UNCHANGED <<links, lock, rcu, call, cur, old, aux>>

\* Mutant: books_lock is not waited for.
LockTaken(t, next) ==
    /\ pc[t] = "lock"
    /\ lock' = t
    /\ Goto(t, next)
    /\ absent' = [absent EXCEPT ![t] = IF Op(t) = "delete" THEN ~HasBook(call[t].id) ELSE @]
    /\ UNCHANGED <<heap, links, rcu, call, cur, old, new, holders>>

\* spin_lock(&books_lock)
Lock(t, next) ==
    /\ pc[t] = "lock"
    /\ lock = Nobody /\ lock' = t
    /\ Goto(t, next)
    /\ absent' = [absent EXCEPT ![t] = IF Op(t) = "delete" THEN ~HasBook(call[t].id) ELSE @]
    /\ UNCHANGED <<heap, links, rcu, call, cur, old, new, holders>>

\* Mutant: the rcu_read_unlock that follows spin_unlock is forgotten.
UnlockStaysReader(t, next) ==
    /\ pc[t] = "unlock"
    /\ lock' = Nobody
    /\ Goto(t, "reclaim")
    /\ UNCHANGED <<heap, links, rcu, call, cur, old, new, aux>>

\* spin_unlock(&books_lock), and the function goes on or returns
Unlock(t, next) ==
    /\ pc[t] = "unlock"
    /\ lock' = Nobody
    /\ Goto(t, next)
    /\ UNCHANGED <<heap, links, rcu, call, cur, old, new, aux>>

\* Mutant: a way out of the function without spin_unlock.
ReturnLocked(t, label) ==
    /\ pc[t] = label
    /\ Return(t)
    /\ UNCHANGED <<heap, links, lock, rcu, holders>>

UnlockReturn(t, label) ==
    /\ pc[t] = label
    /\ lock' = Nobody
    /\ Return(t)
    /\ UNCHANGED <<heap, links, rcu, holders>>

\* rcu_read_unlock(), and the function goes on or returns
ReadUnlock(t, label, next) ==
    /\ pc[t] = label
    /\ rcu_read_unlock(t)
    /\ Goto(t, next)
    /\ UNCHANGED <<heap, links, lock, call, cur, old, new, absent>>

ReadUnlockReturn(t) ==
    /\ pc[t] \in {"miss", "leave"}
    /\ rcu_read_unlock(t)
    /\ Return(t)
    /\ UNCHANGED <<heap, links, lock>>

\* Mutant: call_rcu is forgotten.
ReclaimNever(t) ==
    /\ pc[t] = "reclaim" /\ call[t].async = 1
    /\ Return(t)
    /\ UNCHANGED <<heap, links, lock, rcu, holders>>

\* if (async) call_rcu(...): queue the node for book_reclaim_callback
ReclaimAsync(t) ==
    /\ pc[t] = "reclaim" /\ call[t].async = 1
    /\ start_grace_period(old[t])
    /\ cbs' = cbs \cup {old[t]}
    /\ Return(t)
    /\ UNCHANGED <<heap, links, lock, readers, holders>>

\* else synchronize_rcu(): begin to wait ...
ReclaimSync(t) ==
    /\ pc[t] = "reclaim" /\ call[t].async = 0
    /\ start_grace_period(old[t])
    /\ Goto(t, "sync")
    /\ UNCHANGED <<heap, links, lock, readers, cbs, call, cur, old, new, aux>>

\* Mutant: kfree(old_b) without synchronize_rcu.
FreeAtOnce(t) ==
    /\ pc[t] = "sync"
    /\ kfree(old[t])
    /\ Return(t)
    /\ UNCHANGED <<lock, rcu, holders>>

\* ... until the readers of that moment are gone; then kfree(old_b)
SyncDone(t) ==
    /\ pc[t] = "sync"
    /\ gp[old[t]] = {}
    /\ kfree(old[t])
    /\ Return(t)
    /\ UNCHANGED <<lock, rcu, holders>>

Reclaim(t) == ReclaimAsync(t) \/ ReclaimSync(t) \/ SyncDone(t)

-----------------------------------------------------------------------------
\* add_book: kzalloc with GFP_KERNEL, and return if it fails; publish at the
\* front of the list under books_lock.
AddAllocFails(t) ==
    /\ pc[t] = "alloc"
    /\ Return(t)
    /\ UNCHANGED <<heap, links, lock, rcu, holders>>

\* Mutant: the node is added at the tail.
AddLinkTail(t) ==
    /\ pc[t] = "link"
    /\ nxt' = [nxt EXCEPT ![new[t]] = Books, ![prv[Books]] = new[t]]
    /\ prv' = [prv EXCEPT ![new[t]] = prv[Books], ![Books] = new[t]]
    /\ nst' = [nst EXCEPT ![new[t]] = "linked"]
    /\ Goto(t, "unlock")
    /\ UNCHANGED <<bid, brw, lock, rcu, call, cur, old, new, aux>>

\* Mutant: the node is linked through its next pointers only.
AddLinkOneWay(t) ==
    /\ pc[t] = "link"
    /\ nxt' = [nxt EXCEPT ![new[t]] = nxt[Books], ![Books] = new[t]]
    /\ nst' = [nst EXCEPT ![new[t]] = "linked"]
    /\ Goto(t, "unlock")
    /\ UNCHANGED <<bid, brw, prv, lock, rcu, call, cur, old, new, aux>>

AddLink(t) ==
    /\ pc[t] = "link"
    /\ list_add_rcu(new[t])
    /\ Goto(t, "unlock")
    /\ UNCHANGED <<bid, brw, lock, rcu, call, cur, old, new, absent>>

add_book(t) ==
    /\ Op(t) = "add"
    /\ \/ Alloc(t, call[t].id, 0)
       \/ AddAllocFails(t)
       \/ Lock(t, "link")
       \/ AddLink(t)
       \/ UnlockReturn(t, "unlock")

-----------------------------------------------------------------------------
\* Mutant: b->borrow is changed in place.
UpdateInPlace(t, borrow) ==
    /\ pc[t] = "test"
    /\ IF bid[cur[t]] = call[t].id
       THEN Goto(t, "leave") /\ brw' = [brw EXCEPT ![cur[t]] = borrow]
       ELSE Goto(t, "walk") /\ UNCHANGED brw
    /\ UNCHANGED <<nst, bid, links, lock, rcu, call, cur, old, new, aux>>

\* borrow_book and return_book are the same code with the roles of 0 and 1
\* exchanged; borrow is what the function leaves in b->borrow.  If the book
\* that is found already has that value the function gives up; otherwise
\* old_b = b, and books_lock is not held yet.
UpdateTest(t, borrow) ==
    /\ pc[t] = "test"
    /\ LET found == bid[cur[t]] = call[t].id
           usable == found /\ brw[cur[t]] # borrow
       IN  /\ Goto(t, IF usable THEN "alloc" ELSE IF found THEN "leave" ELSE "walk")
           /\ old' = IF usable THEN [old EXCEPT ![t] = cur[t]] ELSE old
    /\ UNCHANGED <<heap, links, lock, rcu, call, cur, new, aux>>

\* Mutant: a failed kzalloc goes on to the reclaim branch.
UpdateAllocGoesOn(t) ==
    /\ pc[t] = "alloc"
    /\ Goto(t, "exit")
    /\ UNCHANGED <<heap, links, lock, rcu, call, cur, old, new, aux>>

UpdateAllocFails(t) ==
    /\ pc[t] = "alloc"
    /\ Goto(t, "leave")
    /\ UNCHANGED <<heap, links, lock, rcu, call, cur, old, new, aux>>

\* Mutant: the old node is unlinked and the copy added at the front.
UpdateMovesToFront(t) ==
    LET o == old[t]
        n == new[t]
        cut == [nxt EXCEPT ![prv[o]] = nxt[o]]
        cutp == [prv EXCEPT ![nxt[o]] = prv[o], ![o] = Poison]
    IN  /\ pc[t] = "link"
        /\ nxt' = [cut EXCEPT ![n] = cut[Books], ![Books] = n]
        /\ prv' = [cutp EXCEPT ![n] = Books, ![cut[Books]] = n]
        /\ nst' = [nst EXCEPT ![o] = "gone", ![n] = "linked"]
        /\ holders' = [holders EXCEPT ![o] = readers]
        /\ Goto(t, "unlock")
        /\ UNCHANGED <<bid, brw, lock, rcu, call, cur, old, new, absent>>

\* Mutant: the copy is added and the old node stays.
UpdateAddsCopy(t) ==
    /\ pc[t] = "link"
    /\ list_add_rcu(new[t])
    /\ Goto(t, "unlock")
    /\ UNCHANGED <<bid, brw, lock, rcu, call, cur, old, new, absent>>

UpdateReplace(t) ==
    /\ pc[t] = "link"
    /\ list_replace_rcu(old[t], new[t])
    /\ Goto(t, "unlock")
    /\ UNCHANGED <<bid, brw, lock, rcu, call, cur, old, new, absent>>

Update(t, borrow) ==
    \/ Walk(t)
    \/ UpdateTest(t, borrow)
    \/ ReadUnlockReturn(t)
    \/ Alloc(t, bid[old[t]], borrow)    \* memcpy(new_b, old_b)
    \/ UpdateAllocFails(t)
    \/ Lock(t, "link")
    \/ UpdateReplace(t)
    \/ Unlock(t, "exit")
    \/ ReadUnlock(t, "exit", "reclaim")
    \/ Reclaim(t)

borrow_book(t) == Op(t) = "borrow" /\ Update(t, 1)
return_book(t) == Op(t) = "return" /\ Update(t, 0)

-----------------------------------------------------------------------------
\* is_borrowed_book closes the read-side section first and reads b->borrow
\* after that, on its way out.
IsBorrowedRead(t) ==
    /\ pc[t] = "late"
    /\ Return(t)
    /\ UNCHANGED <<heap, links, lock, rcu, holders>>

is_borrowed_book(t) ==
    /\ Op(t) = "is_borrowed"
    /\ \/ Walk(t)
       \/ Test(t, "drop")
       \/ ReadUnlock(t, "drop", "late")
       \/ IsBorrowedRead(t)
       \/ ReadUnlockReturn(t)

-----------------------------------------------------------------------------
\* delete_book: the walk and the unlinking both happen under books_lock.
DeleteUnlink(t) ==
    /\ pc[t] = "unlink"
    /\ list_del_rcu(cur[t])
    /\ old' = [old EXCEPT ![t] = cur[t]]
    /\ Goto(t, "unlock")
    /\ UNCHANGED <<bid, brw, lock, rcu, call, cur, new>>
    /\ absent' = [u \in Tasks |-> absent[u] \/ (Op(u) # "none" /\ ~HasBook(call[u].id)')]

delete_book(t) ==
    /\ Op(t) = "delete"
    /\ \/ Lock(t, "walk")
       \/ Walk(t)
       \/ Test(t, "unlink")
       \/ DeleteUnlink(t)
       \/ Unlock(t, "reclaim")
       \/ UnlockReturn(t, "miss")
       \/ Reclaim(t)

\* print_book: everything it prints is read inside the section.
print_book(t) ==
    /\ Op(t) = "print"
    /\ \/ Walk(t)
       \/ Test(t, "leave")
       \/ ReadUnlockReturn(t)

-----------------------------------------------------------------------------
\* The RCU softirq runs the callback of a node whose grace period is over.
book_reclaim_callback(n) ==
    /\ n \in cbs
    /\ gp[n] = {}
    /\ kfree(n)
    /\ cbs' = cbs \ {n}
    /\ UNCHANGED <<lock, readers, gp, pc, call, cur, old, new, aux>>

\* A task continues the function it is in.
Run(t) ==
    \/ add_book(t)
    \/ borrow_book(t)
    \/ return_book(t)
    \/ is_borrowed_book(t)
    \/ delete_book(t)
    \/ print_book(t)

\* Only the functions that reclaim a node take the argument `async`.
AsyncArg(o) == IF o \in UnlinkingOps THEN Modes ELSE {0}

CallAny(t) ==
    \E o \in Calls[t] : \E i \in Ids, a \in AsyncArg(o) : Call(t, o, i, a)

Next ==
    \/ \E t \in Tasks : CallAny(t)
    \/ \E t \in Tasks : Run(t)
    \/ \E n \in Nodes : book_reclaim_callback(n)

Spec == Init /\ [][Next]_vars

\* A task that is inside a function keeps running (none of them sleeps while
\* it holds books_lock or is inside a read-side section), the kernel's queued
\* spinlocks serve waiters in order, and the softirq runs ready callbacks.
Fairness ==
    /\ \A t \in Tasks : WF_vars(Run(t))
    /\ \A t \in Tasks : SF_vars(pc[t] = "lock" /\ Run(t))
    /\ \A n \in Nodes : WF_vars(book_reclaim_callback(n))

FairSpec == Spec /\ Fairness

-----------------------------------------------------------------------------
(* Which callers the functions can be combined for.  borrow_book and       *)
(* return_book find old_b before they take books_lock, and                 *)
(* is_borrowed_book reads b after it left the read-side section: they pin  *)
(* a node with nothing that keeps it on the list.                          *)

PinningOps == UpdateOps \cup {"is_borrowed"}

SingleUpdater ==
    \A t, u \in Tasks :
        (t # u /\ Calls[t] \cap PinningOps # {}) => Calls[u] \cap UnlinkingOps = {}

-----------------------------------------------------------------------------
(* Properties                                                              *)

\* The nodes that the next step of task t loads from, stores to or frees.
Derefs(t) ==
    {n \in Nodes :
        \/ pc[t] \in {"walk", "test", "late", "unlink"} /\ n = cur[t]
        \/ pc[t] \in {"alloc", "link"} /\ Op(t) \in UpdateOps /\ n = old[t]
        \/ pc[t] = "link" /\ n = new[t]
        \/ pc[t] \in {"reclaim", "sync"} /\ n = old[t]}

\* No task touches a struct book that has been freed: not on its way down the
\* list, not when it copies old_b, not when is_borrowed_book reads b->borrow
\* after its rcu_read_unlock, and not when it reclaims the node.
NoUseAfterFree == \A t \in Tasks : \A n \in Derefs(t) : nst[n] # "free"

\* The node that list_replace_rcu or list_del_rcu takes out still is on the
\* list when the task gets there: borrow_book and return_book look it up
\* before they take books_lock.
TakesOutLinkedBook ==
    \A t \in Tasks :
        /\ pc[t] = "link" /\ Op(t) \in UpdateOps => nst[old[t]] = "linked"
        /\ pc[t] = "unlink" => nst[cur[t]] = "linked"

\* Who is going to free node n: the tasks on their way from unlinking it to
\* the end of their reclaim branch, and the RCU softirq.
Reclaimers(n) ==
    {t \in Tasks : /\ pc[t] \in {"unlock", "exit", "reclaim", "sync"}
                   /\ Op(t) \in UnlinkingOps /\ old[t] = n}
    \cup (IF n \in cbs THEN {Nobody} ELSE {})

\* Every unlinked book has exactly one reclaimer, so it is neither leaked nor
\* freed twice, and no other book has one: nothing on the list, unpublished
\* or already freed is ever going to be freed by the reclaim branches.
OneReclaimer ==
    \A n \in Nodes :
        IF nst[n] = "gone" THEN \E r \in Tasks \cup {Nobody} : Reclaimers(n) = {r}
                           ELSE Reclaimers(n) = {}

\* The next and prev pointers of the list agree all the way round, and no
\* pointer of a node on the list leads to a node that is not on it.
ListConsistent ==
    \A p \in Ptrs : OnList(p) =>
        /\ OnList(nxt[p]) /\ prv[nxt[p]] = p
        /\ OnList(prv[p]) /\ nxt[prv[p]] = p

\* A walk that reports "not exist book" is right: at some moment since the
\* walk began there was no such book.  A book that is only replaced under the
\* walker, however often, is never missed.
LookupNeverMisses == \A t \in Tasks : pc[t] = "miss" => absent[t]

\* print_book: "If b was updated, address of b must be different".  A book
\* that walkers can hold never changes in place, so that one update gives it
\* another address.  Of several updates this says less than the comment at line
\* 264: once the first copy is freed, a later one can have its address again.
UpdatedBookMoves ==
    [][\A n \in Nodes :
          nst[n] \in {"linked", "gone"} =>
              \/ nst[n] = "gone" /\ nst'[n] = "free"
              \/ /\ nst'[n] \in {nst[n], "gone"}
                 /\ bid'[n] = bid[n] /\ brw'[n] = brw[n]]_vars

\* Every call returns: no walk is led in circles by concurrent updates, no
\* task waits for books_lock or for a grace period for ever.
CallsReturn == \A t \in Tasks : pc[t] # "idle" ~> pc[t] = "idle"

\* Every unlinked book is freed in the end, by synchronize_rcu or call_rcu.
UnlinkedBooksFreed == \A n \in Nodes : nst[n] = "gone" ~> nst[n] = "free"
=============================================================================
