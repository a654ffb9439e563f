--------------------------- MODULE BookRCU_proofs ---------------------------
(***************************************************************************)
(* Proofs about BookRCU, for any set of tasks, addresses and ids.          *)
(***************************************************************************)
EXTENDS BookRCU, TLAPS

-----------------------------------------------------------------------------
(* The steps of a task, each with the functions it occurs in.              *)

Updates(t) == Op(t) \in UpdateOps
Unlinks(t) == Op(t) \in UnlinkingOps

TaskStep(t) ==
    \/ Walk(t) /\ Op(t) \in ReadSide \cup {"delete"}
    \/ Test(t, "leave") /\ Op(t) = "print"
    \/ Test(t, "drop") /\ Op(t) = "is_borrowed"
    \/ Test(t, "unlink") /\ Op(t) = "delete"
    \/ (\E b \in {0, 1} : UpdateTest(t, b)) /\ Updates(t)
    \/ (\E b \in {0, 1} : Alloc(t, call[t].id, b)) /\ Op(t) = "add"
    \/ (\E b \in {0, 1} : Alloc(t, bid[old[t]], b)) /\ Updates(t)
    \/ AddAllocFails(t) /\ Op(t) = "add"
    \/ UpdateAllocFails(t) /\ Updates(t)
    \/ Lock(t, "link") /\ Op(t) \in UpdateOps \cup {"add"}
    \/ Lock(t, "walk") /\ Op(t) = "delete"
    \/ AddLink(t) /\ Op(t) = "add"
    \/ UpdateReplace(t) /\ Updates(t)
    \/ DeleteUnlink(t) /\ Op(t) = "delete"
    \/ Unlock(t, "exit") /\ Updates(t)
    \/ Unlock(t, "reclaim") /\ Op(t) = "delete"
    \/ UnlockReturn(t, "unlock") /\ Op(t) = "add"
    \/ UnlockReturn(t, "miss") /\ Op(t) = "delete"
    \/ ReadUnlock(t, "exit", "reclaim") /\ Updates(t)
    \/ ReadUnlock(t, "drop", "late") /\ Op(t) = "is_borrowed"
    \/ IsBorrowedRead(t) /\ Op(t) = "is_borrowed"
    \/ ReadUnlockReturn(t) /\ Op(t) \in ReadSide
    \/ ReclaimAsync(t) /\ Unlinks(t)
    \/ ReclaimSync(t) /\ Unlinks(t)
    \/ SyncDone(t) /\ Unlinks(t)

\* The functions take no other steps.
LEMMA RunIsTaskStep == ASSUME NEW t \in Tasks, Run(t) PROVE TaskStep(t)
<1>1. CASE add_book(t)
  BY <1>1 DEF add_book, TaskStep
<1>2. ASSUME NEW b \in {0, 1}, Update(t, b), Updates(t) PROVE TaskStep(t)
  BY <1>2 DEF Update, Reclaim, TaskStep, Updates, Unlinks, UnlinkingOps, ReadSide
<1>3. CASE borrow_book(t) \/ return_book(t)
  BY <1>2, <1>3 DEF borrow_book, return_book, Updates, UpdateOps
<1>4. CASE is_borrowed_book(t) \/ print_book(t)
  BY <1>4 DEF is_borrowed_book, print_book, TaskStep, ReadSide
<1>5. CASE delete_book(t)
  BY <1>5 DEF delete_book, Reclaim, TaskStep, Unlinks, UnlinkingOps
<1>6. QED
  BY <1>1, <1>3, <1>4, <1>5 DEF Run

-----------------------------------------------------------------------------
(* Type correctness, for all callers.                                      *)

\* Which labels belong to which function, and which locals hold an address.
ShapeOf(t) ==
    /\ Op(t) = "none" => pc[t] = "idle"
    /\ Op(t) = "add" => pc[t] \in {"alloc", "lock", "link", "unlock"}
    /\ Updates(t) => pc[t] \in {"walk", "test", "miss", "leave", "alloc", "lock",
                                "link", "unlock", "exit", "reclaim", "sync"}
    /\ Op(t) = "is_borrowed" => pc[t] \in {"walk", "test", "miss", "drop", "late"}
    /\ Op(t) = "print" => pc[t] \in {"walk", "test", "miss", "leave"}
    /\ Op(t) = "delete" => pc[t] \in {"lock", "walk", "test", "miss", "unlink",
                                      "unlock", "reclaim", "sync"}
    /\ pc[t] \in {"test", "drop", "late", "unlink"} => cur[t] \in Nodes
    /\ Updates(t) /\ pc[t] \in {"alloc", "lock", "link"} => old[t] \in Nodes
    /\ Unlinks(t) /\ pc[t] \in {"unlock", "exit", "reclaim", "sync"} => old[t] \in Nodes
    /\ ~(Op(t) = "delete") /\ pc[t] \in {"lock", "link"} => new[t] \in Nodes
    /\ Op(t) \in {"none", "add"} => cur[t] = Books
    /\ Op(t) = "delete" /\ pc[t] = "lock" => cur[t] = Books

Shape == \A t \in Tasks : ShapeOf(t)

LEMMA InitType == Init => TypeOK /\ Shape
  BY ConstantsAssumption DEF Init, TypeOK, Shape, ShapeOf, Op, NoCall, Updates, Unlinks,
     UpdateOps, UnlinkingOps, Ptrs, PCs, AnId

LEMMA AnIdType == AnId \in Ids
  BY ConstantsAssumption DEF AnId

LEMMA NextType == TypeOK /\ Shape /\ [Next]_vars => TypeOK' /\ Shape'
<1> SUFFICES ASSUME TypeOK, Shape, [Next]_vars PROVE TypeOK' /\ Shape'
  OBVIOUS
<1> USE ConstantsAssumption, AnIdType DEF Goto, heap, links, rcu, aux, Ptrs, PCs, NoCall, Op, Ops,
        ReadSide, UnlinkingOps, UpdateOps, Updates, Unlinks
<1>1. ASSUME NEW t \in Tasks, CallAny(t) PROVE TypeOK' /\ Shape'
  <2> PICK o \in Calls[t] : \E i \in Ids, a \in AsyncArg(o) : Call(t, o, i, a)
    BY <1>1 DEF CallAny
  <2> PICK i \in Ids, a \in AsyncArg(o) : Call(t, o, i, a)
    OBVIOUS
  <2>0. a \in Modes \cup {0} /\ o \in Ops
    BY DEF AsyncArg
  <2>1. TypeOK'
    <3>1. HasBook(i) \in BOOLEAN
      BY DEF HasBook
    <3>2. absent' = absent \/ absent' = [absent EXCEPT ![t] = ~HasBook(i)]
      BY DEF Call
    <3>3. absent' \in [Tasks -> BOOLEAN]
      BY <3>1, <3>2, Zenon DEF TypeOK
    <3>4. [op |-> o, id |-> i, async |-> a] \in [op : Ops, id : Ids, async : Modes \cup {0}]
      BY <2>0
    <3>5. call' \in [Tasks -> [op : Ops, id : Ids, async : Modes \cup {0}] \cup {NoCall}]
      BY <3>4 DEF TypeOK, Call
    <3>6. readers' = readers \/ readers' = readers \cup {t}
      BY DEF Call
    <3>7. readers' \subseteq Tasks
      BY <3>6 DEF TypeOK
    <3>8. \E l \in PCs : pc' = [pc EXCEPT ![t] = l]
      BY DEF Call
    <3>9. pc' \in [Tasks -> PCs]
      BY <3>8 DEF TypeOK
    <3> QED
      BY <3>3, <3>5, <3>7, <3>9 DEF TypeOK, Call
  <2>2. Shape'
    BY DEF TypeOK, Shape, ShapeOf, Call
  <2> QED BY <2>1, <2>2
<1>2. ASSUME NEW t \in Tasks, TaskStep(t) PROVE TypeOK' /\ Shape'
  <2>1. CASE Walk(t) /\ Op(t) \in ReadSide \cup {"delete"}
    BY <2>1 DEF TypeOK, Shape, ShapeOf, Walk
  <2>2. CASE Test(t, "leave") /\ Op(t) = "print"
    BY <2>2 DEF TypeOK, Shape, ShapeOf, Test
  <2>3. CASE Test(t, "drop") /\ Op(t) = "is_borrowed"
    BY <2>3 DEF TypeOK, Shape, ShapeOf, Test
  <2>4. CASE Test(t, "unlink") /\ Op(t) = "delete"
    BY <2>4 DEF TypeOK, Shape, ShapeOf, Test
  <2>5. CASE (\E b \in {0, 1} : UpdateTest(t, b)) /\ Updates(t)
    BY <2>5 DEF TypeOK, Shape, ShapeOf, UpdateTest
  <2>6. CASE (\E b \in {0, 1} : Alloc(t, call[t].id, b)) /\ Op(t) = "add"
    BY <2>6 DEF TypeOK, Shape, ShapeOf, Alloc
  <2>7. CASE (\E b \in {0, 1} : Alloc(t, bid[old[t]], b)) /\ Updates(t)
    BY <2>7 DEF TypeOK, Shape, ShapeOf, Alloc
  <2>8. CASE AddAllocFails(t) /\ Op(t) = "add"
    BY <2>8 DEF TypeOK, Shape, ShapeOf, AddAllocFails, Return
  <2>9. CASE UpdateAllocFails(t) /\ Updates(t)
    BY <2>9 DEF TypeOK, Shape, ShapeOf, UpdateAllocFails
  <2>10. CASE Lock(t, "link") /\ Op(t) \in UpdateOps \cup {"add"}
    BY <2>10 DEF TypeOK, Shape, ShapeOf, Lock
  <2>11. CASE Lock(t, "walk") /\ Op(t) = "delete"
    BY <2>11 DEF TypeOK, Shape, ShapeOf, Lock
  <2>12. CASE AddLink(t) /\ Op(t) = "add"
    <3>1. new[t] \in Nodes /\ nxt[Books] \in Ptrs
      BY <2>12 DEF TypeOK, Shape, ShapeOf, AddLink
    <3>2. nxt' \in [Ptrs -> Ptrs] /\ prv' \in [Ptrs -> Ptrs \cup {Poison}]
      BY <2>12, <3>1 DEF TypeOK, AddLink, list_add_rcu
    <3>3. TypeOK'
      BY <2>12, <3>1, <3>2 DEF TypeOK, AddLink, list_add_rcu
    <3>4. Shape'
      BY <2>12 DEF TypeOK, Shape, ShapeOf, AddLink
    <3> QED
      BY <3>3, <3>4
  <2>13. CASE UpdateReplace(t) /\ Updates(t)
    <3>1. old[t] \in Nodes /\ new[t] \in Nodes
      BY <2>13 DEF Shape, ShapeOf, UpdateReplace
    <3>2. prv[old[t]] \in Ptrs /\ nxt[old[t]] \in Ptrs
      BY <2>13, <3>1 DEF TypeOK, UpdateReplace, list_replace_rcu
    <3>3. nxt' \in [Ptrs -> Ptrs]
      BY <2>13, <3>1, <3>2 DEF TypeOK, UpdateReplace, list_replace_rcu
    <3>4. prv' \in [Ptrs -> Ptrs \cup {Poison}]
      BY <2>13, <3>1, <3>2 DEF TypeOK, UpdateReplace, list_replace_rcu
    <3>5. TypeOK'
      BY <2>13, <3>1, <3>3, <3>4 DEF TypeOK, UpdateReplace, list_replace_rcu
    <3>6. Shape'
      BY <2>13 DEF TypeOK, Shape, ShapeOf, UpdateReplace
    <3> QED
      BY <3>5, <3>6
  <2>14. CASE DeleteUnlink(t) /\ Op(t) = "delete"
    <3>1. cur[t] \in Nodes
      BY <2>14 DEF Shape, ShapeOf, DeleteUnlink
    <3>2. prv[cur[t]] \in Ptrs /\ nxt[cur[t]] \in Ptrs
      BY <2>14, <3>1 DEF TypeOK, DeleteUnlink, list_del_rcu
    <3>3. nxt' \in [Ptrs -> Ptrs] /\ prv' \in [Ptrs -> Ptrs \cup {Poison}]
      BY <2>14, <3>1, <3>2 DEF TypeOK, DeleteUnlink, list_del_rcu
    <3>4. absent' \in [Tasks -> BOOLEAN]
      BY <2>14, Zenon DEF DeleteUnlink
    <3>5. TypeOK'
      BY <2>14, <3>1, <3>3, <3>4 DEF TypeOK, DeleteUnlink, list_del_rcu
    <3>6. Shape'
      BY <2>14, <3>1 DEF TypeOK, Shape, ShapeOf, DeleteUnlink
    <3> QED
      BY <3>5, <3>6
  <2>15. CASE Unlock(t, "exit") /\ Updates(t)
    BY <2>15 DEF TypeOK, Shape, ShapeOf, Unlock
  <2>16. CASE Unlock(t, "reclaim") /\ Op(t) = "delete"
    BY <2>16 DEF TypeOK, Shape, ShapeOf, Unlock
  <2>17. CASE UnlockReturn(t, "unlock") /\ Op(t) = "add"
    BY <2>17 DEF TypeOK, Shape, ShapeOf, UnlockReturn, Return
  <2>18. CASE UnlockReturn(t, "miss") /\ Op(t) = "delete"
    BY <2>18 DEF TypeOK, Shape, ShapeOf, UnlockReturn, Return
  <2>19. CASE ReadUnlock(t, "exit", "reclaim") /\ Updates(t)
    BY <2>19 DEF TypeOK, Shape, ShapeOf, ReadUnlock, rcu_read_unlock
  <2>20. CASE ReadUnlock(t, "drop", "late") /\ Op(t) = "is_borrowed"
    BY <2>20 DEF TypeOK, Shape, ShapeOf, ReadUnlock, rcu_read_unlock
  <2>21. CASE IsBorrowedRead(t) /\ Op(t) = "is_borrowed"
    BY <2>21 DEF TypeOK, Shape, ShapeOf, IsBorrowedRead, Return
  <2>22. CASE ReadUnlockReturn(t) /\ Op(t) \in ReadSide
    BY <2>22 DEF TypeOK, Shape, ShapeOf, ReadUnlockReturn, rcu_read_unlock, Return
  <2>23. CASE ReclaimAsync(t) /\ Unlinks(t)
    BY <2>23 DEF TypeOK, Shape, ShapeOf, ReclaimAsync, start_grace_period, Return
  <2>24. CASE ReclaimSync(t) /\ Unlinks(t)
    BY <2>24 DEF TypeOK, Shape, ShapeOf, ReclaimSync, start_grace_period
  <2>25. CASE SyncDone(t) /\ Unlinks(t)
    BY <2>25 DEF TypeOK, Shape, ShapeOf, SyncDone, kfree, Return
  <2> QED
    BY <1>2, <2>1, <2>2, <2>3, <2>4, <2>5, <2>6, <2>7, <2>8, <2>9, <2>10, <2>11, <2>12, <2>13, <2>14, <2>15, <2>16, <2>17, <2>18, <2>19, <2>20, <2>21, <2>22, <2>23, <2>24, <2>25 DEF TaskStep
<1>3. ASSUME NEW n \in Nodes, book_reclaim_callback(n) PROVE TypeOK' /\ Shape'
  BY <1>3 DEF TypeOK, Shape, ShapeOf, book_reclaim_callback, kfree
<1>4. CASE UNCHANGED vars
  BY <1>4 DEF TypeOK, Shape, ShapeOf, vars
<1> QED
  BY <1>1, <1>2, <1>3, <1>4, RunIsTaskStep DEF Next

\* Every variable keeps its type, whoever calls the book functions.
THEOREM TypeCorrect == Spec => []TypeOK
<1>1. TypeOK /\ Shape /\ [Next]_vars => TypeOK' /\ Shape'
  BY NextType
<1> QED
  BY <1>1, InitType, PTL DEF Spec

-----------------------------------------------------------------------------
(* Memory safety, when SingleUpdater says who calls what.                  *)

HoldsLock(t) ==
    \/ pc[t] \in {"link", "unlink", "unlock"}
    \/ Op(t) = "delete" /\ pc[t] \in {"walk", "test", "miss"}

InSection(t) ==
    \/ pc[t] \in {"drop", "leave", "exit"}
    \/ Op(t) \in ReadSide /\ pc[t] \in {"walk", "test", "miss"}
    \/ Updates(t) /\ pc[t] \in {"alloc", "lock", "link", "unlock"}

\* Where a task is in its function decides what it holds.
ControlInv ==
    \A t \in Tasks :
        /\ Op(t) # "none" => Op(t) \in Calls[t]
        /\ HoldsLock(t) => lock = t
        /\ InSection(t) => t \in readers

\* A task may follow pointer p inside its section: p is the list head, or on
\* the list, or was taken off it after the section began.
Safe(t, p) == p = Books \/ nst[p] = "linked" \/ t \in holders[p]

\* The readers that may still reach an unlinked node are in their sections,
\* and the next pointer they find there leads them to a safe node again.
HoldersInv ==
    \A n \in Nodes, t \in Tasks :
        t \in holders[n] => t \in readers /\ nst[n] = "gone" /\ Safe(t, nxt[n])

\* The list has no cycle that avoids its head.
Ranked(rk) ==
    \A p \in Nodes : nst[p] = "linked" /\ nxt[p] # Books => rk[nxt[p]] < rk[p]
RankInv == \E rk \in [Nodes -> Nat] : Ranked(rk)

\* The cursor of a walk: print_book only relies on its section, the others on
\* books_lock or on being the only updater.
CursorInv ==
    \A t \in Tasks :
        /\ pc[t] \in {"walk", "test"} /\ Op(t) = "print" => Safe(t, cur[t])
        /\ /\ pc[t] \in {"walk", "test", "drop", "late", "unlink"}
           /\ Op(t) \in PinningOps \cup {"delete"}
           => cur[t] = Books \/ nst[cur[t]] = "linked"

\* old_b stays on the list between its lookup and its replacement.
OldInv ==
    \A t \in Tasks :
        pc[t] \in {"alloc", "lock", "link"} /\ Updates(t) => nst[old[t]] = "linked"

\* A node that is not published yet belongs to one task.
HasNew(t) == pc[t] \in {"lock", "link"} /\ Op(t) # "delete"
NewInv ==
    \A t \in Tasks :
        HasNew(t) =>
            /\ nst[new[t]] = "new"
            /\ \A u \in Tasks : HasNew(u) /\ new[u] = new[t] => u = t

\* An unlinked node belongs to one task or to the callback queue.
Reclaiming(t) == pc[t] \in {"unlock", "exit", "reclaim", "sync"} /\ Unlinks(t)
ReclaimInv ==
    /\ \A t \in Tasks :
        Reclaiming(t) =>
            /\ nst[old[t]] = "gone" /\ old[t] \notin cbs
            /\ \A u \in Tasks : Reclaiming(u) /\ old[u] = old[t] => u = t
    /\ \A n \in cbs : nst[n] = "gone"
    /\ \A n \in Nodes :
        nst[n] = "gone" => n \in cbs \/ \E t \in Tasks : Reclaiming(t) /\ old[t] = n

\* A grace period that has begun waits for every reader that can reach the
\* node.
GraceInv ==
    /\ \A n \in cbs, u \in Tasks : u \in holders[n] => u \in gp[n]
    /\ \A t, u \in Tasks : pc[t] = "sync" /\ Unlinks(t) /\ u \in holders[old[t]] => u \in gp[old[t]]

IInv ==
    /\ TypeOK /\ Shape
    /\ ControlInv
    /\ HoldersInv
    /\ ListConsistent
    /\ RankInv
    /\ CursorInv
    /\ OldInv
    /\ NewInv
    /\ ReclaimInv
    /\ GraceInv

-----------------------------------------------------------------------------
(* One lemma for each kind of step.                                        *)

\* The parts of the invariant that speak of the list and of the readers.
ListParts == HoldersInv /\ ListConsistent /\ RankInv
\* A step that leaves the list and the unlinked nodes alone.
LEMMA QuietStep ==
    ASSUME IInv, TypeOK', readers \subseteq readers',
           UNCHANGED <<nst, nxt, prv, holders>>
    PROVE  ListParts'
  <1>1. HoldersInv'
    BY DEF IInv, HoldersInv, Safe
  <1>2. ListConsistent' /\ RankInv'
    BY DEF IInv, ListConsistent, OnList, RankInv, Ranked
  <1> QED
    BY <1>1, <1>2 DEF ListParts


LEMMA CallStep ==
    ASSUME IInv, TypeOK', Shape', NEW t \in Tasks, NEW o \in Calls[t], NEW i \in Ids,
           NEW a \in AsyncArg(o), Call(t, o, i, a)
    PROVE  IInv'
  <1> USE ConstantsAssumption DEF Goto, heap, links, rcu, aux, Ptrs, NoCall, Op, Ops,
        ReadSide, UnlinkingOps, UpdateOps, Updates, Unlinks
  <1>1. ListParts'
    BY QuietStep DEF Call
  <1>2. ControlInv'
    BY DEF IInv, TypeOK, ControlInv, HoldsLock, InSection, Call
  <1>3. CursorInv' /\ OldInv'
    BY DEF IInv, TypeOK, Shape, ShapeOf, CursorInv, Safe, PinningOps, OldInv, Call
  <1>4. NewInv' /\ GraceInv'
    BY DEF IInv, TypeOK, Shape, ShapeOf, NewInv, HasNew, GraceInv, Call
  <1>5. \A u \in Tasks : Reclaiming(u)' <=> Reclaiming(u)
    BY DEF IInv, TypeOK, Shape, ShapeOf, Reclaiming, Call
  <1>6. ReclaimInv'
    BY <1>5 DEF IInv, ReclaimInv, Call
  <1> QED
    BY <1>1, <1>2, <1>3, <1>4, <1>6 DEF IInv, ListParts

\* The steps that only change the locals of a task, or books_lock.
LEMMA LocalStep ==
    ASSUME SingleUpdater, IInv, TypeOK', Shape', NEW t \in Tasks,
           \/ Walk(t) /\ Op(t) \in ReadSide \cup {"delete"}
           \/ Test(t, "leave") /\ Op(t) = "print"
           \/ Test(t, "drop") /\ Op(t) = "is_borrowed"
           \/ Test(t, "unlink") /\ Op(t) = "delete"
           \/ (\E b \in {0, 1} : UpdateTest(t, b)) /\ Updates(t)
           \/ AddAllocFails(t) /\ Op(t) = "add"
           \/ UpdateAllocFails(t) /\ Updates(t)
           \/ Lock(t, "link") /\ Op(t) \in UpdateOps \cup {"add"}
           \/ Lock(t, "walk") /\ Op(t) = "delete"
           \/ Unlock(t, "exit") /\ Updates(t)
           \/ Unlock(t, "reclaim") /\ Op(t) = "delete"
           \/ UnlockReturn(t, "unlock") /\ Op(t) = "add"
           \/ UnlockReturn(t, "miss") /\ Op(t) = "delete"
           \/ IsBorrowedRead(t) /\ Op(t) = "is_borrowed"
    PROVE  IInv'
  <1> USE ConstantsAssumption DEF Goto, heap, links, rcu, aux, Ptrs, NoCall, Op, Ops,
        ReadSide, UnlinkingOps, UpdateOps, Updates, Unlinks
  <1>1. CASE Walk(t) /\ Op(t) \in ReadSide \cup {"delete"}
    <2>1. ListParts'
      BY <1>1, QuietStep DEF Walk
    <2>2. ControlInv' /\ CursorInv' /\ OldInv'
      <3>1. ControlInv'
        BY <1>1 DEF IInv, TypeOK, Shape, ShapeOf, ControlInv, HoldsLock, InSection, Walk
      <3>2. CursorInv'
        BY <1>1 DEF IInv, TypeOK, Shape, ShapeOf, CursorInv, Safe, PinningOps, HoldersInv,
           ListConsistent, OnList, Walk
      <3>3. OldInv'
        BY <1>1 DEF IInv, TypeOK, Shape, ShapeOf, CursorInv, PinningOps, OldInv, Walk
      <3> QED
        BY <3>1, <3>2, <3>3
    <2>3. NewInv' /\ GraceInv'
      BY <1>1 DEF IInv, TypeOK, Shape, ShapeOf, NewInv, HasNew, GraceInv, Walk
    <2>4. ReclaimInv'
      <3>1. \A u \in Tasks : /\ Reclaiming(u)' <=> Reclaiming(u)
                             /\ Reclaiming(u) => old'[u] = old[u]
        BY <1>1 DEF IInv, TypeOK, Shape, ShapeOf, Reclaiming, Walk
      <3> QED
        BY <1>1, <3>1 DEF IInv, ReclaimInv, Walk
    <2> QED
      BY <2>1, <2>2, <2>3, <2>4 DEF IInv, ListParts
  <1>2. CASE Test(t, "leave") /\ Op(t) = "print"
    <2>1. ListParts'
      BY <1>2, QuietStep DEF Test
    <2>2. ControlInv' /\ CursorInv' /\ OldInv'
      BY <1>2 DEF IInv, TypeOK, Shape, ShapeOf, ControlInv, HoldsLock, InSection, CursorInv,
         Safe, PinningOps, OldInv, HoldersInv, ListConsistent, OnList, Test
    <2>3. NewInv' /\ GraceInv'
      BY <1>2 DEF IInv, TypeOK, Shape, ShapeOf, NewInv, HasNew, GraceInv, Test
    <2>4. ReclaimInv'
      <3>1. \A u \in Tasks : /\ Reclaiming(u)' <=> Reclaiming(u)
                             /\ Reclaiming(u) => old'[u] = old[u]
        BY <1>2 DEF IInv, TypeOK, Shape, ShapeOf, Reclaiming, Test
      <3> QED
        BY <1>2, <3>1 DEF IInv, ReclaimInv, Test
    <2> QED
      BY <2>1, <2>2, <2>3, <2>4 DEF IInv, ListParts
  <1>3. CASE Test(t, "drop") /\ Op(t) = "is_borrowed"
    <2>1. ListParts'
      BY <1>3, QuietStep DEF Test
    <2>2. ControlInv' /\ CursorInv' /\ OldInv'
      BY <1>3 DEF IInv, TypeOK, Shape, ShapeOf, ControlInv, HoldsLock, InSection, CursorInv,
         Safe, PinningOps, OldInv, HoldersInv, ListConsistent, OnList, Test
    <2>3. NewInv' /\ GraceInv'
      BY <1>3 DEF IInv, TypeOK, Shape, ShapeOf, NewInv, HasNew, GraceInv, Test
    <2>4. ReclaimInv'
      <3>1. \A u \in Tasks : /\ Reclaiming(u)' <=> Reclaiming(u)
                             /\ Reclaiming(u) => old'[u] = old[u]
        BY <1>3 DEF IInv, TypeOK, Shape, ShapeOf, Reclaiming, Test
      <3> QED
        BY <1>3, <3>1 DEF IInv, ReclaimInv, Test
    <2> QED
      BY <2>1, <2>2, <2>3, <2>4 DEF IInv, ListParts
  <1>4. CASE Test(t, "unlink") /\ Op(t) = "delete"
    <2>1. ListParts'
      BY <1>4, QuietStep DEF Test
    <2>2. ControlInv' /\ CursorInv' /\ OldInv'
      BY <1>4 DEF IInv, TypeOK, Shape, ShapeOf, ControlInv, HoldsLock, InSection, CursorInv,
         Safe, PinningOps, OldInv, HoldersInv, ListConsistent, OnList, Test
    <2>3. NewInv' /\ GraceInv'
      BY <1>4 DEF IInv, TypeOK, Shape, ShapeOf, NewInv, HasNew, GraceInv, Test
    <2>4. ReclaimInv'
      <3>1. \A u \in Tasks : /\ Reclaiming(u)' <=> Reclaiming(u)
                             /\ Reclaiming(u) => old'[u] = old[u]
        BY <1>4 DEF IInv, TypeOK, Shape, ShapeOf, Reclaiming, Test
      <3> QED
        BY <1>4, <3>1 DEF IInv, ReclaimInv, Test
    <2> QED
      BY <2>1, <2>2, <2>3, <2>4 DEF IInv, ListParts
  <1>5. CASE (\E b \in {0, 1} : UpdateTest(t, b)) /\ Updates(t)
    <2>0. PICK l \in {"alloc", "leave", "walk"} :
            /\ pc[t] = "test" /\ pc' = [pc EXCEPT ![t] = l]
            /\ old' = IF l = "alloc" THEN [old EXCEPT ![t] = cur[t]] ELSE old
            /\ UNCHANGED <<heap, links, lock, rcu, call, cur, new, aux>>
      BY <1>5 DEF UpdateTest
    <2>1. ListParts'
      BY <2>0, QuietStep
    <2>2. ControlInv'
      BY <1>5, <2>0 DEF IInv, TypeOK, ControlInv, HoldsLock, InSection
    <2>3. CursorInv'
      BY <2>0 DEF IInv, TypeOK, CursorInv, Safe, PinningOps
    <2>4. OldInv'
      BY <1>5, <2>0 DEF IInv, TypeOK, Shape, ShapeOf, CursorInv, PinningOps, OldInv
    <2>5. NewInv'
      BY <2>0 DEF IInv, TypeOK, NewInv, HasNew
    <2>6. \A u \in Tasks : /\ Reclaiming(u)' <=> Reclaiming(u)
                           /\ Reclaiming(u) => old'[u] = old[u]
      BY <2>0 DEF IInv, TypeOK, Reclaiming
    <2>7. ReclaimInv'
      BY <2>0, <2>6 DEF IInv, ReclaimInv
    <2>8. \A u \in Tasks : pc'[u] = "sync" => pc[u] = "sync" /\ old'[u] = old[u]
      BY <2>0 DEF IInv, TypeOK
    <2>9. GraceInv'
      BY <2>0, <2>8 DEF IInv, GraceInv
    <2> QED
      BY <2>1, <2>2, <2>3, <2>4, <2>5, <2>7, <2>9 DEF IInv, ListParts
  <1>6. CASE AddAllocFails(t) /\ Op(t) = "add"
    <2>1. ListParts'
      BY <1>6, QuietStep DEF AddAllocFails, Return
    <2>2. ControlInv' /\ CursorInv' /\ OldInv'
      BY <1>6 DEF IInv, TypeOK, Shape, ShapeOf, ControlInv, HoldsLock, InSection, CursorInv,
         Safe, PinningOps, OldInv, HoldersInv, ListConsistent, OnList, AddAllocFails, Return
    <2>3. NewInv' /\ GraceInv'
      BY <1>6 DEF IInv, TypeOK, Shape, ShapeOf, NewInv, HasNew, GraceInv, AddAllocFails, Return
    <2>4. ReclaimInv'
      <3>1. \A u \in Tasks : /\ Reclaiming(u)' <=> Reclaiming(u)
                             /\ Reclaiming(u) => old'[u] = old[u]
        BY <1>6 DEF IInv, TypeOK, Shape, ShapeOf, Reclaiming, AddAllocFails, Return
      <3> QED
        BY <1>6, <3>1 DEF IInv, ReclaimInv, AddAllocFails, Return
    <2> QED
      BY <2>1, <2>2, <2>3, <2>4 DEF IInv, ListParts
  <1>7. CASE UpdateAllocFails(t) /\ Updates(t)
    <2>1. ListParts'
      BY <1>7, QuietStep DEF UpdateAllocFails
    <2>2. ControlInv' /\ CursorInv' /\ OldInv'
      BY <1>7 DEF IInv, TypeOK, Shape, ShapeOf, ControlInv, HoldsLock, InSection, CursorInv,
         Safe, PinningOps, OldInv, HoldersInv, ListConsistent, OnList, UpdateAllocFails
    <2>3. NewInv' /\ GraceInv'
      BY <1>7 DEF IInv, TypeOK, Shape, ShapeOf, NewInv, HasNew, GraceInv, UpdateAllocFails
    <2>4. ReclaimInv'
      <3>1. \A u \in Tasks : /\ Reclaiming(u)' <=> Reclaiming(u)
                             /\ Reclaiming(u) => old'[u] = old[u]
        BY <1>7 DEF IInv, TypeOK, Shape, ShapeOf, Reclaiming, UpdateAllocFails
      <3> QED
        BY <1>7, <3>1 DEF IInv, ReclaimInv, UpdateAllocFails
    <2> QED
      BY <2>1, <2>2, <2>3, <2>4 DEF IInv, ListParts
  <1>8. CASE Lock(t, "link") /\ Op(t) \in UpdateOps \cup {"add"}
    <2>1. ListParts'
      BY <1>8, QuietStep DEF Lock
    <2>2. ControlInv' /\ CursorInv' /\ OldInv'
      BY <1>8 DEF IInv, TypeOK, Shape, ShapeOf, ControlInv, HoldsLock, InSection, CursorInv,
         Safe, PinningOps, OldInv, HoldersInv, ListConsistent, OnList, Lock
    <2>3. NewInv' /\ GraceInv'
      BY <1>8 DEF IInv, TypeOK, Shape, ShapeOf, NewInv, HasNew, GraceInv, Lock
    <2>4. ReclaimInv'
      <3>1. \A u \in Tasks : /\ Reclaiming(u)' <=> Reclaiming(u)
                             /\ Reclaiming(u) => old'[u] = old[u]
        BY <1>8 DEF IInv, TypeOK, Shape, ShapeOf, Reclaiming, Lock
      <3> QED
        BY <1>8, <3>1 DEF IInv, ReclaimInv, Lock
    <2> QED
      BY <2>1, <2>2, <2>3, <2>4 DEF IInv, ListParts
  <1>9. CASE Lock(t, "walk") /\ Op(t) = "delete"
    <2>1. ListParts'
      BY <1>9, QuietStep DEF Lock
    <2>2. ControlInv' /\ CursorInv' /\ OldInv'
      BY <1>9 DEF IInv, TypeOK, Shape, ShapeOf, ControlInv, HoldsLock, InSection, CursorInv,
         Safe, PinningOps, OldInv, HoldersInv, ListConsistent, OnList, Lock
    <2>3. NewInv' /\ GraceInv'
      BY <1>9 DEF IInv, TypeOK, Shape, ShapeOf, NewInv, HasNew, GraceInv, Lock
    <2>4. ReclaimInv'
      <3>1. \A u \in Tasks : /\ Reclaiming(u)' <=> Reclaiming(u)
                             /\ Reclaiming(u) => old'[u] = old[u]
        BY <1>9 DEF IInv, TypeOK, Shape, ShapeOf, Reclaiming, Lock
      <3> QED
        BY <1>9, <3>1 DEF IInv, ReclaimInv, Lock
    <2> QED
      BY <2>1, <2>2, <2>3, <2>4 DEF IInv, ListParts
  <1>10. CASE Unlock(t, "exit") /\ Updates(t)
    <2>1. ListParts'
      BY <1>10, QuietStep DEF Unlock
    <2>2. ControlInv' /\ CursorInv' /\ OldInv'
      BY <1>10 DEF IInv, TypeOK, Shape, ShapeOf, ControlInv, HoldsLock, InSection, CursorInv,
         Safe, PinningOps, OldInv, HoldersInv, ListConsistent, OnList, Unlock
    <2>3. NewInv' /\ GraceInv'
      BY <1>10 DEF IInv, TypeOK, Shape, ShapeOf, NewInv, HasNew, GraceInv, Unlock
    <2>4. ReclaimInv'
      <3>1. \A u \in Tasks : /\ Reclaiming(u)' <=> Reclaiming(u)
                             /\ Reclaiming(u) => old'[u] = old[u]
        BY <1>10 DEF IInv, TypeOK, Shape, ShapeOf, Reclaiming, Unlock
      <3> QED
        BY <1>10, <3>1 DEF IInv, ReclaimInv, Unlock
    <2> QED
      BY <2>1, <2>2, <2>3, <2>4 DEF IInv, ListParts
  <1>11. CASE Unlock(t, "reclaim") /\ Op(t) = "delete"
    <2>1. ListParts'
      BY <1>11, QuietStep DEF Unlock
    <2>2. ControlInv' /\ CursorInv' /\ OldInv'
      BY <1>11 DEF IInv, TypeOK, Shape, ShapeOf, ControlInv, HoldsLock, InSection, CursorInv,
         Safe, PinningOps, OldInv, HoldersInv, ListConsistent, OnList, Unlock
    <2>3. NewInv' /\ GraceInv'
      BY <1>11 DEF IInv, TypeOK, Shape, ShapeOf, NewInv, HasNew, GraceInv, Unlock
    <2>4. ReclaimInv'
      <3>1. \A u \in Tasks : /\ Reclaiming(u)' <=> Reclaiming(u)
                             /\ Reclaiming(u) => old'[u] = old[u]
        BY <1>11 DEF IInv, TypeOK, Shape, ShapeOf, Reclaiming, Unlock
      <3> QED
        BY <1>11, <3>1 DEF IInv, ReclaimInv, Unlock
    <2> QED
      BY <2>1, <2>2, <2>3, <2>4 DEF IInv, ListParts
  <1>12. CASE UnlockReturn(t, "unlock") /\ Op(t) = "add"
    <2>1. ListParts'
      BY <1>12, QuietStep DEF UnlockReturn, Return
    <2>2. ControlInv' /\ CursorInv' /\ OldInv'
      BY <1>12 DEF IInv, TypeOK, Shape, ShapeOf, ControlInv, HoldsLock, InSection, CursorInv,
         Safe, PinningOps, OldInv, HoldersInv, ListConsistent, OnList, UnlockReturn, Return
    <2>3. NewInv' /\ GraceInv'
      BY <1>12 DEF IInv, TypeOK, Shape, ShapeOf, NewInv, HasNew, GraceInv, UnlockReturn, Return
    <2>4. ReclaimInv'
      <3>1. \A u \in Tasks : /\ Reclaiming(u)' <=> Reclaiming(u)
                             /\ Reclaiming(u) => old'[u] = old[u]
        BY <1>12 DEF IInv, TypeOK, Shape, ShapeOf, Reclaiming, UnlockReturn, Return
      <3> QED
        BY <1>12, <3>1 DEF IInv, ReclaimInv, UnlockReturn, Return
    <2> QED
      BY <2>1, <2>2, <2>3, <2>4 DEF IInv, ListParts
  <1>13. CASE UnlockReturn(t, "miss") /\ Op(t) = "delete"
    <2>1. ListParts'
      BY <1>13, QuietStep DEF UnlockReturn, Return
    <2>2. ControlInv' /\ CursorInv' /\ OldInv'
      BY <1>13 DEF IInv, TypeOK, Shape, ShapeOf, ControlInv, HoldsLock, InSection, CursorInv,
         Safe, PinningOps, OldInv, HoldersInv, ListConsistent, OnList, UnlockReturn, Return
    <2>3. NewInv' /\ GraceInv'
      BY <1>13 DEF IInv, TypeOK, Shape, ShapeOf, NewInv, HasNew, GraceInv, UnlockReturn, Return
    <2>4. ReclaimInv'
      <3>1. \A u \in Tasks : /\ Reclaiming(u)' <=> Reclaiming(u)
                             /\ Reclaiming(u) => old'[u] = old[u]
        BY <1>13 DEF IInv, TypeOK, Shape, ShapeOf, Reclaiming, UnlockReturn, Return
      <3> QED
        BY <1>13, <3>1 DEF IInv, ReclaimInv, UnlockReturn, Return
    <2> QED
      BY <2>1, <2>2, <2>3, <2>4 DEF IInv, ListParts
  <1>14. CASE IsBorrowedRead(t) /\ Op(t) = "is_borrowed"
    <2>1. ListParts'
      BY <1>14, QuietStep DEF IsBorrowedRead, Return
    <2>2. ControlInv' /\ CursorInv' /\ OldInv'
      BY <1>14 DEF IInv, TypeOK, Shape, ShapeOf, ControlInv, HoldsLock, InSection, CursorInv,
         Safe, PinningOps, OldInv, HoldersInv, ListConsistent, OnList, IsBorrowedRead, Return
    <2>3. NewInv' /\ GraceInv'
      BY <1>14 DEF IInv, TypeOK, Shape, ShapeOf, NewInv, HasNew, GraceInv, IsBorrowedRead, Return
    <2>4. ReclaimInv'
      <3>1. \A u \in Tasks : /\ Reclaiming(u)' <=> Reclaiming(u)
                             /\ Reclaiming(u) => old'[u] = old[u]
        BY <1>14 DEF IInv, TypeOK, Shape, ShapeOf, Reclaiming, IsBorrowedRead, Return
      <3> QED
        BY <1>14, <3>1 DEF IInv, ReclaimInv, IsBorrowedRead, Return
    <2> QED
      BY <2>1, <2>2, <2>3, <2>4 DEF IInv, ListParts
  <1> QED
    BY <1>1, <1>2, <1>3, <1>4, <1>5, <1>6, <1>7, <1>8, <1>9, <1>10, <1>11, <1>12, <1>13, <1>14

LEMMA AllocStep ==
    ASSUME IInv, TypeOK', Shape', NEW t \in Tasks, NEW id, NEW b, Alloc(t, id, b),
           Op(t) \in UpdateOps \cup {"add"}
    PROVE  IInv'
  <1> USE ConstantsAssumption DEF Goto, heap, links, rcu, aux, Ptrs, NoCall, Op, Ops,
        ReadSide, UnlinkingOps, UpdateOps, Updates, Unlinks
  <1> PICK n \in Nodes :
        /\ nst[n] = "free"
        /\ nst' = [nst EXCEPT ![n] = "new"]
        /\ new' = [new EXCEPT ![t] = n]
    BY DEF Alloc
  <1>1. /\ UNCHANGED <<nxt, prv, lock, readers, gp, cbs, call, cur, old, holders>>
        /\ pc[t] = "alloc" /\ pc' = [pc EXCEPT ![t] = "lock"]
    BY DEF Alloc
  <1>2. \A m \in Nodes : nst[m] # "free" => nst'[m] = nst[m]
    BY DEF IInv, TypeOK
  <1>3. HoldersInv'
    BY <1>1, <1>2 DEF IInv, TypeOK, HoldersInv, Safe
  <1>4. ListConsistent' /\ RankInv'
    <2>1. \A m \in Nodes : nst'[m] = "linked" <=> nst[m] = "linked"
      BY DEF IInv, TypeOK
    <2>2. \A p : OnList(p)' <=> OnList(p)
      BY <2>1 DEF OnList
    <2>3. ListConsistent'
      BY <1>1, <2>2 DEF IInv, ListConsistent
    <2>4. PICK rk \in [Nodes -> Nat] : Ranked(rk)
      BY DEF IInv, RankInv
    <2>5. Ranked(rk)'
      BY <1>1, <2>1, <2>4 DEF Ranked
    <2> QED
      BY <2>3, <2>5 DEF RankInv
  <1>5. ControlInv' /\ OldInv'
    BY <1>1, <1>2 DEF IInv, TypeOK, Shape, ShapeOf, ControlInv, HoldsLock, InSection, OldInv
  <1>6. CursorInv'
    BY <1>1, <1>2 DEF IInv, TypeOK, Shape, ShapeOf, CursorInv, Safe, PinningOps
  <1>7. NewInv'
    BY <1>1, <1>2 DEF IInv, TypeOK, Shape, ShapeOf, NewInv, HasNew
  <1>8. \A u \in Tasks : Reclaiming(u)' <=> Reclaiming(u)
    BY <1>1 DEF IInv, TypeOK, Reclaiming
  <1>9. ReclaimInv' /\ GraceInv'
    BY <1>1, <1>2, <1>8 DEF IInv, TypeOK, Shape, ShapeOf, ReclaimInv, GraceInv, Reclaiming
  <1> QED
    BY <1>3, <1>4, <1>5, <1>6, <1>7, <1>9 DEF IInv

\* What the list invariants say of one node on the list, and of the head.
LEMMA Neighbours ==
    ASSUME IInv, NEW p, OnList(p)
    PROVE  /\ OnList(nxt[p]) /\ prv[nxt[p]] = p
           /\ OnList(prv[p]) /\ nxt[prv[p]] = p
           /\ p # Books => nxt[p] # p /\ prv[p] # p
           /\ p # Books /\ nxt[p] = prv[p] => nxt[p] = Books
  <1>1. /\ OnList(nxt[p]) /\ prv[nxt[p]] = p
        /\ OnList(prv[p]) /\ nxt[prv[p]] = p
    BY DEF IInv, ListConsistent, OnList, Ptrs
  <1>2. PICK rk \in [Nodes -> Nat] : Ranked(rk)
    BY DEF IInv, RankInv
  <1>3. p # Books => /\ nxt[p] # Books => rk[nxt[p]] < rk[p]
                     /\ prv[p] # Books => rk[p] < rk[prv[p]]
    BY <1>1, <1>2 DEF Ranked, OnList
  <1>4. ASSUME NEW x \in Nodes, NEW y \in Nodes, rk[x] < rk[y] PROVE x # y /\ ~(rk[y] < rk[x])
    BY <1>2, <1>4
  <1> QED
    BY <1>1, <1>3, <1>4 DEF OnList

\* list_add_rcu: the new node comes first.
LEMMA AddLinkStep ==
    ASSUME IInv, TypeOK', Shape', NEW t \in Tasks, AddLink(t), Op(t) = "add"
    PROVE  IInv'
  <1> USE ConstantsAssumption DEF Goto, heap, links, rcu, aux, Ptrs, NoCall, Op, Ops,
        ReadSide, UnlinkingOps, UpdateOps, Updates, Unlinks
  <1>0. PICK n, f : n = new[t] /\ f = nxt[Books]
    OBVIOUS
  <1>1. n \in Nodes /\ nst[n] = "new" /\ n # Books
    BY <1>0 DEF IInv, Shape, ShapeOf, NewInv, HasNew, AddLink
  <1>2. OnList(f) /\ prv[f] = Books /\ f # n
    BY <1>0, <1>1, Neighbours DEF OnList
  <1>3. /\ nst' = [nst EXCEPT ![n] = "linked"]
        /\ nxt' = [nxt EXCEPT ![n] = f, ![Books] = n]
        /\ prv' = [prv EXCEPT ![n] = Books, ![f] = n]
        /\ UNCHANGED <<lock, readers, gp, cbs, call, cur, old, new, holders>>
        /\ pc[t] = "link" /\ pc' = [pc EXCEPT ![t] = "unlock"]
    BY <1>0 DEF AddLink, list_add_rcu
  <1>4. \A p : OnList(p)' <=> OnList(p) \/ p = n
    BY <1>1, <1>3 DEF IInv, TypeOK, OnList
  <1>5. ListConsistent'
    <2> SUFFICES ASSUME NEW p \in Ptrs, OnList(p)'
                 PROVE  (/\ OnList(nxt[p]) /\ prv[nxt[p]] = p
                         /\ OnList(prv[p]) /\ nxt[prv[p]] = p)'
      BY DEF ListConsistent
    <2>1. CASE p = n
      BY <1>1, <1>2, <1>3, <1>4, <2>1 DEF IInv, TypeOK, OnList
    <2>2. CASE p = Books
      BY <1>1, <1>2, <1>3, <1>4, <2>2, <1>0, Neighbours DEF IInv, TypeOK, OnList
    <2>3. CASE p # n /\ p # Books
      <3>1. OnList(p)
        BY <1>4, <2>3
      <3> QED
        BY <1>1, <1>2, <1>3, <1>4, <2>3, <3>1, <1>0, Neighbours DEF IInv, TypeOK, OnList
    <2> QED
      BY <2>1, <2>2, <2>3
  <1>6. RankInv'
    <2>1. PICK rk \in [Nodes -> Nat] : Ranked(rk)
      BY DEF IInv, RankInv
    <2>2. PICK k \in Nat : k = IF f = Books THEN 0 ELSE rk[f] + 1
      BY <1>2, <2>1 DEF OnList
    <2> DEFINE r == [rk EXCEPT ![n] = k]
    <2> r \in [Nodes -> Nat]
      BY <2>1, <2>2
    <2>3. Ranked(r)'
      <3> SUFFICES ASSUME NEW p \in Nodes, nst'[p] = "linked", nxt'[p] # Books
                   PROVE  r[nxt'[p]] < r[p]
        BY DEF Ranked
      <3>1. CASE p = n
        BY <1>1, <1>2, <1>3, <2>1, <2>2, <3>1 DEF IInv, TypeOK, OnList
      <3>2. CASE p # n
        <4>1. nxt'[p] = nxt[p] /\ nst[p] = "linked"
          BY <1>1, <1>3, <3>2 DEF IInv, TypeOK
        <4>2. nxt[p] \in Nodes /\ nxt[p] # n
          BY <1>1, <4>1, Neighbours DEF OnList
        <4> QED
          BY <1>1, <2>1, <2>2, <3>2, <4>1, <4>2 DEF Ranked
      <3> QED
        BY <3>1, <3>2
    <2> QED
      BY <2>3 DEF RankInv
  <1>7. HoldersInv'
    BY <1>1, <1>3 DEF IInv, TypeOK, HoldersInv, Safe
  <1>8. ControlInv' /\ OldInv'
    BY <1>3 DEF IInv, TypeOK, Shape, ShapeOf, ControlInv, HoldsLock, InSection, OldInv
  <1>9. CursorInv'
    BY <1>1, <1>3 DEF IInv, TypeOK, Shape, ShapeOf, CursorInv, Safe, PinningOps
  <1>10. NewInv'
    BY <1>0, <1>1, <1>3 DEF IInv, TypeOK, Shape, ShapeOf, NewInv, HasNew
  <1>11. \A u \in Tasks : Reclaiming(u)' <=> Reclaiming(u)
    BY <1>3 DEF IInv, TypeOK, Reclaiming
  <1>12. ReclaimInv' /\ GraceInv'
    BY <1>1, <1>3, <1>11 DEF IInv, TypeOK, Shape, ShapeOf, ReclaimInv, GraceInv
  <1> QED
    BY <1>5, <1>6, <1>7, <1>8, <1>9, <1>10, <1>12 DEF IInv

\* list_replace_rcu: the copy takes the place of the node; nobody but the
\* only updater could have taken that node off the list before.
LEMMA ReplaceStep ==
    ASSUME SingleUpdater, IInv, TypeOK', Shape', NEW t \in Tasks, UpdateReplace(t), Updates(t)
    PROVE  IInv'
  <1> USE ConstantsAssumption DEF Goto, heap, links, rcu, aux, Ptrs, NoCall, Op, Ops,
        ReadSide, UnlinkingOps, UpdateOps, Updates, Unlinks
  <1>0. PICK o, n, p, q : o = old[t] /\ n = new[t] /\ p = prv[o] /\ q = nxt[o]
    OBVIOUS
  <1>1. /\ o \in Nodes /\ nst[o] = "linked" /\ n \in Nodes /\ nst[n] = "new" /\ o # n
        /\ o # Books /\ n # Books
    BY <1>0 DEF IInv, Shape, ShapeOf, OldInv, NewInv, HasNew, UpdateReplace
  <1>2. /\ OnList(p) /\ OnList(q) /\ p # o /\ q # o /\ p # n /\ q # n
        /\ nxt[p] = o /\ prv[q] = o /\ (p = q => p = Books)
    BY <1>0, <1>1, Neighbours DEF OnList
  <1>3. /\ nst' = [nst EXCEPT ![o] = "gone", ![n] = "linked"]
        /\ nxt' = [nxt EXCEPT ![n] = q, ![p] = n]
        /\ prv' = [prv EXCEPT ![n] = p, ![q] = n, ![o] = Poison]
        /\ holders' = [holders EXCEPT ![o] = readers]
        /\ UNCHANGED <<lock, readers, gp, cbs, call, cur, old, new>>
        /\ pc[t] = "link" /\ pc' = [pc EXCEPT ![t] = "unlock"]
    BY <1>0 DEF UpdateReplace, list_replace_rcu
  <1>4. \A x : OnList(x)' <=> (OnList(x) /\ x # o) \/ x = n
    BY <1>1, <1>3 DEF IInv, TypeOK, OnList
  <1>5. ListConsistent'
    <2> SUFFICES ASSUME NEW x \in Ptrs, OnList(x)'
                 PROVE  (/\ OnList(nxt[x]) /\ prv[nxt[x]] = x
                         /\ OnList(prv[x]) /\ nxt[prv[x]] = x)'
      BY DEF ListConsistent
    <2>1. CASE x = n
      BY <1>1, <1>2, <1>3, <1>4, <2>1 DEF IInv, TypeOK, OnList
    <2>2. CASE x # n
      <3>1. OnList(x) /\ x # o
        BY <1>4, <2>2
      <3>2. /\ OnList(nxt[x]) /\ prv[nxt[x]] = x /\ OnList(prv[x]) /\ nxt[prv[x]] = x
        BY <3>1, Neighbours
      <3>3. (OnList(nxt[x]) /\ prv[nxt[x]] = x)'
        <4>1. CASE x = p
          BY <1>1, <1>2, <1>3, <1>4, <2>2, <4>1 DEF IInv, TypeOK, OnList
        <4>2. CASE x # p
          <5>1. nxt[x] # o /\ nxt[x] # q /\ nxt[x] # n
            BY <1>0, <1>1, <1>2, <3>1, <3>2, <4>2 DEF OnList
          <5> QED
            BY <1>1, <1>2, <1>3, <1>4, <2>2, <3>1, <3>2, <4>2, <5>1 DEF IInv, TypeOK, OnList
        <4> QED
          BY <4>1, <4>2
      <3>4. (OnList(prv[x]) /\ nxt[prv[x]] = x)'
        <4>1. CASE x = q
          BY <1>1, <1>2, <1>3, <1>4, <2>2, <4>1 DEF IInv, TypeOK, OnList
        <4>2. CASE x # q
          <5>1. prv[x] # o /\ prv[x] # p /\ prv[x] # n
            BY <1>0, <1>1, <1>2, <3>1, <3>2, <4>2 DEF OnList
          <5> QED
            BY <1>1, <1>2, <1>3, <1>4, <2>2, <3>1, <3>2, <4>2, <5>1 DEF IInv, TypeOK, OnList
        <4> QED
          BY <4>1, <4>2
      <3> QED
        BY <3>3, <3>4
    <2> QED
      BY <2>1, <2>2
  <1>6. RankInv'
    <2>1. PICK rk \in [Nodes -> Nat] : Ranked(rk)
      BY DEF IInv, RankInv
    <2> DEFINE r == [rk EXCEPT ![n] = rk[o]]
    <2>2. r \in [Nodes -> Nat]
      BY <1>1, <2>1
    <2>3. Ranked(r)'
      <3> SUFFICES ASSUME NEW x \in Nodes, nst'[x] = "linked", nxt'[x] # Books
                   PROVE  r[nxt'[x]] < r[x]
        BY DEF Ranked
      <3>1. x = n \/ (nst[x] = "linked" /\ x # o)
        BY <1>1, <1>3 DEF IInv, TypeOK
      <3>2. CASE x = n
        BY <1>0, <1>1, <1>2, <1>3, <2>1, <3>2 DEF IInv, TypeOK, OnList, Ranked
      <3>3. CASE x # n /\ x = p
        BY <1>0, <1>1, <1>2, <1>3, <2>1, <3>1, <3>3 DEF IInv, TypeOK, OnList, Ranked
      <3>4. CASE x # n /\ x # p
        <4>1. nxt'[x] = nxt[x] /\ nxt[x] # n /\ nxt[x] \in Nodes
          BY <1>1, <1>3, <3>1, <3>4, Neighbours DEF IInv, TypeOK, OnList
        <4> QED
          BY <1>1, <2>1, <3>1, <3>4, <4>1 DEF Ranked
      <3> QED
        BY <3>2, <3>3, <3>4
    <2> QED
      BY <2>2, <2>3 DEF RankInv
  <1>7. \A u \in Tasks, x \in Ptrs : Safe(u, x) /\ u \in readers => Safe(u, x)'
    BY <1>1, <1>3 DEF IInv, TypeOK, Safe
  <1>8. HoldersInv'
    <2> SUFFICES ASSUME NEW m \in Nodes, NEW u \in Tasks, u \in holders'[m]
                 PROVE  (u \in readers /\ nst[m] = "gone" /\ Safe(u, nxt[m]))'
      BY DEF HoldersInv
    <2>1. CASE m = o
      BY <1>0, <1>1, <1>2, <1>3, <1>4, <2>1 DEF IInv, TypeOK, OnList, Safe
    <2>2. CASE m # o
      <3>1. u \in holders[m] /\ u \in readers /\ nst[m] = "gone" /\ Safe(u, nxt[m])
        BY <1>1, <1>3, <2>2 DEF IInv, TypeOK, HoldersInv
      <3>2. m # n /\ m # p
        BY <1>1, <1>2, <3>1 DEF OnList
      <3> QED
        BY <1>1, <1>2, <1>3, <1>7, <2>2, <3>1, <3>2 DEF IInv, TypeOK
    <2> QED
      BY <2>1, <2>2
  <1>9. ControlInv'
    BY <1>3 DEF IInv, TypeOK, Shape, ShapeOf, ControlInv, HoldsLock, InSection
  <1>11. \A u \in Tasks : u # t => Op(u) \notin PinningOps
    BY DEF IInv, ControlInv, SingleUpdater, PinningOps, TypeOK
  <1>12. CursorInv'
    BY <1>1, <1>3, <1>7, <1>11 DEF IInv, TypeOK, Shape, ShapeOf, CursorInv, PinningOps,
       ControlInv, HoldsLock, InSection
  <1>13. OldInv'
    BY <1>3, <1>11 DEF IInv, TypeOK, OldInv, PinningOps
  <1>14. NewInv'
    BY <1>0, <1>1, <1>3 DEF IInv, TypeOK, Shape, ShapeOf, NewInv, HasNew
  <1>15. ReclaimInv'
    BY <1>0, <1>1, <1>3 DEF IInv, TypeOK, Shape, ShapeOf, ReclaimInv, Reclaiming
  <1>16. GraceInv'
    BY <1>0, <1>1, <1>3 DEF IInv, TypeOK, Shape, ShapeOf, GraceInv, ReclaimInv, Reclaiming
  <1> QED
    BY <1>5, <1>6, <1>8, <1>9, <1>12, <1>13, <1>14, <1>15, <1>16 DEF IInv

\* list_del_rcu: delete_book holds books_lock since before its walk.
LEMMA UnlinkStep ==
    ASSUME SingleUpdater, IInv, TypeOK', Shape', NEW t \in Tasks, DeleteUnlink(t), Op(t) = "delete"
    PROVE  IInv'
  <1> USE ConstantsAssumption DEF Goto, heap, links, rcu, aux, Ptrs, NoCall, Op, Ops,
        ReadSide, UnlinkingOps, UpdateOps, Updates, Unlinks
  <1>0. PICK o, p, q : o = cur[t] /\ p = prv[o] /\ q = nxt[o]
    OBVIOUS
  <1>1. o \in Nodes /\ nst[o] = "linked" /\ o # Books
    BY <1>0 DEF IInv, Shape, ShapeOf, CursorInv, DeleteUnlink
  <1>2. /\ OnList(p) /\ OnList(q) /\ p # o /\ q # o
        /\ nxt[p] = o /\ prv[q] = o /\ (p = q => p = Books)
    BY <1>0, <1>1, Neighbours DEF OnList
  <1>3. /\ nst' = [nst EXCEPT ![o] = "gone"]
        /\ nxt' = [nxt EXCEPT ![p] = q]
        /\ prv' = [prv EXCEPT ![q] = p, ![o] = Poison]
        /\ holders' = [holders EXCEPT ![o] = readers]
        /\ old' = [old EXCEPT ![t] = o]
        /\ UNCHANGED <<lock, readers, gp, cbs, call, cur, new>>
        /\ pc[t] = "unlink" /\ pc' = [pc EXCEPT ![t] = "unlock"]
    BY <1>0 DEF DeleteUnlink, list_del_rcu
  <1>4. \A x : OnList(x)' <=> OnList(x) /\ x # o
    BY <1>1, <1>3 DEF IInv, TypeOK, OnList
  <1>5. ListConsistent'
    <2> SUFFICES ASSUME NEW x \in Ptrs, OnList(x)'
                 PROVE  (/\ OnList(nxt[x]) /\ prv[nxt[x]] = x
                         /\ OnList(prv[x]) /\ nxt[prv[x]] = x)'
      BY DEF ListConsistent
    <2>1. OnList(x) /\ x # o
      BY <1>4
    <2>2. /\ OnList(nxt[x]) /\ prv[nxt[x]] = x /\ OnList(prv[x]) /\ nxt[prv[x]] = x
      BY <2>1, Neighbours
    <2>3. (OnList(nxt[x]) /\ prv[nxt[x]] = x)'
      <3>1. CASE x = p
        BY <1>1, <1>2, <1>3, <1>4, <3>1 DEF IInv, TypeOK, OnList
      <3>2. CASE x # p
        <4>1. nxt[x] # o /\ nxt[x] # q
          BY <1>0, <1>1, <1>2, <2>1, <2>2, <3>2 DEF OnList
        <4> QED
          BY <1>1, <1>2, <1>3, <1>4, <2>1, <2>2, <3>2, <4>1 DEF IInv, TypeOK, OnList
      <3> QED
        BY <3>1, <3>2
    <2>4. (OnList(prv[x]) /\ nxt[prv[x]] = x)'
      <3>1. CASE x = q
        BY <1>1, <1>2, <1>3, <1>4, <3>1 DEF IInv, TypeOK, OnList
      <3>2. CASE x # q
        <4>1. prv[x] # o /\ prv[x] # p
          BY <1>0, <1>1, <1>2, <2>1, <2>2, <3>2 DEF OnList
        <4> QED
          BY <1>1, <1>2, <1>3, <1>4, <2>1, <2>2, <3>2, <4>1 DEF IInv, TypeOK, OnList
      <3> QED
        BY <3>1, <3>2
    <2> QED
      BY <2>3, <2>4
  <1>6. RankInv'
    <2>1. PICK rk \in [Nodes -> Nat] : Ranked(rk)
      BY DEF IInv, RankInv
    <2>2. Ranked(rk)'
      <3> SUFFICES ASSUME NEW x \in Nodes, nst'[x] = "linked", nxt'[x] # Books
                   PROVE  rk[nxt'[x]] < rk[x]
        BY DEF Ranked
      <3>1. nst[x] = "linked" /\ x # o
        BY <1>1, <1>3 DEF IInv, TypeOK
      <3>2. CASE x = p
        <4>1. nxt'[x] = q /\ q \in Nodes
          BY <1>2, <1>3, <3>2 DEF IInv, TypeOK, OnList
        <4>2. rk[q] < rk[o] /\ rk[o] < rk[x]
          BY <1>0, <1>1, <1>2, <2>1, <3>1, <3>2, <4>1 DEF Ranked
        <4> QED
          BY <1>1, <2>1, <4>1, <4>2
      <3>3. CASE x # p
        BY <1>3, <2>1, <3>1, <3>3 DEF IInv, TypeOK, Ranked
      <3> QED
        BY <3>2, <3>3
    <2> QED
      BY <2>1, <2>2 DEF RankInv
  <1>7. \A u \in Tasks, x \in Ptrs : Safe(u, x) /\ u \in readers => Safe(u, x)'
    BY <1>1, <1>3 DEF IInv, TypeOK, Safe
  <1>8. HoldersInv'
    <2> SUFFICES ASSUME NEW m \in Nodes, NEW u \in Tasks, u \in holders'[m]
                 PROVE  (u \in readers /\ nst[m] = "gone" /\ Safe(u, nxt[m]))'
      BY DEF HoldersInv
    <2>1. CASE m = o
      BY <1>0, <1>1, <1>2, <1>3, <1>4, <2>1 DEF IInv, TypeOK, OnList, Safe
    <2>2. CASE m # o
      <3>1. u \in holders[m] /\ u \in readers /\ nst[m] = "gone" /\ Safe(u, nxt[m])
        BY <1>1, <1>3, <2>2 DEF IInv, TypeOK, HoldersInv
      <3>2. m # p
        BY <1>1, <1>2, <3>1 DEF OnList
      <3> QED
        BY <1>1, <1>2, <1>3, <1>7, <2>2, <3>1, <3>2 DEF IInv, TypeOK
    <2> QED
      BY <2>1, <2>2
  <1>9. ControlInv'
    BY <1>3 DEF IInv, TypeOK, Shape, ShapeOf, ControlInv, HoldsLock, InSection
  <1>10. \A u \in Tasks : u # t => Op(u) \notin PinningOps
    BY DEF IInv, ControlInv, SingleUpdater, PinningOps, TypeOK
  <1>11. \A u \in Tasks : u # t => ~HoldsLock(u)
    BY <1>3 DEF IInv, ControlInv, HoldsLock
  <1>12. CursorInv'
    BY <1>1, <1>3, <1>7, <1>10, <1>11 DEF IInv, TypeOK, Shape, ShapeOf, CursorInv, PinningOps,
       ControlInv, HoldsLock, InSection
  <1>13. OldInv'
    BY <1>3, <1>10 DEF IInv, TypeOK, OldInv, PinningOps
  <1>14. NewInv'
    BY <1>0, <1>1, <1>3 DEF IInv, TypeOK, Shape, ShapeOf, NewInv, HasNew
  <1>15. ReclaimInv'
    <2>1. \A u \in Tasks : Reclaiming(u)' <=> Reclaiming(u) \/ u = t
      BY <1>3 DEF IInv, TypeOK, Reclaiming
    <2>2. ~Reclaiming(t) /\ old'[t] = o /\ \A u \in Tasks : u # t => old'[u] = old[u]
      BY <1>3 DEF IInv, TypeOK, Reclaiming
    <2> QED
      BY <1>1, <1>3, <2>1, <2>2 DEF IInv, TypeOK, ReclaimInv
  <1>16. GraceInv'
    BY <1>0, <1>1, <1>3 DEF IInv, TypeOK, Shape, ShapeOf, GraceInv, ReclaimInv, Reclaiming
  <1> QED
    BY <1>5, <1>6, <1>8, <1>9, <1>12, <1>13, <1>14, <1>15, <1>16 DEF IInv

\* Leaving a section: the task holds no node any longer that only its section
\* kept from being freed.
LEMMA ReadUnlockStep ==
    ASSUME IInv, TypeOK', Shape', NEW t \in Tasks,
           \/ ReadUnlock(t, "exit", "reclaim") /\ Updates(t)
           \/ ReadUnlock(t, "drop", "late") /\ Op(t) = "is_borrowed"
           \/ ReadUnlockReturn(t) /\ Op(t) \in ReadSide
    PROVE  IInv'
  <1> USE ConstantsAssumption DEF Goto, heap, links, rcu, aux, Ptrs, NoCall, Op, Ops,
        ReadSide, UnlinkingOps, UpdateOps, Updates, Unlinks
  <1>1. /\ readers' = readers \ {t}
        /\ gp' = [n \in Nodes |-> gp[n] \ {t}]
        /\ holders' = [n \in Nodes |-> holders[n] \ {t}]
        /\ UNCHANGED <<nst, nxt, prv, lock, cbs>>
    BY DEF ReadUnlock, ReadUnlockReturn, rcu_read_unlock
  <1>2. HoldersInv'
    BY <1>1 DEF IInv, TypeOK, HoldersInv, Safe
  <1>3. ListConsistent' /\ RankInv'
    BY <1>1 DEF IInv, ListConsistent, OnList, RankInv, Ranked
  <1>4. ControlInv'
    BY <1>1 DEF IInv, TypeOK, Shape, ShapeOf, ControlInv, HoldsLock, InSection, ReadUnlock,
       ReadUnlockReturn, Return
  <1>5. CursorInv' /\ OldInv' /\ NewInv'
    BY <1>1 DEF IInv, TypeOK, Shape, ShapeOf, CursorInv, Safe, PinningOps, OldInv, NewInv,
       HasNew, ReadUnlock, ReadUnlockReturn, Return
  <1>6. \A u \in Tasks : /\ Reclaiming(u)' <=> Reclaiming(u)
                         /\ Reclaiming(u) => old'[u] = old[u]
    BY DEF IInv, TypeOK, Shape, ShapeOf, Reclaiming, ReadUnlock, ReadUnlockReturn, Return
  <1>7. ReclaimInv'
    BY <1>1, <1>6 DEF IInv, ReclaimInv
  <1>8. \A u \in Tasks : pc'[u] = "sync" => pc[u] = "sync" /\ old'[u] = old[u] /\ call'[u] = call[u]
    BY DEF IInv, TypeOK, ReadUnlock, ReadUnlockReturn, Return
  <1>9. GraceInv'
    BY <1>1, <1>8 DEF IInv, TypeOK, Shape, ShapeOf, GraceInv
  <1> QED
    BY <1>2, <1>3, <1>4, <1>5, <1>7, <1>9 DEF IInv

\* call_rcu and synchronize_rcu begin a grace period that waits for every open
\* section, and so for every task that can still reach the node.
LEMMA ReclaimStep ==
    ASSUME IInv, TypeOK', Shape', NEW t \in Tasks, ReclaimAsync(t) \/ ReclaimSync(t), Unlinks(t)
    PROVE  IInv'
  <1> USE ConstantsAssumption DEF Goto, heap, links, rcu, aux, Ptrs, NoCall, Op, Ops,
        ReadSide, UnlinkingOps, UpdateOps, Updates, Unlinks
  <1>0. PICK o \in Nodes : o = old[t] /\ nst[o] = "gone" /\ o \notin cbs
    BY DEF IInv, Shape, ShapeOf, ReclaimInv, Reclaiming, ReclaimAsync, ReclaimSync
  <1>1. /\ gp' = [gp EXCEPT ![o] = readers]
        /\ UNCHANGED <<nst, nxt, prv, lock, readers, holders>>
    BY <1>0 DEF ReclaimAsync, ReclaimSync, start_grace_period
  <1>2. ListParts'
    BY <1>1, QuietStep
  <1>3. ControlInv'
    BY <1>1 DEF IInv, TypeOK, Shape, ShapeOf, ControlInv, HoldsLock, InSection, ReclaimAsync,
       ReclaimSync, Return
  <1>4. CursorInv' /\ OldInv' /\ NewInv'
    <2>1. \A u \in Tasks : u # t => UNCHANGED <<pc[u], call[u], cur[u], old[u], new[u]>>
      BY DEF IInv, TypeOK, ReclaimAsync, ReclaimSync, Return
    <2>2. pc'[t] \in {"idle", "sync"}
      BY DEF IInv, TypeOK, ReclaimAsync, ReclaimSync, Return
    <2>3. CursorInv'
      BY <1>1, <2>1, <2>2 DEF IInv, CursorInv, Safe
    <2>4. OldInv' /\ NewInv'
      BY <1>1, <2>1, <2>2 DEF IInv, OldInv, NewInv, HasNew
    <2> QED
      BY <2>3, <2>4
  <1>5. CASE ReclaimAsync(t)
    <2>1. \A u \in Tasks : /\ Reclaiming(u)' <=> Reclaiming(u) /\ u # t
                           /\ Reclaiming(u) /\ u # t => old'[u] = old[u]
      BY <1>5 DEF IInv, TypeOK, Reclaiming, ReclaimAsync, Return
    <2>2. Reclaiming(t) /\ cbs' = cbs \cup {o}
      BY <1>0, <1>5 DEF Reclaiming, ReclaimAsync
    <2>3. ReclaimInv'
      BY <1>0, <1>1, <2>1, <2>2 DEF IInv, ReclaimInv
    <2>4. \A u \in Tasks : pc'[u] = "sync" => u # t /\ pc[u] = "sync" /\ old'[u] = old[u] /\ call'[u] = call[u]
      BY <1>5 DEF IInv, TypeOK, ReclaimAsync, Return
    <2>5. GraceInv'
      BY <1>0, <1>1, <2>2, <2>4 DEF IInv, TypeOK, GraceInv, HoldersInv
    <2> QED
      BY <1>2, <1>3, <1>4, <2>3, <2>5 DEF IInv, ListParts
  <1>6. CASE ReclaimSync(t)
    <2>1. \A u \in Tasks : (Reclaiming(u)' <=> Reclaiming(u)) /\ old'[u] = old[u]
      BY <1>6 DEF IInv, TypeOK, Reclaiming, ReclaimSync
    <2>2. ReclaimInv'
      BY <1>1, <1>6, <2>1 DEF IInv, ReclaimInv, ReclaimSync
    <2>3. GraceInv'
      BY <1>0, <1>1, <1>6 DEF IInv, TypeOK, GraceInv, HoldersInv, ReclaimSync
    <2> QED
      BY <1>2, <1>3, <1>4, <2>2, <2>3 DEF IInv, ListParts
  <1> QED
    BY <1>5, <1>6

\* The grace period of a node is over: nobody can reach it any longer, and
\* nobody else is going to free it.
LEMMA FreeStep ==
    ASSUME IInv, TypeOK', Shape', NEW o \in Nodes, nst[o] = "gone", holders[o] = {},
           kfree(o), UNCHANGED <<lock, readers, gp, holders>>
    PROVE  ListParts' /\ \A n \in Nodes : n # o => nst'[n] = nst[n]
  <1> USE ConstantsAssumption DEF Goto, heap, links, rcu, aux, Ptrs, NoCall, Op, Ops,
        ReadSide, UnlinkingOps, UpdateOps, Updates, Unlinks
  <1>1. /\ nst' = [nst EXCEPT ![o] = "free"]
        /\ nxt' = [nxt EXCEPT ![o] = Books]
        /\ prv' = [prv EXCEPT ![o] = Poison]
    BY DEF kfree
  <1>2. \A n \in Nodes : (n # o => nst'[n] = nst[n]) /\ (nst'[n] = "linked" <=> nst[n] = "linked")
    BY <1>1 DEF IInv, TypeOK
  <1>3. \A p : OnList(p)' <=> OnList(p)
    BY <1>2 DEF OnList
  <1>4. ~OnList(o)
    BY DEF OnList
  <1>5. ListConsistent'
    BY <1>1, <1>3, <1>4 DEF IInv, TypeOK, ListConsistent
  <1>6. PICK rk \in [Nodes -> Nat] : Ranked(rk)
    BY DEF IInv, RankInv
  <1>7. Ranked(rk)'
    BY <1>1, <1>2, <1>6 DEF IInv, TypeOK, Ranked
  <1>8. HoldersInv'
    BY <1>1, <1>2 DEF IInv, TypeOK, HoldersInv, Safe
  <1> QED
    BY <1>2, <1>5, <1>6, <1>7, <1>8 DEF ListParts, RankInv

LEMMA SyncDoneStep ==
    ASSUME IInv, TypeOK', Shape', NEW t \in Tasks, SyncDone(t), Unlinks(t)
    PROVE  IInv'
  <1> USE ConstantsAssumption DEF Goto, heap, links, rcu, aux, Ptrs, NoCall, Op, Ops,
        ReadSide, UnlinkingOps, UpdateOps, Updates, Unlinks
  <1>0. PICK o \in Nodes : o = old[t] /\ nst[o] = "gone" /\ o \notin cbs
    BY DEF IInv, Shape, ShapeOf, ReclaimInv, Reclaiming, SyncDone
  <1>1. holders[o] = {}
    BY <1>0 DEF IInv, TypeOK, GraceInv, SyncDone
  <1>2. ListParts' /\ \A n \in Nodes : n # o => nst'[n] = nst[n]
    BY <1>0, <1>1, FreeStep DEF SyncDone
  <1>3. nst'[o] = "free"
    BY <1>0 DEF IInv, TypeOK, SyncDone, kfree
  <1>4. ControlInv'
    BY DEF IInv, TypeOK, Shape, ShapeOf, ControlInv, HoldsLock, InSection, SyncDone, Return
  <1>5. CursorInv'
    BY <1>0, <1>1, <1>2 DEF IInv, TypeOK, Shape, ShapeOf, CursorInv, Safe, PinningOps, SyncDone, Return
  <1>6. OldInv' /\ NewInv'
    BY <1>0, <1>2 DEF IInv, TypeOK, Shape, ShapeOf, OldInv, NewInv, HasNew, SyncDone, Return
  <1>7. \A u \in Tasks : /\ Reclaiming(u)' <=> Reclaiming(u) /\ u # t
                         /\ Reclaiming(u) /\ u # t => old'[u] = old[u] /\ old[u] # o /\ old[u] \in Nodes
    BY <1>0 DEF IInv, TypeOK, Shape, ShapeOf, ReclaimInv, Reclaiming, SyncDone, Return
  <1>8. ReclaimInv'
    <2>1. cbs' = cbs /\ cbs \subseteq Nodes /\ Reclaiming(t)
      BY DEF IInv, TypeOK, Reclaiming, SyncDone
    <2>2. \A n \in cbs' : nst'[n] = "gone"
      BY <1>0, <1>2, <2>1 DEF IInv, ReclaimInv
    <2>3. \A n \in Nodes : nst'[n] = "gone" => n # o /\ nst[n] = "gone"
      BY <1>2, <1>3
    <2>4. \A n \in Nodes : nst'[n] = "gone" => n \in cbs \/ \E u \in Tasks : Reclaiming(u) /\ u # t /\ old[u] = n
      BY <1>0, <2>3 DEF IInv, ReclaimInv
    <2>5. \A u \in Tasks : Reclaiming(u)' =>
            /\ nst'[old'[u]] = "gone" /\ old'[u] \notin cbs
            /\ \A v \in Tasks : Reclaiming(v)' /\ old'[v] = old'[u] => v = u
      BY <1>2, <1>7 DEF IInv, ReclaimInv
    <2> QED
      BY <1>7, <2>1, <2>2, <2>4, <2>5 DEF ReclaimInv
  <1>9. \A u \in Tasks : pc'[u] = "sync" => pc[u] = "sync" /\ old'[u] = old[u] /\ call'[u] = call[u]
    BY DEF IInv, TypeOK, SyncDone, Return
  <1>10. GraceInv'
    BY <1>9 DEF IInv, GraceInv, SyncDone
  <1> QED
    BY <1>2, <1>4, <1>5, <1>6, <1>8, <1>10 DEF IInv, ListParts

LEMMA CallbackStep ==
    ASSUME IInv, TypeOK', Shape', NEW o \in Nodes, book_reclaim_callback(o)
    PROVE  IInv'
  <1> USE ConstantsAssumption DEF Goto, heap, links, rcu, aux, Ptrs, NoCall, Op, Ops,
        ReadSide, UnlinkingOps, UpdateOps, Updates, Unlinks
  <1>1. nst[o] = "gone" /\ o \in cbs /\ holders[o] = {}
    BY DEF IInv, TypeOK, ReclaimInv, GraceInv, book_reclaim_callback
  <1>2. ListParts' /\ \A n \in Nodes : n # o => nst'[n] = nst[n]
    BY <1>1, FreeStep DEF book_reclaim_callback
  <1>3. nst'[o] = "free"
    BY DEF IInv, TypeOK, book_reclaim_callback, kfree
  <1>4. ControlInv' /\ GraceInv'
    BY DEF IInv, ControlInv, HoldsLock, InSection, GraceInv, book_reclaim_callback
  <1>5. CursorInv'
    BY <1>1, <1>2 DEF IInv, TypeOK, Shape, ShapeOf, CursorInv, Safe, PinningOps,
       book_reclaim_callback
  <1>6. OldInv' /\ NewInv'
    BY <1>1, <1>2 DEF IInv, TypeOK, Shape, ShapeOf, OldInv, NewInv, HasNew,
       book_reclaim_callback
  <1>7. ReclaimInv'
    BY <1>1, <1>2, <1>3 DEF IInv, TypeOK, Shape, ShapeOf, ReclaimInv, Reclaiming, book_reclaim_callback
  <1> QED
    BY <1>2, <1>4, <1>5, <1>6, <1>7 DEF IInv, ListParts

-----------------------------------------------------------------------------
LEMMA InitIInv == Init => IInv
<1> SUFFICES ASSUME Init PROVE IInv
  OBVIOUS
<1> USE ConstantsAssumption DEF Init, Ptrs, Op, NoCall, Updates, Unlinks, UpdateOps,
        UnlinkingOps, ReadSide
<1>1. TypeOK /\ Shape
  BY InitType
<1>2. ControlInv /\ CursorInv /\ OldInv /\ NewInv
  BY DEF ControlInv, HoldsLock, InSection, CursorInv, OldInv, NewInv, HasNew
<1>3. HoldersInv /\ ListConsistent /\ ReclaimInv /\ GraceInv
  BY DEF HoldersInv, ListConsistent, OnList, ReclaimInv, Reclaiming, GraceInv
<1>4. RankInv
  <2>1. [n \in Nodes |-> 0] \in [Nodes -> Nat]
    OBVIOUS
  <2>2. Ranked([n \in Nodes |-> 0])
    BY DEF Ranked
  <2> QED
    BY <2>1, <2>2 DEF RankInv
<1> QED
  BY <1>1, <1>2, <1>3, <1>4 DEF IInv

LEMMA NextIInv == ASSUME SingleUpdater, IInv, [Next]_vars PROVE IInv'
<1>1. TypeOK' /\ Shape'
  BY NextType DEF IInv
<1>2. ASSUME NEW t \in Tasks, CallAny(t) PROVE IInv'
  BY <1>1, <1>2, CallStep DEF CallAny
<1>3. ASSUME NEW t \in Tasks, TaskStep(t) PROVE IInv'
  <2>1. CASE (\E b \in {0, 1} : Alloc(t, call[t].id, b)) /\ Op(t) = "add"
    BY <1>1, <2>1, AllocStep
  <2>2. CASE (\E b \in {0, 1} : Alloc(t, bid[old[t]], b)) /\ Updates(t)
    BY <1>1, <2>2, AllocStep DEF Updates
  <2>3. CASE AddLink(t) /\ Op(t) = "add"
    BY <1>1, <2>3, AddLinkStep
  <2>4. CASE UpdateReplace(t) /\ Updates(t)
    BY <1>1, <2>4, ReplaceStep
  <2>5. CASE DeleteUnlink(t) /\ Op(t) = "delete"
    BY <1>1, <2>5, UnlinkStep
  <2>6. CASE \/ ReadUnlock(t, "exit", "reclaim") /\ Updates(t)
             \/ ReadUnlock(t, "drop", "late") /\ Op(t) = "is_borrowed"
             \/ ReadUnlockReturn(t) /\ Op(t) \in ReadSide
    BY <1>1, <2>6, ReadUnlockStep
  <2>7. CASE (ReclaimAsync(t) \/ ReclaimSync(t)) /\ Unlinks(t)
    BY <1>1, <2>7, ReclaimStep
  <2>8. CASE SyncDone(t) /\ Unlinks(t)
    BY <1>1, <2>8, SyncDoneStep
  <2> QED
    BY <1>1, <1>3, <2>1, <2>2, <2>3, <2>4, <2>5, <2>6, <2>7, <2>8, LocalStep DEF TaskStep
<1>4. ASSUME NEW n \in Nodes, book_reclaim_callback(n) PROVE IInv'
  BY <1>1, <1>4, CallbackStep
<1>5. CASE UNCHANGED vars
  <2> USE <1>5 DEF vars, heap, links, rcu, aux
  <2>1. ControlInv' /\ CursorInv' /\ OldInv' /\ NewInv'
    BY DEF IInv, ControlInv, HoldsLock, InSection, CursorInv, OldInv, NewInv, HasNew, Safe,
       Op, Updates
  <2>2. HoldersInv' /\ ListConsistent' /\ RankInv'
    BY DEF IInv, HoldersInv, Safe, ListConsistent, OnList, RankInv, Ranked
  <2>3. ReclaimInv' /\ GraceInv'
    BY DEF IInv, ReclaimInv, Reclaiming, GraceInv, Op, Unlinks
  <2> QED
    BY <1>1, <2>1, <2>2, <2>3 DEF IInv
<1> QED
  BY <1>2, <1>3, <1>4, <1>5, RunIsTaskStep DEF Next

LEMMA Invariance == ASSUME SingleUpdater PROVE Spec => []IInv
<1>1. IInv /\ [Next]_vars => IInv'
  BY NextIInv
<1> QED
  BY <1>1, InitIInv, PTL DEF Spec

-----------------------------------------------------------------------------
\* If borrow_book, return_book and is_borrowed_book are never called while
\* another task may take books off the list, then no task ever touches a
\* freed struct book; add_book, delete_book and print_book need no such rule.
THEOREM MemorySafety == ASSUME SingleUpdater PROVE Spec => []NoUseAfterFree
<1>1. IInv => NoUseAfterFree
  <2> SUFFICES ASSUME IInv, NEW t \in Tasks, NEW n \in Derefs(t) PROVE nst[n] # "free"
    BY DEF NoUseAfterFree
  <2> USE ConstantsAssumption DEF Derefs, Op, UpdateOps, UnlinkingOps, Updates, Unlinks, Ops,
          ReadSide
  <2>1. CASE pc[t] \in {"walk", "test", "late", "unlink"} /\ n = cur[t]
    <3>1. nst[n] = "linked" \/ t \in holders[n]
      BY <2>1 DEF IInv, TypeOK, NoCall, Shape, ShapeOf, CursorInv, Safe, PinningOps
    <3> QED
      BY <3>1 DEF IInv, HoldersInv
  <2>2. CASE pc[t] \in {"alloc", "link"} /\ Op(t) \in UpdateOps /\ n = old[t]
    BY <2>2 DEF IInv, OldInv
  <2>3. CASE pc[t] = "link" /\ n = new[t]
    BY <2>3 DEF IInv, TypeOK, NoCall, Shape, ShapeOf, NewInv, HasNew
  <2>4. CASE pc[t] \in {"reclaim", "sync"} /\ n = old[t]
    BY <2>4 DEF IInv, TypeOK, NoCall, Shape, ShapeOf, ReclaimInv, Reclaiming
  <2> QED
    BY <2>1, <2>2, <2>3, <2>4
<1> QED
  BY <1>1, Invariance, PTL

\* Under the same rule the node that list_replace_rcu or list_del_rcu takes
\* out is on the list: no task faults on a poisoned prev pointer.
THEOREM UpdatesHitTheList == ASSUME SingleUpdater PROVE Spec => []TakesOutLinkedBook
<1>1. IInv => TakesOutLinkedBook
  BY ConstantsAssumption DEF IInv, TypeOK, NoCall, Shape, ShapeOf, OldInv, CursorInv, TakesOutLinkedBook, Op, Updates, Unlinks,
     UpdateOps, UnlinkingOps, PinningOps, Ops, ReadSide
<1> QED
  BY <1>1, Invariance, PTL

\* Under the same rule the next and prev pointers always agree.
THEOREM ListStaysConsistent == ASSUME SingleUpdater PROVE Spec => []ListConsistent
<1>1. IInv => ListConsistent
  BY DEF IInv
<1> QED
  BY <1>1, Invariance, PTL

\* Under the same rule every unlinked book is going to be freed by exactly one
\* task or callback, and no other book is.
THEOREM FreedExactlyOnce == ASSUME SingleUpdater PROVE Spec => []OneReclaimer
<1>1. IInv => OneReclaimer
  <2> SUFFICES ASSUME IInv, NEW n \in Nodes
               PROVE  IF nst[n] = "gone" THEN \E r \in Tasks \cup {Nobody} : Reclaimers(n) = {r}
                                         ELSE Reclaimers(n) = {}
    BY DEF OneReclaimer
  <2>1. \A r : r \in Reclaimers(n) <=>
                 \/ r \in Tasks /\ Reclaiming(r) /\ old[r] = n
                 \/ n \in cbs /\ r = Nobody
    BY DEF Reclaimers, Reclaiming, Unlinks
  <2>2. nst[n] # "gone" => Reclaimers(n) = {}
    BY <2>1 DEF IInv, ReclaimInv
  <2>3. CASE nst[n] = "gone" /\ n \in cbs
    <3>1. \A r : r \in Reclaimers(n) <=> r = Nobody
      BY <2>1, <2>3 DEF IInv, ReclaimInv
    <3> QED
      BY <2>3, <3>1
  <2>4. CASE nst[n] = "gone" /\ n \notin cbs
    <3>1. PICK t \in Tasks : Reclaiming(t) /\ old[t] = n
      BY <2>4 DEF IInv, ReclaimInv
    <3>2. \A r : r \in Reclaimers(n) <=> r = t
      BY <2>1, <2>4, <3>1 DEF IInv, ReclaimInv
    <3> QED
      BY <2>4, <3>2
  <2> QED
    BY <2>2, <2>3, <2>4
<1> QED
  BY <1>1, Invariance, PTL

\* Under the same rule a published book never changes in place: an update
\* shows at a different address, and an address is reused only after kfree.
THEOREM PublishedBooksImmutable == ASSUME SingleUpdater PROVE Spec => UpdatedBookMoves
<1> DEFINE Moves == \A n \in Nodes :
                nst[n] \in {"linked", "gone"} =>
                    \/ nst[n] = "gone" /\ nst'[n] = "free"
                    \/ /\ nst'[n] \in {nst[n], "gone"}
                       /\ bid'[n] = bid[n] /\ brw'[n] = brw[n]
<1>1. IInv /\ [Next]_vars => [Moves]_vars
  <2> SUFFICES ASSUME IInv, Next PROVE Moves
    OBVIOUS
  <2> USE DEF heap, links, rcu, aux, IInv, TypeOK
  <2>1. ASSUME NEW t \in Tasks, CallAny(t) PROVE Moves
    BY <2>1 DEF CallAny, Call
  <2>2. ASSUME NEW t \in Tasks, TaskStep(t) PROVE Moves
    <3>1. CASE UNCHANGED heap
      BY <3>1
    <3>2. ASSUME NEW id, NEW b, Alloc(t, id, b) PROVE Moves
      BY <3>2 DEF Alloc
    <3>3. CASE AddLink(t) /\ Op(t) = "add"
      BY <3>3 DEF AddLink, list_add_rcu, NewInv, HasNew
    <3>4. CASE UpdateReplace(t) /\ Updates(t)
      BY <3>4 DEF UpdateReplace, list_replace_rcu, NewInv, HasNew, OldInv, Updates, UpdateOps
    <3>5. CASE DeleteUnlink(t) /\ Op(t) = "delete"
      BY <3>5 DEF DeleteUnlink, list_del_rcu, CursorInv
    <3>6. CASE SyncDone(t) /\ Unlinks(t)
      BY <3>6 DEF SyncDone, kfree, ReclaimInv, Reclaiming
    <3> QED
      BY <2>2, <3>1, <3>2, <3>3, <3>4, <3>5, <3>6 DEF TaskStep, Walk, Test, UpdateTest,
         AddAllocFails, UpdateAllocFails, Lock, Unlock, UnlockReturn, ReadUnlock,
         IsBorrowedRead, ReadUnlockReturn, ReclaimAsync, ReclaimSync
  <2>3. ASSUME NEW n \in Nodes, book_reclaim_callback(n) PROVE Moves
    BY <2>3 DEF book_reclaim_callback, kfree, ReclaimInv
  <2> QED
    BY <2>1, <2>2, <2>3, RunIsTaskStep DEF Next
<1> QED
  BY <1>1, Invariance, PTL DEF Spec, UpdatedBookMoves

-----------------------------------------------------------------------------
(***************************************************************************)
(* Lookups.  R is a strict order of the nodes, as a set of pairs: which    *)
(* node comes earlier on the list, or came when it still was on it.  A new *)
(* book is the earliest of all, and the copy of a book takes its place.    *)
(***************************************************************************)
Earlier(R, x, y) == <<x, y>> \in R

StrictOrder(R) ==
    /\ \A x \in Nodes : ~Earlier(R, x, x)
    /\ \A x, y, z \in Nodes : Earlier(R, x, y) /\ Earlier(R, y, z) => Earlier(R, x, z)

\* m is a node, and z is it or comes later.
Onward(R, m, z) == m \in Nodes /\ (z = m \/ Earlier(R, m, z))

\* No next pointer on the list jumps over a book; that of an unlinked node,
\* for the tasks that may still follow it, only over a book that has replaced
\* the one it leads to.
NoSkip(R) ==
    /\ \A z \in Nodes : nst[z] = "linked" => Onward(R, nxt[Books], z)
    /\ \A p, z \in Nodes : nst[p] = "linked" /\ nst[z] = "linked" /\ Earlier(R, p, z) => Onward(R, nxt[p], z)
    /\ \A p, z \in Nodes : \A t \in holders[p] : nst[z] = "linked" /\ Earlier(R, p, z) =>
        nxt[p] \in Nodes /\ (Onward(R, nxt[p], z) \/ bid[nxt[p]] = bid[z])

\* The books task t looks for, and the part of the list its walk has ahead.
BookFor(t, z) == nst[z] = "linked" /\ bid[z] = call[t].id
Ahead(R, t, z) == cur[t] = Books \/ Earlier(R, cur[t], z) \/ (pc[t] # "walk" /\ z = cur[t])

\* Unless the book was absent for a moment, a walk stands on one or has one
\* ahead.  delete_book has them all ahead and takes the first; a copy has the
\* id of the book it replaces.
FindInv(R, t) ==
    /\ pc[t] \in {"walk", "test"} /\ ~absent[t] =>
        \/ pc[t] = "test" /\ bid[cur[t]] = call[t].id
        \/ \E z \in Nodes : BookFor(t, z) /\ Ahead(R, t, z)
    /\ pc[t] = "miss" => absent[t]
    /\ Op(t) = "delete" /\ pc[t] \in {"walk", "test", "unlink"} =>
        \A z \in Nodes : BookFor(t, z) => Ahead(R, t, z)
    /\ Op(t) = "delete" /\ pc[t] = "unlink" => bid[cur[t]] = call[t].id
    /\ Updates(t) /\ pc[t] \in {"lock", "link"} => bid[new[t]] = bid[old[t]]

OrderInv(R) == StrictOrder(R) /\ NoSkip(R) /\ \A t \in Tasks : FindInv(R, t)
LookupInv == \E R \in SUBSET (Nodes \X Nodes) : OrderInv(R)

\* Where a walk can stand.
LEMMA CursorAt ==
    ASSUME IInv, NEW t \in Tasks, pc[t] \in {"walk", "test", "unlink"}
    PROVE  /\ cur[t] = Books \/ (cur[t] \in Nodes /\ (nst[cur[t]] = "linked" \/ t \in holders[cur[t]]))
           /\ Op(t) = "delete" => cur[t] = Books \/ (cur[t] \in Nodes /\ nst[cur[t]] = "linked")
           /\ pc[t] # "walk" => cur[t] \in Nodes
  BY ConstantsAssumption DEF IInv, TypeOK, NoCall, Shape, ShapeOf, CursorInv, Safe, PinningOps, Op, Ops, Ptrs,
     ReadSide, UpdateOps, UnlinkingOps, Updates

\* A step that changes nothing a walk can see.
SameBooks ==
    /\ nxt'[Books] = nxt[Books]
    /\ \A n \in Nodes :
        /\ nst'[n] = "linked" <=> nst[n] = "linked"
        /\ holders'[n] \subseteq holders[n]
        /\ nst[n] = "linked" \/ holders[n] # {} => nxt'[n] = nxt[n] /\ bid'[n] = bid[n]
        /\ nst[n] = "new" => bid'[n] = bid[n]

SameTask(u) ==
    /\ pc'[u] = pc[u] /\ call'[u] = call[u] /\ cur'[u] = cur[u]
    /\ old'[u] = old[u] /\ new'[u] = new[u] /\ absent'[u] = absent[u]

LEMMA SkipKept ==
    ASSUME IInv, NEW R, NoSkip(R), SameBooks PROVE NoSkip(R)'
<1>1. \A z \in Nodes : nst'[z] = "linked" => Onward(R, nxt'[Books], z)
  BY DEF NoSkip, SameBooks
<1>2. \A p, z \in Nodes : nst'[p] = "linked" /\ nst'[z] = "linked" /\ Earlier(R, p, z) => Onward(R, nxt'[p], z)
  BY DEF NoSkip, SameBooks
<1>3. ASSUME NEW p \in Nodes, NEW z \in Nodes, NEW t \in holders'[p], nst'[z] = "linked", Earlier(R, p, z)
      PROVE  nxt'[p] \in Nodes /\ (Onward(R, nxt'[p], z) \/ bid'[nxt'[p]] = bid'[z])
  <2>1. t \in holders[p] /\ nst[z] = "linked" /\ nxt'[p] = nxt[p] /\ bid'[z] = bid[z] /\ t \in Tasks
    BY <1>3 DEF SameBooks, IInv, TypeOK
  <2>2. nxt[p] \in Nodes /\ (Onward(R, nxt[p], z) \/ bid[nxt[p]] = bid[z])
    BY <1>3, <2>1 DEF NoSkip
  <2>3. nst[nxt[p]] = "linked" \/ holders[nxt[p]] # {}
    BY <2>1, <2>2, ConstantsAssumption DEF IInv, HoldersInv, Safe
  <2> QED
    BY <2>1, <2>2, <2>3 DEF SameBooks
<1> QED
  BY <1>1, <1>2, <1>3 DEF NoSkip, Onward

LEMMA FindKept ==
    ASSUME IInv, NEW R, NEW u \in Tasks, FindInv(R, u), SameBooks, SameTask(u) PROVE FindInv(R, u)'
<1> USE DEF SameTask
<1>1. /\ Op(u)' = Op(u) /\ (Updates(u)' <=> Updates(u))
      /\ \A z \in Nodes : (BookFor(u, z)' <=> BookFor(u, z)) /\ (Ahead(R, u, z)' <=> Ahead(R, u, z))
  BY DEF Op, Updates, BookFor, Ahead, SameBooks
<1>2. pc[u] \in {"test", "unlink"} => bid'[cur[u]] = bid[cur[u]]
  BY CursorAt, ConstantsAssumption DEF SameBooks
<1>3. Updates(u) /\ pc[u] \in {"lock", "link"} => bid'[new[u]] = bid[new[u]] /\ bid'[old[u]] = bid[old[u]]
  BY DEF IInv, Shape, ShapeOf, NewInv, HasNew, OldInv, Updates, UpdateOps, SameBooks
<1> QED
  BY <1>1, <1>2, <1>3 DEF FindInv

\* A step of task t that no walk can see.
LEMMA QuietLookup ==
    ASSUME IInv, LookupInv, SameBooks, NEW t, \A u \in Tasks \ {t} : SameTask(u),
           t \in Tasks => \A R : OrderInv(R) => FindInv(R, t)'
    PROVE  LookupInv'
<1>1. PICK R \in SUBSET (Nodes \X Nodes) : OrderInv(R)
  BY DEF LookupInv
<1>2. NoSkip(R)'
  BY <1>1, SkipKept DEF OrderInv
<1>3. \A u \in Tasks : FindInv(R, u)'
  BY <1>1, FindKept DEF OrderInv
<1>4. StrictOrder(R)'
  BY <1>1 DEF OrderInv, StrictOrder
<1> QED
  BY <1>1, <1>2, <1>3, <1>4 DEF LookupInv, OrderInv

\* A task that neither walks nor is about to change the list.
LEMMA NoLookup ==
    ASSUME NEW R, NEW t \in Tasks, pc'[t] \notin {"walk", "test", "miss", "unlink", "lock", "link"}
    PROVE  FindInv(R, t)'
  BY DEF FindInv

LEMMA CallLookup ==
    ASSUME IInv, LookupInv, NEW t \in Tasks, NEW o \in Ops, NEW i \in Ids, NEW a, Call(t, o, i, a)
    PROVE  LookupInv'
<1> USE DEF heap, links, rcu, aux, Goto
<1>1. SameBooks /\ \A u \in Tasks \ {t} : SameTask(u)
  <2>1. \A u \in Tasks \ {t} : absent'[u] = absent[u]
    BY DEF Call, IInv, TypeOK
  <2> QED
    BY <2>1 DEF Call, SameBooks, SameTask, IInv, TypeOK
<1>2. cur[t] = Books
  BY DEF Call, IInv, TypeOK, Shape, ShapeOf, Op, NoCall, Ops, ReadSide, UpdateOps, Updates
<1>3. ASSUME NEW R PROVE FindInv(R, t)'
  <2>1. CASE o \in ReadSide
    <3>1. /\ pc'[t] = "walk" /\ cur'[t] = Books /\ call'[t].id = i /\ call'[t].op = o
          /\ (absent'[t] <=> ~HasBook(i)) /\ UNCHANGED <<nst, bid>>
      BY <1>2, <2>1 DEF Call, IInv, TypeOK
    <3>2. o # "delete"
      BY <2>1 DEF ReadSide, UpdateOps
    <3> QED
      BY <3>1, <3>2 DEF FindInv, HasBook, BookFor, Ahead, Op
  <2>2. CASE o = "add"
    <3>1. pc'[t] = "alloc"
      BY <2>2 DEF Call, IInv, TypeOK, ReadSide, UpdateOps
    <3> QED
      BY <3>1, NoLookup
  <2>3. CASE o = "delete"
    <3>1. pc'[t] = "lock" /\ call'[t].op = "delete"
      BY <2>3 DEF Call, IInv, TypeOK, ReadSide, UpdateOps
    <3> QED
      BY <3>1 DEF FindInv, Op, Updates, UpdateOps
  <2> QED
    BY <2>1, <2>2, <2>3 DEF Ops
<1> QED
  BY <1>1, <1>3, QuietLookup

LEMMA WalkLookup ==
    ASSUME IInv, LookupInv, NEW t \in Tasks, Walk(t), Op(t) \in ReadSide \cup {"delete"}
    PROVE  LookupInv'
<1> USE DEF heap, links, rcu, aux, Goto
<1>1. SameBooks /\ \A u \in Tasks \ {t} : SameTask(u)
  BY DEF Walk, SameBooks, SameTask, IInv, TypeOK
<1>2. ASSUME NEW R, OrderInv(R) PROVE FindInv(R, t)'
  <2>1. /\ FindInv(R, t) /\ NoSkip(R) /\ pc[t] = "walk"
        /\ UNCHANGED <<nst, bid, call, absent>> /\ Op(t)' = Op(t)
    BY <1>2 DEF OrderInv, Walk, Op
  <2>2. /\ cur[t] = Books \/ (cur[t] \in Nodes /\ (nst[cur[t]] = "linked" \/ t \in holders[cur[t]]))
        /\ Op(t) = "delete" => cur[t] = Books \/ (cur[t] \in Nodes /\ nst[cur[t]] = "linked")
    BY <2>1, CursorAt
  <2> DEFINE m == nxt[cur[t]]
  <2>3. \A z \in Nodes : BookFor(t, z) /\ Ahead(R, t, z) =>
          m \in Nodes /\ (Onward(R, m, z) \/ bid[m] = call[t].id)
    BY <2>1, <2>2 DEF NoSkip, BookFor, Ahead, Onward
  <2>4. Op(t) = "delete" => \A z \in Nodes : BookFor(t, z) => m \in Nodes /\ Onward(R, m, z)
    BY <2>1, <2>2 DEF NoSkip, BookFor, Ahead, FindInv, Onward
  <2>5. \A z \in Nodes : BookFor(t, z)' <=> BookFor(t, z)
    BY <2>1 DEF BookFor
  <2>6. CASE m = Books
    <3>1. pc'[t] = "miss" /\ Books \notin Nodes
      BY <2>6, ConstantsAssumption DEF Walk, IInv, TypeOK
    <3>2. absent[t]
      BY <2>1, <2>3, <2>6, <3>1 DEF FindInv
    <3> QED
      BY <2>1, <3>1, <3>2 DEF FindInv
  <2>7. CASE m # Books
    <3>1. pc'[t] = "test" /\ cur'[t] = m
      BY <2>7 DEF Walk, IInv, TypeOK
    <3> HIDE DEF m
    <3>2. \A z \in Nodes : Onward(R, m, z) => Ahead(R, t, z)'
      BY <3>1 DEF Onward, Ahead
    <3>3. ~absent[t] => bid[m] = call[t].id \/ \E z \in Nodes : BookFor(t, z) /\ Onward(R, m, z)
      BY <2>1, <2>3 DEF FindInv
    <3> QED
      BY <2>1, <2>4, <2>5, <3>1, <3>2, <3>3 DEF FindInv
  <2> QED
    BY <2>6, <2>7
<1> QED
  BY <1>1, <1>2, QuietLookup

\* The loop body: the walk goes on only past a book of another id.
LEMMA TestLookup ==
    ASSUME IInv, LookupInv, NEW t \in Tasks,
           \/ Test(t, "leave") /\ Op(t) = "print"
           \/ Test(t, "drop") /\ Op(t) = "is_borrowed"
           \/ Test(t, "unlink") /\ Op(t) = "delete"
           \/ (\E b \in {0, 1} : UpdateTest(t, b)) /\ Updates(t)
    PROVE  LookupInv'
<1> USE DEF heap, links, rcu, aux, Goto
<1>0. /\ pc[t] = "test" /\ UNCHANGED <<nst, bid, nxt, holders, call, cur, new, absent>>
      /\ bid[cur[t]] = call[t].id =>
            (pc'[t] = "unlink" /\ Op(t) = "delete") \/ pc'[t] \in {"leave", "drop", "alloc"}
      /\ bid[cur[t]] # call[t].id => pc'[t] = "walk"
      /\ \A u \in Tasks \ {t} : pc'[u] = pc[u] /\ old'[u] = old[u]
  BY DEF Test, UpdateTest, IInv, TypeOK
<1>1. SameBooks /\ \A u \in Tasks \ {t} : SameTask(u)
  BY <1>0 DEF SameBooks, SameTask
<1>2. ASSUME NEW R, OrderInv(R) PROVE FindInv(R, t)'
  <2>1. FindInv(R, t) /\ Op(t)' = Op(t) /\ cur[t] \in Nodes /\ Books \notin Nodes
    BY <1>0, <1>2, CursorAt, ConstantsAssumption DEF OrderInv, Op
  <2>2. \A z \in Nodes : BookFor(t, z)' <=> BookFor(t, z)
    BY <1>0 DEF BookFor
  <2>3. CASE bid[cur[t]] = call[t].id /\ pc'[t] = "unlink"
    <3>1. \A z \in Nodes : Ahead(R, t, z) => Ahead(R, t, z)'
      BY <1>0, <2>3 DEF Ahead
    <3> QED
      BY <1>0, <2>1, <2>2, <2>3, <3>1 DEF FindInv
  <2>4. CASE bid[cur[t]] = call[t].id /\ pc'[t] \in {"leave", "drop", "alloc"}
    BY <2>4, NoLookup
  <2>5. CASE bid[cur[t]] # call[t].id
    <3>1. \A z \in Nodes : BookFor(t, z) /\ Ahead(R, t, z) => Ahead(R, t, z)'
      BY <1>0, <2>1, <2>5 DEF Ahead, BookFor
    <3> QED
      BY <1>0, <2>1, <2>2, <2>5, <3>1 DEF FindInv
  <2> QED
    BY <1>0, <2>3, <2>4, <2>5
<1> QED
  BY <1>1, <1>2, QuietLookup

LEMMA AllocLookup ==
    ASSUME IInv, LookupInv, NEW t \in Tasks, NEW id, NEW b, Alloc(t, id, b),
           Op(t) = "add" \/ (Updates(t) /\ id = bid[old[t]])
    PROVE  LookupInv'
<1> USE DEF heap, links, rcu, aux, Goto
<1>1. PICK n \in Nodes :
        /\ nst[n] = "free" /\ nst' = [nst EXCEPT ![n] = "new"]
        /\ bid' = [bid EXCEPT ![n] = id] /\ new' = [new EXCEPT ![t] = n]
  BY DEF Alloc
<1>2. /\ pc[t] = "alloc" /\ pc' = [pc EXCEPT ![t] = "lock"]
      /\ UNCHANGED <<nxt, holders, call, cur, old, absent>>
  BY DEF Alloc
<1>3. holders[n] = {}
  BY <1>1 DEF IInv, TypeOK, HoldersInv
<1>4. SameBooks
  BY <1>1, <1>2, <1>3 DEF SameBooks, IInv, TypeOK
<1>5. \A u \in Tasks \ {t} : SameTask(u)
  BY <1>1, <1>2 DEF SameTask, IInv, TypeOK
<1>6. ASSUME NEW R PROVE FindInv(R, t)'
  <2>1. pc'[t] = "lock" /\ new'[t] = n /\ bid'[n] = id /\ (Updates(t)' <=> Updates(t)) /\ Op(t)' = Op(t)
    BY <1>1, <1>2 DEF IInv, TypeOK, Updates, Op
  <2>2. Updates(t) => bid'[old[t]] = bid[old[t]] /\ id = bid[old[t]]
    BY <1>1, <1>2 DEF IInv, TypeOK, OldInv, Updates, UpdateOps
  <2> QED
    BY <1>2, <2>1, <2>2 DEF FindInv
<1> QED
  BY <1>4, <1>5, <1>6, QuietLookup

LEMMA LockLookup ==
    ASSUME IInv, LookupInv, NEW t \in Tasks,
           \/ Lock(t, "link") /\ Op(t) \in UpdateOps \cup {"add"}
           \/ Lock(t, "walk") /\ Op(t) = "delete"
    PROVE  LookupInv'
<1> USE DEF heap, links, rcu, aux, Goto
<1>1. /\ pc[t] = "lock" /\ UNCHANGED <<nst, bid, nxt, holders, call, cur, old, new>>
      /\ absent' = [absent EXCEPT ![t] = IF Op(t) = "delete" THEN ~HasBook(call[t].id) ELSE absent[t]]
      /\ \A u \in Tasks \ {t} : pc'[u] = pc[u]
      /\ pc'[t] = IF Op(t) = "delete" THEN "walk" ELSE "link"
  BY DEF Lock, IInv, TypeOK, UpdateOps
<1>2. \A u \in Tasks \ {t} : absent'[u] = absent[u]
  BY <1>1 DEF IInv, TypeOK
<1>3. SameBooks /\ \A u \in Tasks \ {t} : SameTask(u)
  BY <1>1, <1>2 DEF SameBooks, SameTask
<1>4. ASSUME NEW R, OrderInv(R) PROVE FindInv(R, t)'
  <2>1. FindInv(R, t) /\ Op(t)' = Op(t) /\ (Updates(t)' <=> Updates(t))
    BY <1>1, <1>4 DEF OrderInv, Op, Updates
  <2>2. CASE Op(t) = "delete"
    <3>1. pc'[t] = "walk" /\ cur'[t] = Books /\ (absent'[t] <=> ~HasBook(call[t].id))
      BY <1>1, <2>2 DEF IInv, TypeOK, Shape, ShapeOf
    <3> QED
      BY <1>1, <2>1, <2>2, <3>1 DEF FindInv, HasBook, BookFor, Ahead, Updates, UpdateOps
  <2>3. CASE Op(t) # "delete"
    BY <1>1, <2>1, <2>3 DEF FindInv
  <2> QED
    BY <2>2, <2>3
<1> QED
  BY <1>3, <1>4, QuietLookup

\* Steps after which t does not walk, and that leave every node alone.
LEMMA LeaveLookup ==
    ASSUME IInv, LookupInv, NEW t \in Tasks,
           \/ AddAllocFails(t) /\ Op(t) = "add"
           \/ UpdateAllocFails(t) /\ Updates(t)
           \/ Unlock(t, "exit") /\ Updates(t)
           \/ Unlock(t, "reclaim") /\ Op(t) = "delete"
           \/ UnlockReturn(t, "unlock") /\ Op(t) = "add"
           \/ UnlockReturn(t, "miss") /\ Op(t) = "delete"
           \/ ReadUnlock(t, "exit", "reclaim") /\ Updates(t)
           \/ ReadUnlock(t, "drop", "late") /\ Op(t) = "is_borrowed"
           \/ IsBorrowedRead(t) /\ Op(t) = "is_borrowed"
           \/ ReadUnlockReturn(t) /\ Op(t) \in ReadSide
           \/ ReclaimAsync(t) /\ Unlinks(t)
           \/ ReclaimSync(t) /\ Unlinks(t)
    PROVE  LookupInv'
<1> USE DEF heap, links, rcu, aux, Goto, Return
<1>1. UNCHANGED <<nst, bid, nxt>> /\ \A n \in Nodes : holders'[n] \subseteq holders[n]
  BY DEF AddAllocFails, UpdateAllocFails, Unlock, UnlockReturn, ReadUnlock, IsBorrowedRead, ReadUnlockReturn,
         ReclaimAsync, ReclaimSync, rcu_read_unlock
<1>2. pc'[t] \in {"idle", "leave", "exit", "reclaim", "late", "sync"}
  BY DEF AddAllocFails, UpdateAllocFails, Unlock, UnlockReturn, ReadUnlock, IsBorrowedRead, ReadUnlockReturn,
         ReclaimAsync, ReclaimSync, IInv, TypeOK
<1>3. \A u \in Tasks \ {t} : SameTask(u)
  BY DEF AddAllocFails, UpdateAllocFails, Unlock, UnlockReturn, ReadUnlock, IsBorrowedRead, ReadUnlockReturn,
         ReclaimAsync, ReclaimSync, SameTask, IInv, TypeOK
<1>4. SameBooks
  BY <1>1 DEF SameBooks
<1>5. \A R : FindInv(R, t)'
  BY <1>2, NoLookup
<1> QED
  BY <1>3, <1>4, <1>5, QuietLookup

\* kfree of a node that no walk can reach.
LEMMA FreeLookup ==
    ASSUME IInv, LookupInv, NEW o \in Nodes, kfree(o), UNCHANGED holders, nst[o] = "gone", holders[o] = {},
           NEW t, \A u \in Tasks \ {t} : SameTask(u), t \in Tasks => pc'[t] = "idle"
    PROVE  LookupInv'
<1>1. SameBooks
  BY ConstantsAssumption DEF kfree, SameBooks, IInv, TypeOK, Ptrs
<1>2. t \in Tasks => \A R : FindInv(R, t)'
  BY NoLookup
<1> QED
  BY <1>1, <1>2, QuietLookup

LEMMA ReclaimedLookup ==
    ASSUME IInv, LookupInv,
           \/ \E t \in Tasks : SyncDone(t) /\ Unlinks(t)
           \/ \E n \in Nodes : book_reclaim_callback(n)
    PROVE  LookupInv'
<1> USE DEF heap, links, rcu, aux, Goto
<1>1. ASSUME NEW t \in Tasks, SyncDone(t), Unlinks(t) PROVE LookupInv'
  <2>1. PICK o \in Nodes : o = old[t] /\ nst[o] = "gone"
    BY <1>1 DEF IInv, Shape, ShapeOf, ReclaimInv, Reclaiming, SyncDone
  <2>2. holders[o] = {}
    BY <1>1, <2>1 DEF IInv, TypeOK, GraceInv, SyncDone
  <2>3. kfree(o) /\ UNCHANGED holders /\ pc'[t] = "idle" /\ \A u \in Tasks \ {t} : SameTask(u)
    BY <1>1, <2>1 DEF SyncDone, Return, SameTask, IInv, TypeOK
  <2> QED
    BY <2>1, <2>2, <2>3, FreeLookup
<1>2. ASSUME NEW n \in Nodes, book_reclaim_callback(n) PROVE LookupInv'
  <2>1. nst[n] = "gone" /\ holders[n] = {}
    BY <1>2 DEF IInv, TypeOK, ReclaimInv, GraceInv, book_reclaim_callback
  <2>2. kfree(n) /\ UNCHANGED holders /\ \A u \in Tasks \ {Nobody} : SameTask(u)
    BY <1>2 DEF book_reclaim_callback, SameTask
  <2>3. Nobody \in Tasks => pc'[Nobody] = "idle"
    BY ConstantsAssumption
  <2> QED
    BY <2>1, <2>2, <2>3, FreeLookup
<1> QED
  BY <1>1, <1>2

\* The order after list_add_rcu: n is the earliest of all.
InFront(R, n) == {p \in R : p[1] # n /\ p[2] # n} \cup ({n} \X (Nodes \ {n}))

LEMMA FrontOrder ==
    ASSUME NEW R \in SUBSET (Nodes \X Nodes), StrictOrder(R), NEW n \in Nodes
    PROVE  /\ InFront(R, n) \in SUBSET (Nodes \X Nodes) /\ StrictOrder(InFront(R, n))
           /\ \A x, y \in Nodes \ {n} : Earlier(InFront(R, n), x, y) <=> Earlier(R, x, y)
           /\ \A x \in Nodes : ~Earlier(InFront(R, n), x, n)
<1>1. InFront(R, n) \in SUBSET (Nodes \X Nodes)
  BY DEF InFront
<1>2. \A x, y \in Nodes \ {n} : Earlier(InFront(R, n), x, y) <=> Earlier(R, x, y)
  BY DEF InFront, Earlier
<1>3. \A y \in Nodes \ {n} : Earlier(InFront(R, n), n, y)
  BY DEF InFront, Earlier
<1>4. \A x \in Nodes : ~Earlier(InFront(R, n), x, n)
  BY DEF InFront, Earlier
<1>5. StrictOrder(InFront(R, n))
  BY <1>2, <1>3, <1>4 DEF StrictOrder
<1> QED
  BY <1>1, <1>2, <1>4, <1>5

\* The order after list_replace_rcu: the copy n stands where o stood.
InPlaceOf(R, o, n) ==
    {p \in R : p[1] # n /\ p[2] # n}
    \cup {p \in Nodes \X Nodes : p[1] = n /\ p[2] # n /\ Earlier(R, o, p[2])}
    \cup {p \in Nodes \X Nodes : p[2] = n /\ p[1] # n /\ Earlier(R, p[1], o)}

LEMMA PlaceOrder ==
    ASSUME NEW R \in SUBSET (Nodes \X Nodes), StrictOrder(R), NEW o \in Nodes, NEW n \in Nodes, o # n
    PROVE  /\ InPlaceOf(R, o, n) \in SUBSET (Nodes \X Nodes) /\ StrictOrder(InPlaceOf(R, o, n))
           /\ \A x, y \in Nodes \ {n} : Earlier(InPlaceOf(R, o, n), x, y) <=> Earlier(R, x, y)
           /\ \A x \in Nodes \ {n} : /\ Earlier(InPlaceOf(R, o, n), x, n) <=> Earlier(R, x, o)
                                     /\ Earlier(InPlaceOf(R, o, n), n, x) <=> Earlier(R, o, x)
<1>1. InPlaceOf(R, o, n) \in SUBSET (Nodes \X Nodes)
  BY DEF InPlaceOf
<1>2. \A x, y \in Nodes \ {n} : Earlier(InPlaceOf(R, o, n), x, y) <=> Earlier(R, x, y)
  BY DEF InPlaceOf, Earlier
<1>3. \A x \in Nodes \ {n} : Earlier(InPlaceOf(R, o, n), x, n) <=> Earlier(R, x, o)
  BY DEF InPlaceOf, Earlier
<1>4. \A x \in Nodes \ {n} : Earlier(InPlaceOf(R, o, n), n, x) <=> Earlier(R, o, x)
  BY DEF InPlaceOf, Earlier
<1>5. ~Earlier(InPlaceOf(R, o, n), n, n)
  BY DEF InPlaceOf, Earlier
<1>6. StrictOrder(InPlaceOf(R, o, n))
  BY <1>2, <1>3, <1>4, <1>5 DEF StrictOrder
<1> QED
  BY <1>1, <1>2, <1>3, <1>4, <1>6

\* No link that is followed leads to a node that is not published.
LEMMA NewUnseen ==
    ASSUME IInv, NEW n \in Nodes, nst[n] = "new"
    PROVE  /\ holders[n] = {} /\ nxt[Books] # n
           /\ \A p \in Nodes : nst[p] = "linked" \/ holders[p] # {} => nxt[p] # n
           /\ \A t \in Tasks : pc[t] \in {"walk", "test"} => cur[t] # n
<1>1. holders[n] = {}
  BY DEF IInv, TypeOK, HoldersInv
<1>2. nxt[Books] # n /\ \A p \in Nodes : nst[p] = "linked" => nxt[p] # n
  BY Neighbours, ConstantsAssumption DEF OnList
<1>3. \A p \in Nodes : holders[p] # {} => nxt[p] # n
  BY <1>1, ConstantsAssumption DEF IInv, TypeOK, HoldersInv, Safe
<1>4. \A t \in Tasks : pc[t] \in {"walk", "test"} => cur[t] # n
  BY <1>1, CursorAt, ConstantsAssumption
<1> QED
  BY <1>1, <1>2, <1>3, <1>4

\* While a task changes the list, no other deletes.
LEMMA OneChanges ==
    ASSUME IInv, NEW t \in Tasks, pc[t] \in {"link", "unlink"}, NEW u \in Tasks \ {t}
    PROVE  Op(u) = "delete" => pc[u] \notin {"walk", "test", "unlink"}
  BY DEF IInv, ControlInv, HoldsLock

LEMMA AddLookup ==
    ASSUME IInv, LookupInv, NEW t \in Tasks, AddLink(t), Op(t) = "add" PROVE LookupInv'
<1> USE DEF heap, links, rcu, aux, Goto
<1>0. PICK n : n = new[t]
  OBVIOUS
<1>1. n \in Nodes /\ nst[n] = "new" /\ n # Books /\ Books \notin Nodes
  BY <1>0, ConstantsAssumption DEF IInv, Shape, ShapeOf, NewInv, HasNew, AddLink
<1>2. /\ \A x \in Nodes \ {n} : nst'[x] = nst[x] /\ nxt'[x] = nxt[x]
      /\ nst'[n] = "linked" /\ nxt'[n] = nxt[Books] /\ nxt'[Books] = n
      /\ UNCHANGED <<bid, holders, call, cur, old, new, absent>>
      /\ pc[t] = "link" /\ pc'[t] = "unlock" /\ \A u \in Tasks \ {t} : pc'[u] = pc[u]
  BY <1>0, <1>1 DEF AddLink, list_add_rcu, IInv, TypeOK, Ptrs
<1>3. PICK R \in SUBSET (Nodes \X Nodes) : OrderInv(R)
  BY DEF LookupInv
<1> DEFINE Q == InFront(R, n)
<1>4. /\ Q \in SUBSET (Nodes \X Nodes) /\ StrictOrder(Q)
      /\ \A x, y \in Nodes \ {n} : Earlier(Q, x, y) <=> Earlier(R, x, y)
      /\ \A y \in Nodes \ {n} : Earlier(Q, n, y)
      /\ \A x \in Nodes : ~Earlier(Q, x, n)
  <2>1. \A y \in Nodes \ {n} : Earlier(Q, n, y)
    BY <1>1 DEF InFront, Earlier
  <2> QED
    BY <1>1, <1>3, <2>1, FrontOrder DEF OrderInv
<1> HIDE DEF Q
<1>5. /\ holders[n] = {} /\ nxt[Books] # n
      /\ \A p \in Nodes : nst[p] = "linked" \/ holders[p] # {} => nxt[p] # n
      /\ \A u \in Tasks : pc[u] \in {"walk", "test"} => cur[u] # n
  BY <1>1, NewUnseen
<1>6. NoSkip(Q)'
  <2>1. \A z \in Nodes : nst'[z] = "linked" => Onward(Q, n, z)
    BY <1>1, <1>4 DEF Onward
  <2>2. ASSUME NEW p \in Nodes, NEW z \in Nodes, nst'[p] = "linked", nst'[z] = "linked", Earlier(Q, p, z)
        PROVE  Onward(Q, nxt'[p], z)
    <3>1. z # n /\ nst[z] = "linked"
      BY <1>2, <1>4, <2>2
    <3>2. CASE p = n
      <4>1. Onward(R, nxt[Books], z)
        BY <1>3, <3>1 DEF OrderInv, NoSkip
      <4> QED
        BY <1>2, <1>4, <1>5, <3>1, <3>2, <4>1 DEF Onward
    <3>3. CASE p # n
      <4>1. Onward(R, nxt[p], z) /\ nxt[p] # n
        BY <1>2, <1>3, <1>4, <1>5, <2>2, <3>1, <3>3 DEF OrderInv, NoSkip
      <4> QED
        BY <1>2, <1>4, <3>1, <3>3, <4>1 DEF Onward
    <3> QED
      BY <3>2, <3>3
  <2>3. ASSUME NEW p \in Nodes, NEW z \in Nodes, NEW u \in holders[p], nst'[z] = "linked", Earlier(Q, p, z)
        PROVE  nxt'[p] \in Nodes /\ (Onward(Q, nxt'[p], z) \/ bid[nxt'[p]] = bid[z])
    <3>1. z # n /\ nst[z] = "linked" /\ p # n /\ nxt'[p] = nxt[p] /\ nxt[p] # n
      BY <1>2, <1>4, <1>5, <2>3
    <3>2. nxt[p] \in Nodes /\ (Onward(R, nxt[p], z) \/ bid[nxt[p]] = bid[z])
      BY <1>3, <1>4, <2>3, <3>1 DEF OrderInv, NoSkip
    <3> QED
      BY <1>4, <3>1, <3>2 DEF Onward
  <2> QED
    BY <1>2, <2>1, <2>2, <2>3 DEF NoSkip, Onward
<1>7. ASSUME NEW u \in Tasks PROVE FindInv(Q, u)'
  <2>1. CASE u = t
    BY <1>2, <2>1, NoLookup
  <2>2. CASE u # t
    <3>1. /\ FindInv(R, u) /\ pc'[u] = pc[u] /\ Op(u)' = Op(u) /\ (Updates(u)' <=> Updates(u))
          /\ Op(u) = "delete" => pc[u] \notin {"walk", "test", "unlink"}
      BY <1>2, <1>3, <2>2, OneChanges DEF OrderInv, Op, Updates
    <3>2. \A z \in Nodes : BookFor(u, z) => BookFor(u, z)' /\ z # n
      BY <1>1, <1>2 DEF BookFor
    <3>3. ASSUME NEW z \in Nodes, BookFor(u, z), Ahead(R, u, z), pc[u] \in {"walk", "test"} PROVE Ahead(Q, u, z)'
      <4>1. z # n /\ cur[u] # n /\ (cur[u] = Books \/ cur[u] \in Nodes)
        BY <1>5, <3>2, <3>3, CursorAt
      <4> QED
        BY <1>2, <1>4, <3>1, <3>3, <4>1 DEF Ahead
    <3> QED
      BY <1>2, <3>1, <3>2, <3>3 DEF FindInv
  <2> QED
    BY <2>1, <2>2
<1>8. StrictOrder(Q)'
  BY <1>4 DEF StrictOrder
<1> QED
  BY <1>4, <1>6, <1>7, <1>8 DEF LookupInv, OrderInv

LEMMA ReplaceLookup ==
    ASSUME IInv, LookupInv, NEW t \in Tasks, UpdateReplace(t), Updates(t) PROVE LookupInv'
<1> USE DEF heap, links, rcu, aux, Goto
<1>0. PICK o, n, b : o = old[t] /\ n = new[t] /\ b = prv[o]
  OBVIOUS
<1>1. /\ o \in Nodes /\ nst[o] = "linked" /\ n \in Nodes /\ nst[n] = "new" /\ o # n
      /\ Books \notin Nodes
  BY <1>0, ConstantsAssumption
     DEF IInv, Shape, ShapeOf, OldInv, NewInv, HasNew, UpdateReplace, Op, Updates, UpdateOps
<1>2. OnList(b) /\ b # o /\ b # n /\ nxt[b] = o /\ nxt[o] # o /\ \A p : OnList(p) /\ nxt[p] = o => p = b
  BY <1>0, <1>1, Neighbours DEF OnList
<1>3. /\ \A x \in Nodes \ {o, n} : nst'[x] = nst[x]
      /\ nst'[n] = "linked" /\ nst'[o] = "gone"
      /\ \A x \in Nodes \cup {Books} : nxt'[x] = IF x = b THEN n ELSE IF x = n THEN nxt[o] ELSE nxt[x]
      /\ \A x \in Nodes \ {o} : holders'[x] = holders[x]
      /\ UNCHANGED <<bid, call, cur, old, new, absent>>
      /\ pc[t] = "link" /\ pc'[t] = "unlock" /\ \A u \in Tasks \ {t} : pc'[u] = pc[u]
  BY <1>0, <1>1, <1>2 DEF UpdateReplace, list_replace_rcu, IInv, TypeOK, Ptrs, OnList
<1>4. PICK R \in SUBSET (Nodes \X Nodes) : OrderInv(R)
  BY DEF LookupInv
<1>5. bid[n] = bid[o]
  BY <1>0, <1>3, <1>4 DEF OrderInv, FindInv
<1> DEFINE Q == InPlaceOf(R, o, n)
<1>6. /\ Q \in SUBSET (Nodes \X Nodes) /\ StrictOrder(Q)
      /\ \A x, y \in Nodes \ {n} : Earlier(Q, x, y) <=> Earlier(R, x, y)
      /\ \A x \in Nodes \ {n} : (Earlier(Q, x, n) <=> Earlier(R, x, o)) /\ (Earlier(Q, n, x) <=> Earlier(R, o, x))
      /\ ~Earlier(R, o, o)
      /\ ~Earlier(Q, n, n) /\ ~Earlier(Q, o, n)
  <2>1. StrictOrder(R)
    BY <1>4 DEF OrderInv
  <2>2. /\ Q \in SUBSET (Nodes \X Nodes) /\ StrictOrder(Q)
        /\ \A x, y \in Nodes \ {n} : Earlier(Q, x, y) <=> Earlier(R, x, y)
        /\ \A x \in Nodes \ {n} : /\ Earlier(Q, x, n) <=> Earlier(R, x, o)
                                  /\ Earlier(Q, n, x) <=> Earlier(R, o, x)
    BY <1>1, <1>4, <2>1, PlaceOrder
  <2> HIDE DEF Q
  <2>3. ~Earlier(R, o, o) /\ ~Earlier(Q, n, n)
    BY <1>1, <2>1, <2>2 DEF StrictOrder
  <2> QED
    BY <1>1, <2>2, <2>3
<1> HIDE DEF Q
<1>7. /\ holders[n] = {} /\ nxt[Books] # n
      /\ \A p \in Nodes : nst[p] = "linked" \/ holders[p] # {} => nxt[p] # n
      /\ \A u \in Tasks : pc[u] \in {"walk", "test"} => cur[u] # n
  BY <1>1, NewUnseen
<1>8. ASSUME NEW m, NEW z \in Nodes \ {n}, m # n, z # o, Onward(R, m, z)
      PROVE  Onward(Q, m, z) /\ (m = o => Onward(Q, n, z))
  BY <1>1, <1>6, <1>8 DEF Onward
<1>9. ASSUME NEW m, m # n, Onward(R, m, o) PROVE m = o \/ Onward(Q, m, n)
  BY <1>1, <1>6, <1>9 DEF Onward
<1>10. NoSkip(Q)'
  <2>1. ASSUME NEW z \in Nodes, nst'[z] = "linked" PROVE Onward(Q, nxt'[Books], z)
    <3>1. z # o /\ (z = n \/ nst[z] = "linked")
      BY <1>3, <2>1
    <3>2. CASE z = n
      <4>1. Onward(R, nxt[Books], o)
        BY <1>1, <1>4 DEF OrderInv, NoSkip
      <4>2. nxt[Books] = o => b = Books
        BY <1>2 DEF OnList
      <4> QED
        BY <1>1, <1>3, <1>7, <1>9, <3>2, <4>1, <4>2 DEF Onward
    <3>3. CASE z # n
      <4>1. Onward(R, nxt[Books], z)
        BY <1>4, <3>1, <3>3 DEF OrderInv, NoSkip
      <4>2. nxt'[Books] = IF b = Books THEN n ELSE nxt[Books]
        BY <1>1, <1>3
      <4> QED
        BY <1>2, <1>7, <1>8, <3>1, <3>3, <4>1, <4>2
    <3> QED
      BY <3>2, <3>3
  <2>2. ASSUME NEW p \in Nodes, NEW z \in Nodes, nst'[p] = "linked", nst'[z] = "linked", Earlier(Q, p, z)
        PROVE  Onward(Q, nxt'[p], z)
    <3>1. p # o /\ z # o /\ (z = n \/ nst[z] = "linked") /\ (p = n \/ nst[p] = "linked")
      BY <1>3, <2>2
    <3>2. CASE z = n
      <4>1. p # n /\ nst[p] = "linked" /\ Earlier(R, p, o)
        BY <1>6, <2>2, <3>1, <3>2
      <4>2. Onward(R, nxt[p], o) /\ nxt[p] # n
        BY <1>1, <1>4, <1>7, <4>1 DEF OrderInv, NoSkip
      <4>3. CASE nxt[p] = o
        <5>1. p = b
          BY <1>2, <4>1, <4>3 DEF OnList
        <5> QED
          BY <1>1, <1>3, <3>2, <5>1 DEF Onward
      <4>4. CASE nxt[p] # o
        <5>1. p # b
          BY <1>2, <4>4
        <5> QED
          BY <1>3, <1>9, <3>2, <4>1, <4>2, <4>4, <5>1
      <4> QED
        BY <4>3, <4>4
    <3>3. CASE z # n /\ p = n
      <4>1. Onward(R, nxt[o], z) /\ nxt[o] # n
        BY <1>1, <1>4, <1>6, <1>7, <2>2, <3>1, <3>3 DEF OrderInv, NoSkip
      <4> QED
        BY <1>1, <1>2, <1>3, <1>8, <3>1, <3>3, <4>1
    <3>4. CASE z # n /\ p # n
      <4>1. Onward(R, nxt[p], z) /\ nxt[p] # n
        BY <1>4, <1>6, <1>7, <2>2, <3>1, <3>4 DEF OrderInv, NoSkip
      <4>2. Onward(Q, nxt[p], z) /\ (nxt[p] = o => Onward(Q, n, z))
        BY <1>8, <3>1, <3>4, <4>1
      <4> QED
        BY <1>2, <1>3, <3>4, <4>2
    <3> QED
      BY <3>2, <3>3, <3>4
  <2>3. ASSUME NEW p \in Nodes, NEW z \in Nodes, NEW u \in holders'[p], nst'[z] = "linked", Earlier(Q, p, z)
        PROVE  nxt'[p] \in Nodes /\ (Onward(Q, nxt'[p], z) \/ bid[nxt'[p]] = bid[z])
    <3>1. z # o /\ (z = n \/ nst[z] = "linked")
      BY <1>3, <2>3
    <3>2. CASE p = o
      <4>1. z # n /\ Earlier(R, o, z) /\ nst[z] = "linked"
        BY <1>1, <1>6, <2>3, <3>1, <3>2
      <4>2. Onward(R, nxt[o], z) /\ nxt[o] # n
        BY <1>1, <1>4, <1>7, <4>1 DEF OrderInv, NoSkip
      <4>3. nxt'[o] = nxt[o]
        BY <1>1, <1>2, <1>3
      <4> QED
        BY <1>8, <3>1, <3>2, <4>1, <4>2, <4>3 DEF Onward
    <3>3. CASE p # o
      <4>1. u \in holders[p] /\ u \in Tasks /\ nst[p] = "gone" /\ p # n /\ p # b /\ nxt[p] # n
        BY <1>1, <1>2, <1>3, <1>7, <2>3, <3>3 DEF IInv, TypeOK, HoldersInv, OnList
      <4>2. nxt'[p] = nxt[p]
        BY <1>3, <4>1
      <4>3. CASE z = n
        <5>1. Earlier(R, p, o)
          BY <1>6, <2>3, <4>1, <4>3
        <5>2. nxt[p] \in Nodes /\ (Onward(R, nxt[p], o) \/ bid[nxt[p]] = bid[o])
          BY <1>1, <1>4, <4>1, <5>1 DEF OrderInv, NoSkip
        <5> QED
          BY <1>5, <1>9, <4>1, <4>2, <4>3, <5>2
      <4>4. CASE z # n
        <5>1. nst[z] = "linked" /\ Earlier(R, p, z)
          BY <1>6, <2>3, <3>1, <4>1, <4>4
        <5>2. nxt[p] \in Nodes /\ (Onward(R, nxt[p], z) \/ bid[nxt[p]] = bid[z])
          BY <1>4, <4>1, <5>1 DEF OrderInv, NoSkip
        <5> QED
          BY <1>8, <3>1, <4>1, <4>2, <4>4, <5>2
      <4> QED
        BY <4>3, <4>4
    <3> QED
      BY <3>2, <3>3
  <2> QED
    BY <1>3, <2>1, <2>2, <2>3 DEF NoSkip, Onward
<1>11. ASSUME NEW u \in Tasks PROVE FindInv(Q, u)'
  <2>1. CASE u = t
    BY <1>3, <2>1, NoLookup
  <2>2. CASE u # t
    <3>1. /\ FindInv(R, u) /\ pc'[u] = pc[u] /\ Op(u)' = Op(u) /\ (Updates(u)' <=> Updates(u))
          /\ Op(u) = "delete" => pc[u] \notin {"walk", "test", "unlink"}
      BY <1>3, <1>4, <2>2, OneChanges DEF OrderInv, Op, Updates
    <3>2. ASSUME NEW z \in Nodes, BookFor(u, z), Ahead(R, u, z), pc[u] \in {"walk", "test"}
          PROVE  \/ pc[u] = "test" /\ bid[cur[u]] = call[u].id
                 \/ \E y \in Nodes : BookFor(u, y)' /\ Ahead(Q, u, y)'
      <4>1. z # n /\ cur[u] # n /\ (cur[u] = Books \/ cur[u] \in Nodes)
        BY <1>1, <1>7, <3>2, CursorAt DEF BookFor
      <4>2. CASE z = o
        <5>1. BookFor(u, n)'
          BY <1>1, <1>3, <1>5, <3>2, <4>2 DEF BookFor
        <5>2. CASE cur[u] = Books \/ Earlier(R, cur[u], o)
          BY <1>1, <1>3, <1>6, <4>1, <5>1, <5>2 DEF Ahead
        <5>3. CASE pc[u] = "test" /\ cur[u] = o
          BY <3>2, <4>2, <5>3 DEF BookFor
        <5> QED
          BY <3>2, <4>2, <5>2, <5>3 DEF Ahead
      <4>3. CASE z # o
        <5>1. BookFor(u, z)'
          BY <1>3, <3>2, <4>1, <4>3 DEF BookFor
        <5>2. Ahead(Q, u, z)'
          BY <1>3, <1>6, <3>1, <3>2, <4>1 DEF Ahead
        <5> QED
          BY <5>1, <5>2
      <4> QED
        BY <4>2, <4>3
    <3> QED
      BY <1>3, <3>1, <3>2 DEF FindInv
  <2> QED
    BY <2>1, <2>2
<1>12. StrictOrder(Q)'
  BY <1>6 DEF StrictOrder
<1> QED
  BY <1>6, <1>10, <1>11, <1>12 DEF LookupInv, OrderInv

\* delete_book takes out the first book of its id, so that a walk that has
\* lost its book has the next one of that id ahead, if there is one.
LEMMA UnlinkLookup ==
    ASSUME IInv, LookupInv, NEW t \in Tasks, DeleteUnlink(t), Op(t) = "delete" PROVE LookupInv'
<1> USE DEF heap, links, rcu, aux, Goto
<1>0. PICK o, b : o = cur[t] /\ b = prv[o]
  OBVIOUS
<1>1. o \in Nodes /\ nst[o] = "linked" /\ Books \notin Nodes
  BY <1>0, ConstantsAssumption DEF IInv, Shape, ShapeOf, CursorInv, DeleteUnlink
<1>2. OnList(b) /\ b # o /\ nxt[b] = o /\ nxt[o] # o /\ \A p : OnList(p) /\ nxt[p] = o => p = b
  BY <1>0, <1>1, Neighbours DEF OnList
<1>3. /\ \A x \in Nodes \ {o} : nst'[x] = nst[x] /\ holders'[x] = holders[x]
      /\ nst'[o] = "gone"
      /\ \A x \in Nodes \cup {Books} : nxt'[x] = IF x = b THEN nxt[o] ELSE nxt[x]
      /\ UNCHANGED <<bid, call, cur, new>>
      /\ pc[t] = "unlink" /\ pc'[t] = "unlock"
      /\ \A u \in Tasks \ {t} : pc'[u] = pc[u] /\ old'[u] = old[u]
  BY <1>0, <1>1, <1>2 DEF DeleteUnlink, list_del_rcu, IInv, TypeOK, Ptrs, OnList
<1>4. \A u \in Tasks : ~absent'[u] => ~absent[u] /\ (Op(u) = "none" \/ HasBook(call[u].id)')
  BY DEF DeleteUnlink
<1>4a. \A u \in Tasks : absent[u] => absent'[u]
  BY DEF DeleteUnlink
<1>5. PICK R \in SUBSET (Nodes \X Nodes) : OrderInv(R)
  BY DEF LookupInv
<1>6. bid[o] = call[t].id /\ \A z \in Nodes : BookFor(t, z) => z = o \/ Earlier(R, o, z)
  BY <1>0, <1>1, <1>3, <1>5 DEF OrderInv, FindInv, Ahead
<1>7. NoSkip(R)'
  <2>0. \A z \in Nodes : nst'[z] = "linked" => z # o /\ nst[z] = "linked"
    BY <1>3
  <2>1. \A z \in Nodes : nst[z] = "linked" /\ Earlier(R, o, z) => Onward(R, nxt[o], z)
    BY <1>1, <1>5 DEF OrderInv, NoSkip
  <2>2. \A z \in Nodes : z # o /\ Onward(R, o, z) => Earlier(R, o, z)
    BY DEF Onward
  <2>3. \A z \in Nodes : nst'[z] = "linked" => Onward(R, nxt'[Books], z)
    <3>1. \A z \in Nodes : nst[z] = "linked" => Onward(R, nxt[Books], z)
      BY <1>5 DEF OrderInv, NoSkip
    <3> QED
      BY <1>2, <1>3, <2>0, <2>1, <2>2, <3>1
  <2>4. \A p, z \in Nodes : nst'[p] = "linked" /\ nst'[z] = "linked" /\ Earlier(R, p, z) => Onward(R, nxt'[p], z)
    <3>1. \A p, z \in Nodes : nst[p] = "linked" /\ nst[z] = "linked" /\ Earlier(R, p, z) => Onward(R, nxt[p], z)
      BY <1>5 DEF OrderInv, NoSkip
    <3> QED
      BY <1>2, <1>3, <2>0, <2>1, <2>2, <3>1
  <2>5. ASSUME NEW p \in Nodes, NEW z \in Nodes, NEW u \in holders'[p], nst'[z] = "linked", Earlier(R, p, z)
        PROVE  nxt'[p] \in Nodes /\ (Onward(R, nxt'[p], z) \/ bid[nxt'[p]] = bid[z])
    <3>1. CASE p = o
      BY <1>2, <1>3, <2>0, <2>1, <2>5, <3>1 DEF Onward
    <3>2. CASE p # o
      <4>1. u \in holders[p] /\ u \in Tasks /\ nst[p] = "gone" /\ p # b
        BY <1>2, <1>3, <2>5, <3>2, ConstantsAssumption DEF IInv, TypeOK, HoldersInv, OnList
      <4> QED
        BY <1>3, <1>5, <2>0, <2>5, <4>1 DEF OrderInv, NoSkip
    <3> QED
      BY <3>1, <3>2
  <2> QED
    BY <1>3, <2>3, <2>4, <2>5 DEF NoSkip, Onward
<1>8. ASSUME NEW u \in Tasks PROVE FindInv(R, u)'
  <2>1. CASE u = t
    BY <1>3, <2>1, NoLookup
  <2>2. CASE u # t
    <3>1. /\ FindInv(R, u) /\ pc'[u] = pc[u] /\ Op(u)' = Op(u) /\ (Updates(u)' <=> Updates(u))
          /\ Op(u) = "delete" => pc[u] \notin {"walk", "test", "unlink"}
      BY <1>3, <1>5, <2>2, OneChanges DEF OrderInv, Op, Updates
    <3>2. ASSUME pc[u] \in {"walk", "test"}, ~absent'[u]
          PROVE  \/ pc[u] = "test" /\ bid[cur[u]] = call[u].id
                 \/ \E y \in Nodes : BookFor(u, y)' /\ Ahead(R, u, y)'
      <4>1. CASE pc[u] = "test" /\ bid[cur[u]] = call[u].id
        BY <4>1
      <4>2. ASSUME NEW z \in Nodes, BookFor(u, z), Ahead(R, u, z)
            PROVE  \/ pc[u] = "test" /\ bid[cur[u]] = call[u].id
                   \/ \E y \in Nodes : BookFor(u, y)' /\ Ahead(R, u, y)'
        <5>1. CASE z # o
          BY <1>3, <3>1, <4>2, <5>1 DEF BookFor, Ahead
        <5>2. CASE z = o
          <6>1. Op(u) # "none"
            BY <3>2 DEF IInv, Shape, ShapeOf
          <6>2. PICK y \in Nodes : nst'[y] = "linked" /\ bid[y] = call[u].id
            BY <1>3, <1>4, <3>2, <6>1 DEF HasBook
          <6>3. y # o /\ nst[y] = "linked" /\ BookFor(t, y) /\ BookFor(u, y)'
            BY <1>3, <1>6, <4>2, <5>2, <6>2 DEF BookFor
          <6>4. Earlier(R, o, y)
            BY <1>6, <6>3
          <6>5. cur[u] = Books \/ cur[u] \in Nodes
            BY <3>2, CursorAt
          <6>6. Ahead(R, u, y)'
            BY <1>1, <1>3, <1>5, <3>1, <4>2, <5>2, <6>4, <6>5 DEF Ahead, OrderInv, StrictOrder
          <6> QED
            BY <6>3, <6>6
        <5> QED
          BY <5>1, <5>2
      <4> QED
        BY <1>4, <3>1, <3>2, <4>1, <4>2 DEF FindInv
    <3>3. pc[u] = "miss" => absent'[u]
      BY <1>4a, <3>1 DEF FindInv
    <3>4. Updates(u) /\ pc[u] \in {"lock", "link"} => bid[new[u]] = bid[old[u]]
      BY <3>1 DEF FindInv
    <3> QED
      BY <1>3, <2>2, <3>1, <3>2, <3>3, <3>4 DEF FindInv
  <2> QED
    BY <2>1, <2>2
<1>9. StrictOrder(R)'
  BY <1>5 DEF OrderInv, StrictOrder
<1> QED
  BY <1>5, <1>7, <1>8, <1>9 DEF LookupInv, OrderInv

LEMMA InitLookup == Init => LookupInv
<1> SUFFICES ASSUME Init PROVE OrderInv({})
  BY DEF LookupInv
<1>1. StrictOrder({})
  BY DEF StrictOrder, Earlier
<1>2. NoSkip({})
  BY DEF Init, NoSkip, Earlier
<1>3. \A t \in Tasks : FindInv({}, t)
  BY DEF Init, FindInv
<1> QED
  BY <1>1, <1>2, <1>3 DEF OrderInv

LEMMA NextLookup == ASSUME IInv, LookupInv, [Next]_vars PROVE LookupInv'
<1>1. ASSUME NEW t \in Tasks, CallAny(t) PROVE LookupInv'
  <2>1. PICK o \in Calls[t] : \E i \in Ids, a \in AsyncArg(o) : Call(t, o, i, a)
    BY <1>1 DEF CallAny
  <2>2. o \in Ops
    BY ConstantsAssumption
  <2> QED
    BY <2>1, <2>2, CallLookup
<1>2. ASSUME NEW t \in Tasks, TaskStep(t) PROVE LookupInv'
  <2>1. CASE Walk(t) /\ Op(t) \in ReadSide \cup {"delete"}
    BY <2>1, WalkLookup
  <2>2. CASE \/ Test(t, "leave") /\ Op(t) = "print"
             \/ Test(t, "drop") /\ Op(t) = "is_borrowed"
             \/ Test(t, "unlink") /\ Op(t) = "delete"
             \/ (\E b \in {0, 1} : UpdateTest(t, b)) /\ Updates(t)
    BY <2>2, TestLookup
  <2>3. CASE \/ (\E b \in {0, 1} : Alloc(t, call[t].id, b)) /\ Op(t) = "add"
             \/ (\E b \in {0, 1} : Alloc(t, bid[old[t]], b)) /\ Updates(t)
    BY <2>3, AllocLookup
  <2>4. CASE \/ Lock(t, "link") /\ Op(t) \in UpdateOps \cup {"add"}
             \/ Lock(t, "walk") /\ Op(t) = "delete"
    BY <2>4, LockLookup
  <2>5. CASE AddLink(t) /\ Op(t) = "add"
    BY <2>5, AddLookup
  <2>6. CASE UpdateReplace(t) /\ Updates(t)
    BY <2>6, ReplaceLookup
  <2>7. CASE DeleteUnlink(t) /\ Op(t) = "delete"
    BY <2>7, UnlinkLookup
  <2>8. CASE SyncDone(t) /\ Unlinks(t)
    BY <2>8, ReclaimedLookup
  <2> QED
    BY <1>2, <2>1, <2>2, <2>3, <2>4, <2>5, <2>6, <2>7, <2>8, LeaveLookup DEF TaskStep
<1>3. ASSUME NEW n \in Nodes, book_reclaim_callback(n) PROVE LookupInv'
  BY <1>3, ReclaimedLookup
<1>4. CASE UNCHANGED vars
  <2>1. SameBooks /\ \A u \in Tasks \ {Nobody} : SameTask(u)
    BY <1>4 DEF vars, heap, links, rcu, aux, SameBooks, SameTask
  <2>2. Nobody \notin Tasks
    BY ConstantsAssumption
  <2> QED
    BY <2>1, <2>2, QuietLookup
<1> QED
  BY <1>1, <1>2, <1>3, <1>4, RunIsTaskStep DEF Next

LEMMA LookupInvariance == ASSUME SingleUpdater PROVE Spec => []LookupInv
<1>1. IInv /\ LookupInv /\ [Next]_vars => LookupInv'
  BY NextLookup
<1> QED
  BY <1>1, InitLookup, Invariance, PTL DEF Spec

\* A lookup that reports "not exist book" is right for any number of tasks,
\* addresses and books: at some moment of its walk the book was not on the
\* list.  Replacing a book under the walker never hides it.
THEOREM LookupsAreRight == ASSUME SingleUpdater PROVE Spec => []LookupNeverMisses
<1>1. LookupInv => LookupNeverMisses
  BY DEF LookupInv, OrderInv, FindInv, LookupNeverMisses
<1> QED
  BY <1>1, LookupInvariance, PTL
=============================================================================
