----------------------- MODULE ListRcuExample_proofs -----------------------
(***************************************************************************)
(* Proofs about ListRcuExample, for any number of addresses: the module's  *)
(* script is one of the callers that BookRCU allows, so what is proved     *)
(* there holds of the loaded module, and it deletes the books it adds.     *)
(***************************************************************************)
EXTENDS ListRcuExample, BookRCU_proofs, SequenceTheorems

-----------------------------------------------------------------------------
(* The script.                                                             *)

\* How many calls the test that is running has made.
Pos(k) == IF k <= 18 THEN k ELSE k - 18

LEMMA TestCalls ==
    ASSUME NEW a \in {0, 1}
    PROVE  /\ Len(test_example(a)) = 18
           /\ \A p \in 1 .. 18 :
                /\ test_example(a)[p][1] \in Ops
                /\ test_example(a)[p][2] \in {0, 1}
                /\ test_example(a)[p][3] \in AsyncArg(test_example(a)[p][1])
                /\ test_example(a)[p][1] = "add" <=> p \in {1, 2}
                /\ test_example(a)[p][1] = "delete" <=> p \in {15, 16}
                /\ p \in {1, 2} => test_example(a)[p][2] = p - 1
                /\ p \in {15, 16} => test_example(a)[p][2] = p - 15
<1>1. Len(test_example(a)) = 18
  BY DEF test_example
<1>2. ASSUME NEW p \in 1 .. 18 PROVE p \in {1, 2, 3, 4, 5, 6, 7, 8, 9, 10, 11, 12, 13, 14, 15, 16, 17, 18}
  BY <1>2
<1>3. ASSUME NEW p \in {1, 2, 3, 4, 5, 6, 7, 8, 9}
      PROVE  /\ test_example(a)[p][1] \in Ops
             /\ test_example(a)[p][2] \in {0, 1}
             /\ test_example(a)[p][3] \in AsyncArg(test_example(a)[p][1])
             /\ test_example(a)[p][1] = "add" <=> p \in {1, 2}
             /\ test_example(a)[p][1] # "delete"
             /\ p \in {1, 2} => test_example(a)[p][2] = p - 1
  BY InsmodAssumption DEF test_example, AsyncArg, Ops, ReadSide, UpdateOps, UnlinkingOps
<1>4. ASSUME NEW p \in {10, 11, 12, 13, 14, 15, 16, 17, 18}
      PROVE  /\ test_example(a)[p][1] \in Ops
             /\ test_example(a)[p][2] \in {0, 1}
             /\ test_example(a)[p][3] \in AsyncArg(test_example(a)[p][1])
             /\ test_example(a)[p][1] # "add"
             /\ test_example(a)[p][1] = "delete" <=> p \in {15, 16}
             /\ p \in {15, 16} => test_example(a)[p][2] = p - 15
  BY InsmodAssumption DEF test_example, AsyncArg, Ops, ReadSide, UpdateOps, UnlinkingOps
<1> QED
  BY <1>1, <1>2, <1>3, <1>4

LEMMA ScriptCalls ==
    /\ Len(Script) = 36
    /\ \A k \in 1 .. 36 :
        /\ Script[k][1] \in Ops
        /\ Script[k][2] \in {0, 1}
        /\ Script[k][3] \in AsyncArg(Script[k][1])
        /\ Script[k][1] = "add" <=> Pos(k) \in {1, 2}
        /\ Script[k][1] = "delete" <=> Pos(k) \in {15, 16}
        /\ Pos(k) \in {1, 2} => Script[k][2] = Pos(k) - 1
        /\ Pos(k) \in {15, 16} => Script[k][2] = Pos(k) - 15
<1> DEFINE Made == {test_example(a)[p] : a \in {0, 1}, p \in 1 .. 18}
<1>1. Len(test_example(0)) = 18 /\ Len(test_example(1)) = 18
  BY TestCalls
<1>2. ASSUME NEW a \in {0, 1} PROVE test_example(a) \in Seq(Made)
  <2> DEFINE e == test_example(a)
  <2>1. e = [p \in 1 .. 18 |-> e[p]]
    BY DEF test_example
  <2>2. \A p \in 1 .. 18 : e[p] \in Made
    OBVIOUS
  <2> HIDE DEF e, Made
  <2>3. e \in [1 .. 18 -> Made]
    BY <2>1, <2>2
  <2>4. e \in Seq(Made)
    <3>1. \A n \in Nat : [1 .. n -> Made] \subseteq Seq(Made)
      BY SeqDef
    <3>2. [1 .. 18 -> Made] \subseteq Seq(Made)
      BY <3>1
    <3> QED
      BY <2>3, <3>2
  <2> QED
    BY <2>4 DEF e
<1> HIDE DEF Made
<1>3. /\ Len(Script) = 36
      /\ \A k \in 1 .. 36 : Script[k] = IF k <= 18 THEN test_example(0)[k] ELSE test_example(1)[k - 18]
  <2>1. test_example(0) \in Seq(Made) /\ test_example(1) \in Seq(Made)
    BY <1>2
  <2> DEFINE e == test_example(0)
             f == test_example(1)
  <2>2. e \in Seq(Made) /\ f \in Seq(Made) /\ Len(e) = 18 /\ Len(f) = 18 /\ Script = e \o f
    BY <1>1, <2>1 DEF Script
  <2> HIDE DEF e, f
  <2>3. /\ Len(e \o f) = Len(e) + Len(f)
        /\ \A k \in 1 .. Len(e) + Len(f) : (e \o f)[k] = IF k <= Len(e) THEN e[k] ELSE f[k - Len(e)]
    BY <2>2, ConcatProperties
  <2> DEFINE both == e \o f
  <2> HIDE DEF both
  <2>4. Script = both /\ Len(both) = 36 /\ Len(e) = 18 /\ 18 + 18 = 36
    BY <2>2, <2>3 DEF both
  <2>5. \A k \in 1 .. Len(e) + Len(f) : both[k] = IF k <= Len(e) THEN e[k] ELSE f[k - Len(e)]
    BY <2>3 DEF both
  <2>6. \A k \in 1 .. 36 : both[k] = IF k <= 18 THEN e[k] ELSE f[k - 18]
    BY <2>2, <2>4, <2>5
  <2>7. Len(Script) = 36 /\ \A k \in 1 .. 36 : Script[k] = IF k <= 18 THEN e[k] ELSE f[k - 18]
    BY <2>4, <2>6
  <2> QED
    BY <2>7 DEF e, f
<1>4. ASSUME NEW k \in 1 .. 36 PROVE Pos(k) \in 1 .. 18 /\ \E a \in {0, 1} : Script[k] = test_example(a)[Pos(k)]
  BY <1>3 DEF Pos
<1>5. ASSUME NEW k \in 1 .. 36
      PROVE  /\ Script[k][1] \in Ops
             /\ Script[k][2] \in {0, 1}
             /\ Script[k][3] \in AsyncArg(Script[k][1])
             /\ Script[k][1] = "add" <=> Pos(k) \in {1, 2}
             /\ Script[k][1] = "delete" <=> Pos(k) \in {15, 16}
             /\ Pos(k) \in {1, 2} => Script[k][2] = Pos(k) - 1
             /\ Pos(k) \in {15, 16} => Script[k][2] = Pos(k) - 15
  <2>1. PICK a \in {0, 1} : Script[k] = test_example(a)[Pos(k)]
    BY <1>4
  <2> DEFINE p == Pos(k)
  <2>2. p \in 1 .. 18
    BY <1>4
  <2> HIDE DEF p
  <2>3. /\ test_example(a)[p][1] \in Ops
        /\ test_example(a)[p][2] \in {0, 1}
        /\ test_example(a)[p][3] \in AsyncArg(test_example(a)[p][1])
        /\ test_example(a)[p][1] = "add" <=> p \in {1, 2}
        /\ test_example(a)[p][1] = "delete" <=> p \in {15, 16}
        /\ p \in {1, 2} => test_example(a)[p][2] = p - 1
        /\ p \in {15, 16} => test_example(a)[p][2] = p - 15
    BY <2>2, TestCalls
  <2> QED
    BY <2>1, <2>3 DEF p
<1> QED
  BY <1>3, <1>5

-----------------------------------------------------------------------------
(* The module as a caller of the book list.                                *)

LEMMA ModuleStep == ASSUME step \in 0 .. 36, [MNext]_mvars PROVE [Next]_vars /\ step' \in 0 .. 36
<1>1. ASSUME CallNext PROVE Next /\ step' \in 0 .. 36
  <2>1. step < 36 /\ step + 1 \in 1 .. 36 /\ step' = step + 1
    BY <1>1, ScriptCalls DEF CallNext
  <2> DEFINE c == Script[step + 1]
  <2>2. Call(insmod, c[1], c[2], c[3])
    BY <1>1 DEF CallNext
  <2>3. insmod \in Tasks /\ c[1] \in Calls[insmod] /\ c[2] \in Ids /\ c[3] \in AsyncArg(c[1])
    BY <2>1, ScriptCalls, InsmodAssumption
  <2> HIDE DEF c
  <2>4. CallAny(insmod)
    BY <2>2, <2>3 DEF CallAny
  <2> QED
    BY <2>1, <2>3, <2>4 DEF Next
<1>2. ASSUME Continue PROVE Next /\ step' = step
  BY <1>2, InsmodAssumption DEF Continue, Next
<1>3. ASSUME Softirq PROVE Next /\ step' = step
  BY <1>3 DEF Softirq, Next
<1> QED
  BY <1>1, <1>2, <1>3 DEF MNext, mvars, list_rcu_example_init, list_rcu_example_exit

\* The module, with the steps of the loader left out, is the book list with
\* insmod as its only caller.
THEOREM ModuleIsACaller == MSpec => Spec
<1>1. MInit => Init /\ step \in 0 .. 36
  BY DEF MInit
<1>2. step \in 0 .. 36 /\ [MNext]_mvars => [Next]_vars /\ (step \in 0 .. 36)'
  BY ModuleStep
<1> QED
  BY <1>1, <1>2, PTL DEF MSpec, Spec

LEMMA OneCaller == SingleUpdater
  BY InsmodAssumption DEF SingleUpdater

\* What BookRCU_proofs shows for callers that keep to the rule holds of the
\* module: insmod never touches a freed book, takes out only books that are on
\* the list, frees each one once, and its lookups are right.
THEOREM ModuleIsSafe ==
    MSpec => [](NoUseAfterFree /\ TakesOutLinkedBook /\ ListConsistent /\ OneReclaimer /\ LookupNeverMisses)
<1>1. /\ Spec => []NoUseAfterFree
      /\ Spec => []TakesOutLinkedBook
      /\ Spec => []ListConsistent
      /\ Spec => []OneReclaimer
      /\ Spec => []LookupNeverMisses
  BY OneCaller, MemorySafety, UpdatesHitTheList, ListStaysConsistent, FreedExactlyOnce, LookupsAreRight
<1> QED
  BY <1>1, ModuleIsACaller, PTL

-----------------------------------------------------------------------------
(***************************************************************************)
(* The books the script has on the list.  Each test adds one book of each  *)
(* id and deletes it: book i is on the list at most from call i + 1 of the *)
(* test, which adds it, to call i + 15, which deletes it.                  *)
(***************************************************************************)
\* insmod is where the script says.
AtCall ==
    /\ step \in 0 .. 36
    /\ pc[insmod] # "idle" =>
        /\ step \in 1 .. 36
        /\ call[insmod] = [op |-> Script[step][1], id |-> Script[step][2], async |-> Script[step][3]]

\* A linked book is between its add_book and the moment its delete_book has
\* unlinked it, or has seen the whole list.
BookInTest ==
    \A z \in Nodes : nst[z] = "linked" =>
        /\ bid[z] \in {0, 1}
        /\ Pos(step) \in (bid[z] + 1) .. (bid[z] + 15)
        /\ Pos(step) = bid[z] + 15 => pc[insmod] \in {"lock", "walk", "test", "unlink"}

OneBookEach == \A y, z \in Nodes : nst[y] = "linked" /\ nst[z] = "linked" /\ bid[y] = bid[z] => y = z

\* add_book finds no book of its id on the list.
Adding ==
    Op(insmod) = "add" /\ pc[insmod] \in {"alloc", "lock", "link"} =>
        /\ ~HasBook(call[insmod].id)
        /\ pc[insmod] # "alloc" => bid[new[insmod]] = call[insmod].id

\* A book that was missing when delete_book took books_lock still is.
Deleting ==
    Op(insmod) = "delete" /\ pc[insmod] \in {"walk", "test", "miss"} /\ absent[insmod] =>
        ~HasBook(call[insmod].id)

ScriptInv == AtCall /\ BookInTest /\ OneBookEach /\ Adding /\ Deleting

\* The call that runs, by its place in the test.
LEMMA CallAt ==
    ASSUME AtCall, pc[insmod] # "idle"
    PROVE  /\ step \in 1 .. 36 /\ Pos(step) \in 1 .. 18
           /\ Op(insmod) = "add" => Pos(step) \in {1, 2} /\ call[insmod].id = Pos(step) - 1
           /\ Pos(step) \in {15, 16} => Op(insmod) = "delete"
           /\ Op(insmod) = "delete" => Pos(step) \in {15, 16} /\ call[insmod].id = Pos(step) - 15
<1>1. step \in 1 .. 36 /\ Op(insmod) = Script[step][1] /\ call[insmod].id = Script[step][2]
  BY DEF AtCall, Op
<1>2. Pos(step) \in 1 .. 18
  BY <1>1 DEF Pos
<1> QED
  BY <1>1, <1>2, ScriptCalls

LEMMA CallScript == ASSUME IInv, ScriptInv, CallNext PROVE ScriptInv'
<1> DEFINE c == Script[step + 1]
<1>1. /\ step \in 0 .. 35 /\ step' = step + 1 /\ pc[insmod] = "idle" /\ insmod \in Tasks
      /\ Call(insmod, c[1], c[2], c[3])
  BY ScriptCalls, InsmodAssumption DEF CallNext, ScriptInv, AtCall, Call
<1>2. /\ call'[insmod] = [op |-> c[1], id |-> c[2], async |-> c[3]] /\ UNCHANGED <<nst, bid, new>>
      /\ pc'[insmod] \in {"walk", "alloc", "lock"} /\ (c[1] = "add" => pc'[insmod] = "alloc")
      /\ (c[1] = "delete" => pc'[insmod] = "lock")
  BY <1>1 DEF Call, Goto, heap, IInv, TypeOK, ReadSide, UpdateOps
<1>3. /\ step + 1 \in 1 .. 36
      /\ Pos(step + 1) \in 1 .. 18 /\ Pos(step + 1) = IF Pos(step) = 18 THEN 1 ELSE Pos(step) + 1
      /\ Pos(step) \in 0 .. 18
  BY <1>1 DEF Pos
<1>4. /\ c[1] = "add" => Pos(step + 1) \in {1, 2} /\ c[2] = Pos(step + 1) - 1
      /\ Pos(step + 1) \in {15, 16} => c[1] = "delete"
  BY <1>3, ScriptCalls
<1>5. AtCall'
  BY <1>1, <1>2, <1>3 DEF AtCall
<1> HIDE DEF c
<1>6. \A z \in Nodes : nst[z] = "linked" =>
        bid[z] \in {0, 1} /\ Pos(step) \in (bid[z] + 1) .. (bid[z] + 14)
  BY <1>1 DEF ScriptInv, BookInTest
<1>7. BookInTest'
  <2> SUFFICES ASSUME NEW z \in Nodes, nst[z] = "linked"
               PROVE  /\ bid[z] \in {0, 1} /\ Pos(step + 1) \in (bid[z] + 1) .. (bid[z] + 15)
                      /\ Pos(step + 1) = bid[z] + 15 => pc'[insmod] \in {"lock", "walk", "test", "unlink"}
    BY <1>1, <1>2 DEF BookInTest
  <2> QED
    BY <1>2, <1>3, <1>4, <1>6
<1>8. OneBookEach'
  BY <1>2 DEF ScriptInv, OneBookEach
<1>9. Adding'
  <2> SUFFICES ASSUME c[1] = "add" PROVE ~HasBook(c[2])
    BY <1>2 DEF Adding, Op, HasBook
  <2>1. \A z \in Nodes : nst[z] = "linked" => bid[z] # c[2]
    BY <1>3, <1>4, <1>6
  <2> QED
    BY <2>1 DEF HasBook
<1>10. Deleting'
  BY <1>2 DEF Deleting, Op
<1> QED
  BY <1>5, <1>7, <1>8, <1>9, <1>10 DEF ScriptInv

\* A step of a function changes neither the call nor its place, or returns.
LEMMA TaskAtCall == ASSUME IInv, AtCall, TaskStep(insmod), UNCHANGED step
                    PROVE  AtCall' /\ pc[insmod] # "idle" /\ (pc'[insmod] = "idle" \/ call' = call)
<1>1. pc[insmod] # "idle"
  BY DEF TaskStep, Walk, Test, UpdateTest, Alloc, AddAllocFails, UpdateAllocFails, Lock, AddLink, UpdateReplace,
     DeleteUnlink, Unlock, UnlockReturn, ReadUnlock, IsBorrowedRead, ReadUnlockReturn, ReclaimAsync, ReclaimSync,
     SyncDone
<1>2. pc'[insmod] = "idle" \/ call' = call
  BY InsmodAssumption
     DEF TaskStep, Walk, Test, UpdateTest, Alloc, AddAllocFails, UpdateAllocFails, Lock, AddLink, UpdateReplace,
     DeleteUnlink, Unlock, UnlockReturn, ReadUnlock, IsBorrowedRead, ReadUnlockReturn, ReclaimAsync, ReclaimSync,
     SyncDone, Return, Goto, IInv, TypeOK
<1> QED
  BY <1>1, <1>2 DEF AtCall

\* A step that leaves the books of the list and their ids alone.
SameLinked == \A z \in Nodes : /\ nst'[z] = "linked" <=> nst[z] = "linked"
                               /\ nst[z] = "linked" => bid'[z] = bid[z]

LEMMA QuietScript ==
    ASSUME ScriptInv, SameLinked, UNCHANGED step, AtCall', Adding', Deleting',
           \A z \in Nodes : nst[z] = "linked" /\ Pos(step) = bid[z] + 15 =>
                pc'[insmod] \in {"lock", "walk", "test", "unlink"}
    PROVE  ScriptInv'
<1>1. BookInTest'
  BY DEF ScriptInv, BookInTest, SameLinked
<1>2. OneBookEach'
  BY DEF ScriptInv, OneBookEach, SameLinked
<1> QED
  BY <1>1, <1>2 DEF ScriptInv

\* What add_book and delete_book do on their way, the list apart.
LEMMA AddSteps ==
    ASSUME IInv, TaskStep(insmod), Op(insmod) = "add", ~AddLink(insmod), pc'[insmod] # "idle"
    PROVE  \/ /\ pc[insmod] = "alloc" /\ pc'[insmod] = "lock" /\ UNCHANGED call
              /\ bid'[new'[insmod]] = call[insmod].id
           \/ /\ pc[insmod] = "lock" /\ pc'[insmod] = "link" /\ UNCHANGED <<bid, new, call>>
<1> USE InsmodAssumption DEF IInv, TypeOK, Goto, heap
<1>1. CASE \E b \in {0, 1} : Alloc(insmod, call[insmod].id, b)
  BY <1>1 DEF Alloc
<1>2. CASE Lock(insmod, "link")
  BY <1>2 DEF Lock
<1>3. CASE AddAllocFails(insmod) \/ UnlockReturn(insmod, "unlock")
  BY <1>3 DEF AddAllocFails, UnlockReturn, Return
<1> QED
  BY <1>1, <1>2, <1>3 DEF TaskStep, Updates, Unlinks, UpdateOps, UnlinkingOps, ReadSide

LEMMA DeleteSteps ==
    ASSUME IInv, TaskStep(insmod), Op(insmod) = "delete", ~DeleteUnlink(insmod)
    PROVE  \/ /\ pc[insmod] = "lock" /\ pc'[insmod] = "walk" /\ UNCHANGED call
              /\ absent'[insmod] => ~HasBook(call[insmod].id)
           \/ /\ pc[insmod] \in {"walk", "test"} /\ pc'[insmod] \in {"walk", "test", "unlink", "miss"}
              /\ UNCHANGED <<call, absent>>
           \/ pc[insmod] \in {"unlock", "miss", "reclaim", "sync"} /\ pc'[insmod] \in {"idle", "reclaim", "sync"}
<1> USE InsmodAssumption DEF IInv, TypeOK, Goto, heap, aux
<1>1. CASE Lock(insmod, "walk")
  BY <1>1 DEF Lock
<1>2. CASE Walk(insmod) \/ Test(insmod, "unlink")
  BY <1>2 DEF Walk, Test
<1>3. CASE \/ Unlock(insmod, "reclaim") \/ UnlockReturn(insmod, "miss") \/ ReclaimAsync(insmod)
           \/ ReclaimSync(insmod) \/ SyncDone(insmod)
  BY <1>3 DEF Unlock, UnlockReturn, ReclaimAsync, ReclaimSync, SyncDone, Return
<1> QED
  BY <1>1, <1>2, <1>3 DEF TaskStep, Updates, Unlinks, UpdateOps, UnlinkingOps, ReadSide

\* The steps of a function that change the list.
ListStep ==
    \/ AddLink(insmod) /\ Op(insmod) = "add"
    \/ UpdateReplace(insmod) /\ Updates(insmod)
    \/ DeleteUnlink(insmod) /\ Op(insmod) = "delete"

LEMMA TaskSameLinked ==
    ASSUME IInv, TaskStep(insmod), ~ListStep PROVE SameLinked
<1>1. CASE UNCHANGED <<nst, bid>>
  BY <1>1 DEF SameLinked
<1>2. ASSUME NEW id, NEW b, Alloc(insmod, id, b) PROVE SameLinked
  BY <1>2 DEF Alloc, SameLinked, IInv, TypeOK
<1>3. CASE SyncDone(insmod) /\ Unlinks(insmod)
  BY <1>3, InsmodAssumption DEF SyncDone, kfree, SameLinked, IInv, TypeOK, ReclaimInv, Reclaiming
<1> QED
  BY <1>1, <1>2, <1>3 DEF TaskStep, ListStep, heap, Walk, Test, UpdateTest, AddAllocFails, UpdateAllocFails, Lock, Unlock,
     UnlockReturn, ReadUnlock, IsBorrowedRead, ReadUnlockReturn, ReclaimAsync, ReclaimSync

LEMMA TaskScript ==
    ASSUME IInv, ScriptInv, LookupInv', TaskStep(insmod), UNCHANGED step, ~ListStep PROVE ScriptInv'
<1>1. /\ AtCall /\ AtCall' /\ pc[insmod] # "idle" /\ (pc'[insmod] = "idle" \/ call' = call) /\ insmod \in Tasks
      /\ (call' = call => Op(insmod)' = Op(insmod))
  BY TaskAtCall, InsmodAssumption DEF ScriptInv, Op
<1>2. SameLinked
  BY TaskSameLinked
<1>3. Adding'
  <2> SUFFICES ASSUME Op(insmod)' = "add", pc'[insmod] \in {"alloc", "lock", "link"}
               PROVE  /\ \A z \in Nodes : nst'[z] = "linked" => bid'[z] # call'[insmod].id
                      /\ pc'[insmod] # "alloc" => bid'[new'[insmod]] = call'[insmod].id
    BY DEF Adding, HasBook
  <2>1. Op(insmod) = "add" /\ call' = call /\ ~AddLink(insmod)
    BY <1>1 DEF ListStep
  <2>2. ~HasBook(call[insmod].id) /\ (pc[insmod] # "alloc" => bid[new[insmod]] = call[insmod].id)
    BY <2>1, AddSteps DEF ScriptInv, Adding
  <2> QED
    BY <1>2, <2>1, <2>2, AddSteps DEF SameLinked, HasBook
<1>4. Deleting'
  <2> SUFFICES ASSUME Op(insmod)' = "delete", pc'[insmod] \in {"walk", "test", "miss"}, absent'[insmod]
               PROVE  \A z \in Nodes : nst'[z] = "linked" => bid'[z] # call'[insmod].id
    BY DEF Deleting, HasBook
  <2>1. Op(insmod) = "delete" /\ call' = call /\ ~DeleteUnlink(insmod)
    BY <1>1 DEF ListStep
  <2>2. ~HasBook(call[insmod].id)
    BY <2>1, DeleteSteps DEF ScriptInv, Deleting
  <2> QED
    BY <1>2, <2>1, <2>2 DEF SameLinked, HasBook
<1>5. ASSUME NEW z \in Nodes, nst[z] = "linked", Pos(step) = bid[z] + 15
      PROVE  pc'[insmod] \in {"lock", "walk", "test", "unlink"}
  <2>1. bid[z] \in {0, 1} /\ pc[insmod] \in {"lock", "walk", "test", "unlink"}
    BY <1>5 DEF ScriptInv, BookInTest
  <2>2. Op(insmod) = "delete" /\ call[insmod].id = bid[z] /\ ~DeleteUnlink(insmod)
    BY <1>1, <1>5, <2>1, CallAt DEF ListStep
  <2>3. pc[insmod] # "unlink" /\ (pc'[insmod] = "miss" => absent[insmod])
    <3>1. pc'[insmod] = "miss" => absent'[insmod]
      BY <1>1 DEF LookupInv, OrderInv, FindInv
    <3> QED
      BY <2>1, <2>2, <3>1, DeleteSteps
  <2>4. pc'[insmod] # "miss"
    <3>1. HasBook(call[insmod].id)
      BY <1>5, <2>2 DEF HasBook
    <3> QED
      BY <2>1, <2>2, <2>3, <3>1, DeleteSteps DEF ScriptInv, Deleting
  <2> QED
    BY <2>1, <2>2, <2>3, <2>4, DeleteSteps
<1> QED
  BY <1>1, <1>2, <1>3, <1>4, <1>5, QuietScript

LEMMA AddScript ==
    ASSUME IInv, ScriptInv, AddLink(insmod), Op(insmod) = "add", UNCHANGED step, AtCall' PROVE ScriptInv'
<1> USE DEF heap, links, rcu, aux, Goto
<1>0. PICK n : n = new[insmod]
  OBVIOUS
<1>1. /\ insmod \in Tasks /\ n \in Nodes /\ pc[insmod] = "link" /\ pc'[insmod] = "unlock"
      /\ nst'[n] = "linked" /\ (\A z \in Nodes \ {n} : nst'[z] = nst[z]) /\ UNCHANGED bid
  BY <1>0, InsmodAssumption DEF AddLink, list_add_rcu, IInv, TypeOK, Shape, ShapeOf, NewInv, HasNew, Op
<1>2. /\ Pos(step) \in {1, 2} /\ bid[n] = Pos(step) - 1
      /\ \A z \in Nodes : nst[z] = "linked" => bid[z] # bid[n]
  BY <1>0, <1>1, CallAt DEF ScriptInv, Adding, HasBook
<1>3. BookInTest'
  <2> SUFFICES ASSUME NEW z \in Nodes, nst'[z] = "linked"
               PROVE  /\ bid[z] \in {0, 1} /\ Pos(step) \in (bid[z] + 1) .. (bid[z] + 15)
                      /\ Pos(step) # bid[z] + 15
    BY <1>1 DEF BookInTest
  <2>1. CASE z = n
    BY <1>2, <2>1
  <2>2. CASE z # n
    BY <1>1, <1>2, <2>2 DEF ScriptInv, BookInTest
  <2> QED
    BY <2>1, <2>2
<1>4. OneBookEach'
  BY <1>1, <1>2 DEF ScriptInv, OneBookEach
<1>5. Adding' /\ Deleting'
  BY <1>1 DEF Adding, Deleting
<1> QED
  BY <1>3, <1>4, <1>5 DEF ScriptInv

LEMMA ReplaceScript ==
    ASSUME IInv, ScriptInv, LookupInv, UpdateReplace(insmod), Updates(insmod), UNCHANGED step, AtCall'
    PROVE  ScriptInv'
<1> USE DEF heap, links, rcu, aux, Goto
<1>0. PICK o, n : o = old[insmod] /\ n = new[insmod]
  OBVIOUS
<1>1. /\ insmod \in Tasks /\ o \in Nodes /\ n \in Nodes /\ o # n /\ nst[o] = "linked"
      /\ pc[insmod] = "link" /\ pc'[insmod] = "unlock" /\ UNCHANGED bid
  BY <1>0, InsmodAssumption
     DEF UpdateReplace, IInv, TypeOK, Shape, ShapeOf, OldInv, NewInv, HasNew, Op, Updates, UpdateOps
<1>2. nst'[n] = "linked" /\ nst'[o] = "gone" /\ \A z \in Nodes \ {o, n} : nst'[z] = nst[z]
  BY <1>0, <1>1 DEF UpdateReplace, list_replace_rcu, IInv, TypeOK
<1>3. bid[n] = bid[o]
  BY <1>0, <1>1 DEF LookupInv, OrderInv, FindInv
<1>4. Pos(step) \notin {15, 16}
  BY <1>1, CallAt DEF ScriptInv, Updates, UpdateOps
<1>5. BookInTest'
  <2> SUFFICES ASSUME NEW z \in Nodes, nst'[z] = "linked"
               PROVE  /\ bid[z] \in {0, 1} /\ Pos(step) \in (bid[z] + 1) .. (bid[z] + 15)
                      /\ Pos(step) # bid[z] + 15
    BY <1>1 DEF BookInTest
  <2>1. PICK y \in Nodes : nst[y] = "linked" /\ bid[y] = bid[z]
    BY <1>1, <1>2, <1>3
  <2> QED
    BY <1>4, <2>1 DEF ScriptInv, BookInTest
<1>6. OneBookEach'
  BY <1>1, <1>2, <1>3 DEF ScriptInv, OneBookEach
<1>7. Adding' /\ Deleting'
  BY <1>1 DEF Adding, Deleting
<1> QED
  BY <1>5, <1>6, <1>7 DEF ScriptInv

LEMMA DeleteScript ==
    ASSUME IInv, ScriptInv, LookupInv, DeleteUnlink(insmod), Op(insmod) = "delete", UNCHANGED step, AtCall'
    PROVE  ScriptInv'
<1> USE DEF heap, links, rcu, aux, Goto
<1>0. PICK o : o = cur[insmod]
  OBVIOUS
<1>1. /\ insmod \in Tasks /\ o \in Nodes /\ nst[o] = "linked" /\ pc[insmod] = "unlink" /\ pc'[insmod] = "unlock"
      /\ nst'[o] = "gone" /\ (\A z \in Nodes \ {o} : nst'[z] = nst[z]) /\ UNCHANGED bid
  <2>1. insmod \in Tasks /\ pc[insmod] = "unlink" /\ pc' = [pc EXCEPT ![insmod] = "unlock"]
        /\ nst' = [nst EXCEPT ![o] = "gone"] /\ UNCHANGED bid
    BY <1>0, InsmodAssumption DEF DeleteUnlink, list_del_rcu
  <2>2. o \in Nodes /\ nst[o] = "linked"
    BY <1>0, <2>1, ConstantsAssumption DEF IInv, Shape, ShapeOf, CursorInv
  <2> QED
    BY <2>1, <2>2 DEF IInv, TypeOK
<1>2. bid[o] = call[insmod].id
  BY <1>0, <1>1 DEF LookupInv, OrderInv, FindInv
<1>3. Pos(step) = bid[o] + 15 /\ bid[o] \in {0, 1}
  BY <1>1, <1>2, CallAt DEF ScriptInv
<1>4. BookInTest'
  <2> SUFFICES ASSUME NEW z \in Nodes, nst'[z] = "linked"
               PROVE  /\ bid[z] \in {0, 1} /\ Pos(step) \in (bid[z] + 1) .. (bid[z] + 15)
                      /\ Pos(step) # bid[z] + 15
    BY <1>1 DEF BookInTest
  <2>1. z # o /\ nst[z] = "linked"
    BY <1>1
  <2>2. bid[z] # bid[o]
    BY <1>1, <2>1 DEF ScriptInv, OneBookEach
  <2> QED
    BY <1>3, <2>1, <2>2 DEF ScriptInv, BookInTest
<1>5. OneBookEach'
  BY <1>1 DEF ScriptInv, OneBookEach
<1>6. Adding' /\ Deleting'
  BY <1>1 DEF Adding, Deleting
<1> QED
  BY <1>4, <1>5, <1>6 DEF ScriptInv

LEMMA SoftirqScript == ASSUME IInv, ScriptInv, Softirq PROVE ScriptInv'
<1>1. PICK n \in Nodes : book_reclaim_callback(n)
  BY DEF Softirq
<1>2. nst[n] = "gone" /\ nst' = [nst EXCEPT ![n] = "free"] /\ bid' = [bid EXCEPT ![n] = AnId]
  BY <1>1 DEF book_reclaim_callback, kfree, IInv, ReclaimInv
<1>3. UNCHANGED <<step, pc, call, cur, new, absent>>
  BY <1>1 DEF Softirq, book_reclaim_callback, aux
<1>4. SameLinked
  BY <1>2 DEF SameLinked, IInv, TypeOK
<1>5. Op(insmod)' = Op(insmod) /\ AtCall'
  BY <1>3 DEF ScriptInv, AtCall, Op
<1>6. Adding'
  <2> SUFFICES ASSUME Op(insmod) = "add", pc[insmod] \in {"alloc", "lock", "link"}
               PROVE  /\ \A z \in Nodes : nst'[z] = "linked" => bid'[z] # call[insmod].id
                      /\ pc[insmod] # "alloc" => bid'[new[insmod]] = call[insmod].id
    BY <1>3, <1>5 DEF Adding, HasBook
  <2>1. pc[insmod] # "alloc" => nst[new[insmod]] = "new" /\ new[insmod] \in Nodes
    BY InsmodAssumption DEF IInv, Shape, ShapeOf, NewInv, HasNew, Op
  <2> QED
    BY <1>2, <1>4, <2>1 DEF ScriptInv, Adding, HasBook, SameLinked, IInv, TypeOK
<1>7. Deleting'
  BY <1>3, <1>4, <1>5 DEF ScriptInv, Deleting, HasBook, SameLinked
<1>8. \A z \in Nodes : nst[z] = "linked" /\ Pos(step) = bid[z] + 15 =>
        pc'[insmod] \in {"lock", "walk", "test", "unlink"}
  BY <1>3 DEF ScriptInv, BookInTest
<1> QED
  BY <1>3, <1>4, <1>5, <1>6, <1>7, <1>8, QuietScript

LEMMA InitScript == MInit => ScriptInv
  BY InsmodAssumption DEF MInit, Init, NoCall, ScriptInv, AtCall, BookInTest, OneBookEach, Adding, Deleting, Op

LEMMA NextScript ==
    ASSUME IInv, LookupInv, LookupInv', ScriptInv, [MNext]_mvars PROVE ScriptInv'
<1>1. CASE CallNext
  BY <1>1, CallScript
<1>2. CASE Continue
  <2>1. TaskStep(insmod) /\ UNCHANGED step /\ AtCall'
    BY <1>2, InsmodAssumption, RunIsTaskStep, TaskAtCall DEF Continue, ScriptInv
  <2> QED
    BY <2>1, TaskScript, AddScript, ReplaceScript, DeleteScript DEF ListStep
<1>3. CASE Softirq
  BY <1>3, SoftirqScript
<1>4. CASE list_rcu_example_init \/ list_rcu_example_exit \/ UNCHANGED mvars
  BY <1>4 DEF list_rcu_example_init, list_rcu_example_exit, mvars, vars, heap, aux, ScriptInv, AtCall, BookInTest,
     OneBookEach, Adding, Deleting, Op, HasBook
<1> QED
  BY <1>1, <1>2, <1>3, <1>4 DEF MNext

\* Each of the two tests of test_example starts from and ends with an empty
\* list, whichever kzalloc calls fail and whenever the callbacks run.
THEOREM TestsLeaveNoBooks == MSpec => []ListEmptyBetweenTests
<1>1. ScriptInv => ListEmptyBetweenTests
  <2> SUFFICES ASSUME ScriptInv, pc[insmod] = "idle", step \in {0, 18, 36}, NEW z \in Nodes, nst[z] = "linked"
               PROVE  FALSE
    BY ScriptCalls DEF ListEmptyBetweenTests, Linked
  <2> QED
    BY DEF ScriptInv, BookInTest, Pos
<1>2. MSpec => []IInv /\ []LookupInv
  <2>1. (Spec => []IInv) /\ (Spec => []LookupInv)
    BY OneCaller, Invariance, LookupInvariance
  <2> QED
    BY <2>1, ModuleIsACaller, PTL
<1>3. IInv /\ LookupInv /\ LookupInv' /\ ScriptInv /\ [MNext]_mvars => ScriptInv'
  BY NextScript
<1> QED
  BY <1>1, <1>2, <1>3, InitScript, PTL DEF MSpec
=============================================================================
