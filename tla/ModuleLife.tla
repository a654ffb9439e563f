----------------------------- MODULE ModuleLife -----------------------------
(***************************************************************************)
(* The life of a kernel module that allocates: insmod runs its init        *)
(* function, rmmod its exit function, and both can happen again.  The      *)
(* modules are list (list.c), slab_custom, vmallc, kmalloc_test and        *)
(* ksz_test; one of them is loaded and unloaded, by one task at a time.    *)
(*                                                                         *)
(* Every allocation can fail.  What memory holds after it was freed is     *)
(* anything: the allocator writes to it (a pointer of its free list, a     *)
(* poison), and so does whoever gets it next.  A NULL pointer that is used *)
(* and a division by zero end the task in an oops, and so can a pointer    *)
(* read from freed memory: the module stays where it is and can be neither *)
(* used nor unloaded.                                                      *)
(***************************************************************************)
EXTENDS Integers, Sequences, Functions

CONSTANTS
    Modules,        \* the modules that are loaded
    Steps,          \* the values of the parameter stepsz of ksz_test
    FirstNum,       \* the first size kmalloc_test and ksz_test ask for, 100
    KmallocStep,    \* what kmalloc_test adds to it, 1000
    MaxKmalloc      \* the largest size that kmalloc can provide

AllocModules == {"list", "slab_custom", "vmallc", "kmalloc_test", "ksz_test"}

ASSUME ModuleAssumption ==
    /\ Modules \subseteq AllocModules \cup {"foreach"}
    /\ Steps \subseteq Int
    /\ {FirstNum, KmallocStep, MaxKmalloc} \subseteq Nat \ {0}

\* The letters of the nodes that list_init adds, in this order
Letters == <<"l", "i", "s", "t">>

VARIABLES
    mod,        \* the module
    life,       \* "out", "init", "live", "exit" or "oops"
    at,         \* where its init or exit function is
    heap,       \* what the module has allocated since it was loaded and not freed
    n,          \* add2tail calls made
    list,       \* head_node: the letters of the nodes, linked in this order
    curr,       \* the position of the node freelist is at; 0: no node of the list
    corrupt,    \* auxiliary: freelist followed a pointer that was overwritten
    num,        \* num of kmt_init
    stepsz,     \* the module parameter of ksz_test
    denied      \* auxiliary: an allocation of this life of the module failed

nodes == <<n, list, curr, corrupt>>
vars == <<mod, life, at, heap, nodes, num, stepsz, denied>>

Nothing == "nothing"
Things == Range(Letters) \cup {"cache", "object", "vp", "p", "major"}

TypeOK ==
    /\ mod \in Modules
    /\ life \in {"out", "init", "live", "exit", "oops"}
    /\ heap \subseteq Things
    /\ n \in 0 .. 4 /\ list \in Seq(Range(Letters)) /\ Len(list) <= n
    /\ curr \in 0 .. 5 /\ corrupt \in BOOLEAN
    /\ num \in Int
    /\ stepsz \in Steps \cup {0} /\ denied \in BOOLEAN

Init ==
    /\ mod \in Modules
    /\ life = "out" /\ at = Nothing
    /\ heap = {}
    /\ n = 0 /\ list = <<>> /\ curr = 1 /\ corrupt = FALSE
    /\ num = 0 /\ stepsz = 0
    /\ denied = FALSE

-----------------------------------------------------------------------------
(* The kernel: the module loader and the allocator *)

InitStart == [list |-> "add2tail", slab_custom |-> "init_my_cache", vmallc |-> "vmalloc",
              kmalloc_test |-> "kmalloc", ksz_test |-> "kmalloc", foreach |-> "register_chrdev"]
ExitStart == [list |-> "freelist", slab_custom |-> "kmem_cache_destroy", vmallc |-> "vfree",
              foreach |-> "unregister_chrdev"]

\* Loading a module sets its variables to their initial values; what an earlier
\* life has left behind is out of its reach.
insmod ==
    /\ life = "out"
    /\ life' = "init" /\ at' = InitStart[mod]
    /\ heap' = {}
    /\ n' = 0 /\ list' = <<>> /\ curr' = 1 /\ corrupt' = FALSE
    /\ num' = IF mod \in {"kmalloc_test", "ksz_test"} THEN FirstNum ELSE 0
    /\ stepsz' \in IF mod = "ksz_test" THEN Steps ELSE {0}
    /\ denied' = FALSE
    /\ UNCHANGED mod

\* kmalloc_test and ksz_test are never there to be unloaded.
rmmod ==
    /\ life = "live"
    /\ life' = "exit" /\ at' = ExitStart[mod]
    /\ UNCHANGED <<mod, heap, nodes, num, stepsz, denied>>

\* The init function returns 0, or an error and the module is gone again; the
\* exit function returns.
InitReturns(v) == life' = (IF v = 0 THEN "live" ELSE "out") /\ at' = Nothing
ExitReturns == life' = "out" /\ at' = Nothing
Oops == life' = "oops" /\ at' = Nothing
Goto(l) == at' = l /\ UNCHANGED life

Gets(x) == heap' = heap \cup {x} /\ UNCHANGED denied
Denied == denied' = TRUE /\ UNCHANGED heap
Frees(x) == heap' = heap \ {x} /\ UNCHANGED denied

-----------------------------------------------------------------------------
(* list.c *)

\* Mutant: the node is linked whatever kzalloc returned.
add2tailUnchecked ==
    /\ at = "add2tail" /\ n < Len(Letters)
    /\ n' = n + 1
    /\ Gets(Letters[n + 1]) \/ Denied
    /\ list' = Append(list, Letters[n + 1])
    /\ Goto("add2tail")
    /\ UNCHANGED <<mod, curr, corrupt, num, stepsz>>

\* list_init calls add2tail four times and does not look at what it returns.
add2tail ==
    /\ at = "add2tail" /\ n < Len(Letters)
    /\ n' = n + 1
    /\ \/ Gets(Letters[n + 1]) /\ list' = Append(list, Letters[n + 1])
       \/ Denied /\ UNCHANGED list
    /\ Goto("add2tail")
    /\ UNCHANGED <<mod, curr, corrupt, num, stepsz>>

\* showlist and two searches, which only read the list; then list_init returns.
showlist ==
    /\ at = "add2tail" /\ n = Len(Letters)
    /\ InitReturns(0)
    /\ UNCHANGED <<mod, heap, nodes, num, stepsz, denied>>

\* Mutant: the walk of freelist does not free the first node.
freelistSkipsFirst ==
    /\ at = "freelist"
    /\ \/ list = <<>> /\ ExitReturns /\ UNCHANGED <<heap, denied>>
       \/ list # <<>> /\ curr = 1 /\ Goto("next") /\ UNCHANGED <<heap, denied>>
       \/ list # <<>> /\ curr > 1 /\ Frees(list[curr]) /\ Goto("next")
    /\ UNCHANGED <<mod, nodes, num, stepsz>>

\* freelist frees what curr points to.  If that is not a node of the list, or one
\* that was freed before, kfree may notice it and stop, or not.
freelist ==
    /\ at = "freelist"
    /\ \/ list = <<>> /\ ExitReturns /\ UNCHANGED <<heap, denied>>
       \/ list # <<>> /\ curr > 0 /\ Frees(list[curr]) /\ Goto("next")
       \/ list # <<>> /\ curr = 0 /\ Goto("next") /\ UNCHANGED <<heap, denied>>
       \/ /\ list # <<>> /\ ~(curr > 0 /\ list[curr] \in heap)
          /\ Oops /\ UNCHANGED <<heap, denied>>
    /\ UNCHANGED <<mod, nodes, num, stepsz>>

\* Then list_for_each_entry takes the next pointer out of what was just freed.
\* Either it is still there ...
NextIntact ==
    /\ at = "next" /\ curr > 0
    /\ \/ curr = Len(list) /\ ExitReturns /\ UNCHANGED curr
       \/ curr < Len(list) /\ curr' = curr + 1 /\ Goto("freelist")
    /\ UNCHANGED <<mod, heap, n, list, corrupt, num, stepsz, denied>>

\* ... or it has been overwritten, and what is there instead leads nowhere, to
\* the head of the list, to any node, freed or not, or to other memory.
NextOverwritten ==
    /\ at = "next"
    /\ corrupt' = TRUE
    /\ \/ Oops /\ UNCHANGED curr
       \/ ExitReturns /\ UNCHANGED curr
       \/ curr' \in 0 .. Len(list) /\ Goto("freelist")
    /\ UNCHANGED <<mod, heap, n, list, num, stepsz, denied>>

list_for_each_entry == NextIntact \/ NextOverwritten

list_init == add2tail \/ showlist
list_exit == freelist \/ list_for_each_entry

-----------------------------------------------------------------------------
(* slab_custom.c *)

\* Mutant: the new cache is put into a local variable.
init_my_cacheLost ==
    /\ at = "init_my_cache"
    /\ UNCHANGED <<heap, denied>>
    /\ Goto("mycache_use")
    /\ UNCHANGED <<mod, nodes, num, stepsz>>

init_my_cache ==
    /\ at = "init_my_cache"
    /\ Gets("cache") \/ Denied
    /\ Goto("mycache_use")
    /\ UNCHANGED <<mod, nodes, num, stepsz>>

\* kmem_cache_size reads through my_cachep, memset writes to the object; neither
\* pointer is checked.
mycache_use ==
    /\ at = "mycache_use"
    /\ \/ "cache" \notin heap /\ Oops /\ UNCHANGED <<heap, denied>>
       \/ "cache" \in heap /\ Gets("object") /\ Goto("kmem_cache_free")
       \/ "cache" \in heap /\ Denied /\ Oops
    /\ UNCHANGED <<mod, nodes, num, stepsz>>

\* The object is freed and init returns.
kmem_cache_free ==
    /\ at = "kmem_cache_free"
    /\ Frees("object")
    /\ InitReturns(0)
    /\ UNCHANGED <<mod, nodes, num, stepsz>>

slabsee_init == init_my_cache \/ mycache_use \/ kmem_cache_free

\* A cache that still has an object is not destroyed.
slabsee_exit ==
    /\ at = "kmem_cache_destroy"
    /\ \/ "object" \notin heap /\ Frees("cache")
       \/ "object" \in heap /\ UNCHANGED <<heap, denied>>
    /\ ExitReturns
    /\ UNCHANGED <<mod, nodes, num, stepsz>>

-----------------------------------------------------------------------------
(* vmallc.c *)

hello_init ==
    /\ at = "vmalloc"
    /\ Gets("vp") \/ Denied
    /\ InitReturns(0)
    /\ UNCHANGED <<mod, nodes, num, stepsz>>

\* vfree(NULL) does nothing.
hello_exit ==
    /\ at = "vfree"
    /\ Frees("vp")
    /\ ExitReturns
    /\ UNCHANGED <<mod, nodes, num, stepsz>>

-----------------------------------------------------------------------------
(* kmalloc_test.c and ksz_test.c *)

\* Mutant: the loop tries again when kmalloc fails.
kmallocRetries ==
    /\ at = "kmalloc"
    /\ \/ num \in 0 .. MaxKmalloc /\ Gets("p") /\ Goto("round")
       \/ num # 0 /\ Denied /\ Goto("kmalloc")
    /\ UNCHANGED <<mod, nodes, num, stepsz>>

\* kmalloc(0) returns a pointer that can be freed; a negative size is a huge one.
kmalloc ==
    /\ at = "kmalloc"
    /\ \/ num \in 0 .. MaxKmalloc /\ Gets("p") /\ Goto("round")
       \/ num # 0 /\ Denied /\ InitReturns(-1)
    /\ UNCHANGED <<mod, nodes, num, stepsz>>

\* The rest of a round of kmalloc_test
kmalloc_round ==
    /\ at = "round" /\ mod = "kmalloc_test"
    /\ num' = num + KmallocStep
    /\ Frees("p")
    /\ Goto("kmalloc")
    /\ UNCHANGED <<mod, nodes, stepsz>>

\* The rest of a round of ksz_test: it divides by num, frees and adds stepsz.
ksz_round ==
    /\ at = "round" /\ mod = "ksz_test"
    /\ \/ num = 0 /\ Oops /\ UNCHANGED <<heap, num, denied>>
       \/ /\ num # 0 /\ Frees("p")
          /\ num' = num + stepsz
          /\ Goto("kmalloc")
    /\ UNCHANGED <<mod, nodes, stepsz>>

\* kmt_init of kmalloc_test and of ksz_test
kmt_init == (mod = "kmalloc_test" /\ kmalloc) \/ kmalloc_round
ksz_init == (mod = "ksz_test" /\ kmalloc) \/ ksz_round

-----------------------------------------------------------------------------
ModuleStep ==
    \/ list_init \/ list_exit
    \/ slabsee_init \/ slabsee_exit
    \/ hello_init \/ hello_exit
    \/ kmt_init \/ ksz_init

Stays == life = "oops" /\ UNCHANGED vars

Next == insmod \/ rmmod \/ ModuleStep \/ Stays

Spec == Init /\ [][Next]_vars

\* The task that loads or unloads the module runs until the function returns.
FairSpec == Spec /\ WF_vars(ModuleStep)

-----------------------------------------------------------------------------
(* Properties *)

\* A module that is gone has given back all it allocated, whichever of its
\* allocations fail, also those it does not check, and after an init that gave
\* up on its own.  freelist breaks this only by going on through a pointer that
\* was overwritten after it freed the node that held it.
NothingLeftBehind == life = "out" /\ ~corrupt => heap = {}

\* Until it meets an overwritten pointer, freelist frees each node of the list
\* once and nothing else, however many of the four add2tail had no memory: it
\* stands on a node that is still the module's.
ListFreedOnce == at = "freelist" /\ list # <<>> /\ ~corrupt => list[curr] \in heap

\* The ways in which loading and unloading end in an oops: freelist has nodes to
\* free and goes on through an overwritten pointer; slab_custom gets no cache or
\* no object; the steps of ksz_test lead from FirstNum to exactly 0.
ModuleOopsHasCause ==
    life = "oops" =>
        \/ mod = "list" /\ corrupt /\ list # <<>>
        \/ mod = "slab_custom" /\ denied
        \/ mod = "ksz_test" /\ stepsz < 0 /\ FirstNum % (-stepsz) = 0

\* Loading and unloading end.  A ksz_test with a step of 0 need not: nothing
\* but a failing kmalloc stops it.  Nor need freelist once it has followed an
\* overwritten pointer: two free objects that point to each other keep it going.
LoadingEnds == (life \in {"init", "exit"} /\ ~(mod = "ksz_test" /\ stepsz = 0))
                 ~> (life \notin {"init", "exit"} \/ corrupt)
=============================================================================
