------------------------- MODULE TaskDriver_proofs -------------------------
(***************************************************************************)
(* Proofs about ModuleLife and TaskDriver, for every step of ksz_test,     *)
(* every limit of kmalloc, every buffer of rdtasks and every text.         *)
(***************************************************************************)
EXTENDS TaskDriver, TLAPS

(***************************************************************************)
(* Where a module is says which module it is and whether it is being       *)
(* loaded or unloaded; the kmalloc tests are never there afterwards.       *)
(***************************************************************************)
InitPlaces == {"add2tail", "init_my_cache", "mycache_use", "kmem_cache_free", "vmalloc",
               "kmalloc", "round", "register_chrdev"}
ExitPlaces == {"freelist", "next", "kmem_cache_destroy", "vfree", "unregister_chrdev"}

PlaceInv ==
    /\ at \in InitPlaces \cup ExitPlaces \cup {Nothing}
    /\ life = "init" <=> at \in InitPlaces
    /\ life = "exit" <=> at \in ExitPlaces
    /\ at \in {"add2tail", "freelist", "next"} => mod = "list"
    /\ at \in {"init_my_cache", "mycache_use", "kmem_cache_free", "kmem_cache_destroy"}
         => mod = "slab_custom"
    /\ at \in {"vmalloc", "vfree"} => mod = "vmallc"
    /\ at \in {"kmalloc", "round"} => mod \in {"kmalloc_test", "ksz_test"}
    /\ at \in {"register_chrdev", "unregister_chrdev"} => mod = "foreach"
    /\ life = "live" => mod \notin {"kmalloc_test", "ksz_test"}
    /\ life = "oops" => mod # "foreach"

(***************************************************************************)
(* What a module owns at each of its steps.                                *)
(***************************************************************************)
Loaded == life \in {"live", "exit"}

HeapInv ==
    /\ life = "out" /\ ~corrupt => heap = {}
    /\ at \in {"init_my_cache", "vmalloc", "kmalloc", "register_chrdev"} => heap = {}
    /\ at = "mycache_use" => heap \subseteq {"cache"}
    /\ at = "kmem_cache_free" => heap \subseteq {"cache", "object"}
    /\ at = "round" => heap \subseteq {"p"}
    /\ Loaded /\ mod = "slab_custom" => heap \subseteq {"cache"}
    /\ Loaded /\ mod = "vmallc" => heap \subseteq {"vp"}
    /\ Loaded /\ mod = "foreach" => heap = {"major"}

(***************************************************************************)
(* The list has each node once.  Until an overwritten pointer was followed *)
(* the module owns exactly the nodes that freelist has not freed, and      *)
(* freelist stands on the first of them.                                   *)
(***************************************************************************)
Distinct ==
    /\ \A k \in 1 .. Len(list) : \E m \in 1 .. n : list[k] = Letters[m]
    /\ \A k, l \in 1 .. Len(list) : list[k] = list[l] => k = l

OwnsFrom(c) == \A x : x \in heap <=> \E k \in c .. Len(list) : list[k] = x

ListInv ==
    /\ Distinct
    /\ corrupt => mod = "list" /\ list # <<>>
    /\ mod = "list" /\ life \in {"init", "live"} => ~corrupt /\ curr = 1 /\ OwnsFrom(1)
    /\ at = "freelist" =>
        /\ list # <<>> => curr \in 0 .. Len(list)
        /\ ~corrupt => curr >= 1 /\ OwnsFrom(curr)
    /\ at = "next" =>
        /\ list # <<>> /\ curr \in 0 .. Len(list)
        /\ ~corrupt => curr >= 1 /\ OwnsFrom(curr + 1)

(***************************************************************************)
(* ksz_test moves by multiples of its step; with a step that is not        *)
(* negative it never comes to 0.                                           *)
(***************************************************************************)
NumInv ==
    mod = "ksz_test" /\ life = "init" =>
        /\ stepsz \in Int
        /\ stepsz >= 0 => num > 0
        /\ stepsz < 0 => (FirstNum - num) % (-stepsz) = 0

\* slab_custom goes on without a cache only if it was denied one.
CacheInv == at = "mycache_use" /\ "cache" \notin heap => denied

MIInv == TypeOK /\ PlaceInv /\ HeapInv /\ ListInv /\ NumInv /\ CacheInv /\ ModuleOopsHasCause

-----------------------------------------------------------------------------
(* The arithmetic of ksz_test *)

LEMMA Remainder ==
    ASSUME NEW d \in Nat \ {0}, NEW q \in Int, NEW r \in 0 .. d - 1
    PROVE  (d * q + r) % d = r
  BY SMT

LEMMA Quotient ==
    ASSUME NEW d \in Nat \ {0}, NEW a \in Int
    PROVE  a \div d \in Int /\ a = d * (a \div d) + (a % d)
  BY SMT

LEMMA ZeroRemainder == \A s \in Int : s < 0 => (FirstNum - FirstNum) % (-s) = 0
<1> SUFFICES ASSUME NEW s \in Int, s < 0 PROVE (FirstNum - FirstNum) % (-s) = 0
  OBVIOUS
<1>1. FirstNum - FirstNum = (-s) * 0 + 0 /\ -s \in Nat \ {0} /\ 0 \in 0 .. (-s) - 1
  BY ModuleAssumption
<1> QED
  BY <1>1, Remainder

\* One step down keeps the distance to FirstNum a multiple of the step.
LEMMA StepDown ==
    ASSUME NEW d \in Nat \ {0}, NEW a \in Int, a % d = 0
    PROVE  (a + d) % d = 0
<1> DEFINE q == a \div d
<1>1. q \in Int /\ a = d * q + 0
  BY Quotient
<1> HIDE DEF q
<1>2. a + d = d * (q + 1) + 0
  BY <1>1
<1> QED
  BY <1>1, <1>2, Remainder, q + 1 \in Int, 0 \in 0 .. d - 1

-----------------------------------------------------------------------------
(* The modules *)

LEMMA LettersFacts ==
    /\ Len(Letters) = 4
    /\ \A k \in 1 .. 4 : Letters[k] \in Range(Letters) /\ Letters[k] \notin {"p", "vp", "cache", "object", "major"}
    /\ \A k, l \in 1 .. 4 : Letters[k] = Letters[l] => k = l
    /\ Range(Letters) \subseteq Things
    /\ {"cache", "object", "vp", "p", "major"} \subseteq Things
  BY DEF Letters, Range, Things

LEMMA InsmodStep ==
    ASSUME MIInv, insmod PROVE MIInv'
<1> USE ModuleAssumption DEF MIInv, insmod
<1>1. TypeOK'
  <2>1. list' \in Seq(Range(Letters)) /\ Len(list') = 0 /\ n' = 0 /\ curr' = 1
    OBVIOUS
  <2>2. num' \in Int /\ stepsz' \in Steps \cup {0}
    OBVIOUS
  <2>3. denied' \in BOOLEAN /\ corrupt' \in BOOLEAN
    OBVIOUS
  <2> QED
    BY <2>1, <2>2, <2>3 DEF TypeOK
<1>2. PlaceInv'
  BY DEF TypeOK, AllocModules, PlaceInv, InitStart, InitPlaces, ExitPlaces, Nothing
<1>3. HeapInv' /\ CacheInv' /\ ModuleOopsHasCause'
  BY DEF TypeOK, PlaceInv, HeapInv, CacheInv, Loaded, ModuleOopsHasCause, InitStart, AllocModules
<1>4. ListInv'
  BY DEF TypeOK, ListInv, Distinct, OwnsFrom, InitStart, AllocModules
<1>5. NumInv'
  <2>1. mod' = "ksz_test" => stepsz' \in Int /\ num' = FirstNum /\ FirstNum \in Nat /\ FirstNum > 0
    OBVIOUS
  <2> QED
    BY <2>1, ZeroRemainder DEF NumInv
<1> QED
  BY <1>1, <1>2, <1>3, <1>4, <1>5

LEMMA RmmodStep ==
    ASSUME MIInv, rmmod PROVE MIInv'
<1> USE ModuleAssumption DEF MIInv, rmmod, nodes
<1>1. TypeOK'
  BY DEF TypeOK
<1>2. mod \in {"list", "slab_custom", "vmallc", "foreach"}
  BY DEF TypeOK, AllocModules, PlaceInv
<1>3. PlaceInv'
  BY <1>2 DEF PlaceInv, ExitStart, InitPlaces, ExitPlaces
<1>4. HeapInv' /\ CacheInv' /\ ModuleOopsHasCause' /\ NumInv'
  BY <1>2 DEF HeapInv, CacheInv, Loaded, ModuleOopsHasCause, NumInv, ExitStart
<1>5. ListInv'
  <2>1. Distinct'
    BY DEF ListInv, Distinct
  <2>2. mod = "list" => ~corrupt /\ curr = 1 /\ OwnsFrom(1)
    BY DEF ListInv
  <2>3. mod = "list" => OwnsFrom(1)'
    BY <2>2 DEF OwnsFrom
  <2>4. list # <<>> => 1 \in 0 .. Len(list)
    BY DEF TypeOK
  <2> QED
    BY <1>2, <2>1, <2>2, <2>3, <2>4 DEF ListInv, ExitStart
<1> QED
  BY <1>1, <1>3, <1>4, <1>5

LEMMA AddStep ==
    ASSUME MIInv, add2tail PROVE MIInv'
<1> USE ModuleAssumption, LettersFacts DEF MIInv, add2tail, Goto
<1>0. life = "init" /\ mod = "list" /\ ~corrupt /\ curr = 1 /\ OwnsFrom(1) /\ Distinct
  BY DEF PlaceInv, ListInv, InitPlaces
<1>1. n \in 0 .. 3 /\ n' \in 0 .. 4 /\ Letters[n + 1] \in Range(Letters)
  BY DEF TypeOK
<1>2. CASE Gets(Letters[n + 1]) /\ list' = Append(list, Letters[n + 1])
  <2> USE <1>2 DEF Gets
  <2>1. list' \in Seq(Range(Letters)) /\ Len(list') = Len(list) + 1 /\ Len(list) \in Nat
        /\ list'[Len(list) + 1] = Letters[n + 1] /\ \A k \in 1 .. Len(list) : list'[k] = list[k]
    BY <1>1 DEF TypeOK
  <2>2. TypeOK'
    BY <1>1, <2>1 DEF TypeOK
  <2>3. OwnsFrom(1)'
    <3>1. ASSUME NEW x, x \in heap' PROVE \E k \in 1 .. Len(list') : list'[k] = x
      <4>1. CASE x = Letters[n + 1]
        BY <2>1, <4>1
      <4>2. CASE x \in heap
        BY <1>0, <2>1, <4>2 DEF OwnsFrom
      <4> QED
        BY <3>1, <4>1, <4>2
    <3>2. ASSUME NEW k \in 1 .. Len(list') PROVE list'[k] \in heap'
      <4>1. CASE k = Len(list) + 1
        BY <2>1, <4>1
      <4>2. CASE k \in 1 .. Len(list)
        BY <1>0, <2>1, <4>2 DEF OwnsFrom
      <4> QED
        BY <2>1, <4>1, <4>2
    <3> QED
      BY <3>1, <3>2 DEF OwnsFrom
  <2>4. \A k \in 1 .. Len(list) : list[k] # Letters[n + 1]
    BY <1>0, <1>1 DEF Distinct
  <2>5. Distinct'
    <3>1. \A k \in 1 .. Len(list') : k \in 1 .. Len(list) \/ k = Len(list) + 1
      BY <2>1
    <3>2. ASSUME NEW k \in 1 .. Len(list') PROVE \E m \in 1 .. n' : list'[k] = Letters[m]
      BY <1>0, <1>1, <2>1, <3>1 DEF Distinct
    <3>3. ASSUME NEW k \in 1 .. Len(list'), NEW l \in 1 .. Len(list'), list'[k] = list'[l] PROVE k = l
      BY <1>0, <2>1, <2>4, <3>1, <3>3 DEF Distinct
    <3> QED
      BY <3>2, <3>3 DEF Distinct
  <2> QED
    BY <1>0, <2>2, <2>3, <2>5 DEF PlaceInv, HeapInv, ListInv, NumInv, CacheInv, ModuleOopsHasCause, Loaded
<1>3. CASE Denied /\ UNCHANGED list
  <2> USE <1>3 DEF Denied
  <2>1. denied' \in BOOLEAN
    OBVIOUS
  <2>2. TypeOK'
    BY <1>1, <2>1 DEF TypeOK
  <2>3. OwnsFrom(1)' /\ Distinct'
    BY <1>0, <1>1 DEF OwnsFrom, Distinct
  <2> QED
    BY <1>0, <2>2, <2>3 DEF PlaceInv, HeapInv, ListInv, NumInv, CacheInv, ModuleOopsHasCause, Loaded
<1> QED
  BY <1>2, <1>3

LEMMA ShowlistStep ==
    ASSUME MIInv, showlist PROVE MIInv'
<1> USE DEF MIInv, showlist, InitReturns, nodes
<1>0. life = "init" /\ mod = "list" /\ ~corrupt /\ curr = 1 /\ OwnsFrom(1) /\ Distinct
  BY DEF PlaceInv, ListInv, InitPlaces
<1>1. TypeOK'
  BY DEF TypeOK
<1>2. OwnsFrom(1)' /\ Distinct'
  BY <1>0 DEF OwnsFrom, Distinct
<1> QED
  BY <1>0, <1>1, <1>2 DEF PlaceInv, HeapInv, ListInv, NumInv, CacheInv, ModuleOopsHasCause, Loaded, Nothing, InitPlaces, ExitPlaces

\* What the steps of list_exit leave alone, whatever they do to the heap.
LEMMA ListExitFrame ==
    ASSUME MIInv, mod = "list", life = "exit", UNCHANGED <<mod, n, list, num, stepsz, denied>>,
           curr' \in 0 .. 5, corrupt' \in BOOLEAN, heap' \subseteq heap,
           \/ life' = "exit" /\ at' \in {"freelist", "next"}
           \/ life' \in {"out", "oops"} /\ at' = Nothing
    PROVE  TypeOK' /\ PlaceInv' /\ NumInv' /\ CacheInv' /\ Distinct'
<1>1. TypeOK'
  BY DEF MIInv, TypeOK
<1>2. PlaceInv' /\ NumInv' /\ CacheInv'
  BY DEF MIInv, PlaceInv, NumInv, CacheInv, Nothing, InitPlaces, ExitPlaces
<1>3. Distinct'
  BY DEF MIInv, ListInv, Distinct
<1> QED
  BY <1>1, <1>2, <1>3

LEMMA FreelistStep ==
    ASSUME MIInv, freelist PROVE MIInv'
<1> USE DEF freelist, ExitReturns, Goto, Frees, Oops, nodes
<1>0. /\ life = "exit" /\ mod = "list" /\ (list # <<>> => curr \in 0 .. Len(list))
      /\ (~corrupt => curr >= 1 /\ OwnsFrom(curr)) /\ (corrupt => list # <<>>)
      /\ list \in Seq(Range(Letters)) /\ curr \in 0 .. 5
  BY DEF MIInv, TypeOK, PlaceInv, ListInv, ExitPlaces
<1>1. TypeOK' /\ PlaceInv' /\ NumInv' /\ CacheInv' /\ Distinct'
  <2>1. corrupt' \in BOOLEAN /\ curr' \in 0 .. 5
    BY DEF MIInv, TypeOK
  <2>2. heap' \subseteq heap /\ UNCHANGED <<mod, n, list, num, stepsz, denied>>
    OBVIOUS
  <2> QED
    BY <1>0, <2>1, <2>2, ListExitFrame
<1>2. CASE list = <<>> /\ ExitReturns /\ UNCHANGED <<heap, denied>>
  <2>1. heap = {}
    BY <1>0, <1>2 DEF OwnsFrom
  <2> QED
    BY <1>0, <1>1, <1>2, <2>1 DEF MIInv, HeapInv, ListInv, ModuleOopsHasCause, Loaded, Nothing
<1>3. CASE list # <<>> /\ curr > 0 /\ Frees(list[curr]) /\ Goto("next")
  <2>1. ASSUME ~corrupt PROVE OwnsFrom(curr + 1)'
    <3>1. curr \in 1 .. Len(list) /\ Len(list) \in Nat
      BY <1>0, <1>3
    <3>2. \A k \in curr + 1 .. Len(list) : list[k] # list[curr]
      BY <3>1 DEF MIInv, ListInv, Distinct
    <3> QED
      BY <1>0, <1>3, <2>1, <3>1, <3>2 DEF OwnsFrom
  <2> QED
    BY <1>0, <1>1, <1>3, <2>1 DEF MIInv, HeapInv, ListInv, ModuleOopsHasCause, Loaded
<1>4. CASE list # <<>> /\ curr = 0 /\ Goto("next") /\ UNCHANGED <<heap, denied>>
  BY <1>0, <1>1, <1>4 DEF MIInv, HeapInv, ListInv, ModuleOopsHasCause, Loaded
<1>5. CASE list # <<>> /\ ~(curr > 0 /\ list[curr] \in heap) /\ Oops /\ UNCHANGED <<heap, denied>>
  <2>1. corrupt
    BY <1>0, <1>5 DEF OwnsFrom
  <2> QED
    BY <1>0, <1>1, <1>5, <2>1 DEF MIInv, HeapInv, ListInv, ModuleOopsHasCause, Loaded, Nothing
<1> QED
  BY <1>2, <1>3, <1>4, <1>5

LEMMA NextIntactStep ==
    ASSUME MIInv, NextIntact PROVE MIInv'
<1> USE DEF NextIntact, ExitReturns, Goto
<1>0. /\ life = "exit" /\ mod = "list" /\ list # <<>> /\ curr \in 1 .. Len(list)
      /\ (~corrupt => OwnsFrom(curr + 1)) /\ list \in Seq(Range(Letters)) /\ Len(list) <= 4
  BY DEF MIInv, TypeOK, PlaceInv, ListInv, ExitPlaces
<1>1. TypeOK' /\ PlaceInv' /\ NumInv' /\ CacheInv' /\ Distinct'
  <2>1. corrupt' \in BOOLEAN
    BY DEF MIInv, TypeOK
  <2>2. curr' \in 0 .. 5
    BY <1>0
  <2> QED
    BY <1>0, <2>1, <2>2, ListExitFrame
<1>2. CASE curr = Len(list) /\ ExitReturns /\ UNCHANGED curr
  <2>1. ~corrupt => heap = {}
    BY <1>0, <1>2 DEF OwnsFrom
  <2> QED
    BY <1>0, <1>1, <1>2, <2>1 DEF MIInv, HeapInv, ListInv, ModuleOopsHasCause, Loaded, Nothing
<1>3. CASE curr < Len(list) /\ curr' = curr + 1 /\ Goto("freelist")
  <2>1. ~corrupt => OwnsFrom(curr)'
    BY <1>0, <1>3 DEF OwnsFrom
  <2>2. curr' \in 1 .. Len(list)
    BY <1>0, <1>3
  <2> QED
    BY <1>0, <1>1, <1>3, <2>1, <2>2 DEF MIInv, HeapInv, ListInv, ModuleOopsHasCause, Loaded
<1> QED
  BY <1>2, <1>3

LEMMA NextOverwrittenStep ==
    ASSUME MIInv, NextOverwritten PROVE MIInv'
<1> USE DEF NextOverwritten, ExitReturns, Goto, Oops
<1>0. /\ life = "exit" /\ mod = "list" /\ list # <<>> /\ curr \in 0 .. Len(list)
      /\ list \in Seq(Range(Letters)) /\ Len(list) <= 4
  BY DEF MIInv, TypeOK, PlaceInv, ListInv, ExitPlaces
<1>1. TypeOK' /\ PlaceInv' /\ NumInv' /\ CacheInv' /\ Distinct'
  <2>1. corrupt' \in BOOLEAN
    OBVIOUS
  <2>2. curr' \in 0 .. 5
    BY <1>0
  <2> QED
    BY <1>0, <2>1, <2>2, ListExitFrame
<1>2. corrupt' /\ curr' \in 0 .. Len(list) /\ life' # "init" /\ life' # "live" /\ at' # "next"
  BY <1>0 DEF Nothing
<1> QED
  BY <1>0, <1>1, <1>2 DEF MIInv, HeapInv, ListInv, ModuleOopsHasCause, Loaded, Nothing

LEMMA StutterStep ==
    ASSUME MIInv, UNCHANGED vars PROVE MIInv'
<1>1. TypeOK' /\ ListInv'
  BY DEF MIInv, vars, nodes, TypeOK, ListInv, Distinct, OwnsFrom
<1> QED
  BY <1>1 DEF MIInv, vars, nodes, PlaceInv, HeapInv, NumInv, CacheInv, ModuleOopsHasCause, Loaded

LEMMA SlabStep ==
    ASSUME MIInv, slabsee_init \/ slabsee_exit PROVE MIInv'
<1> USE DEF MIInv, InitReturns, ExitReturns, Oops, Goto, Gets, Denied, Frees, nodes
<1>0. mod = "slab_custom" /\ UNCHANGED <<mod, nodes, num, stepsz>>
  BY DEF PlaceInv, slabsee_init, slabsee_exit, init_my_cache, mycache_use, kmem_cache_free
<1>1. heap' \subseteq heap \cup {"cache", "object"} /\ denied' \in BOOLEAN
  BY DEF slabsee_init, slabsee_exit, init_my_cache, mycache_use, kmem_cache_free, TypeOK
<1>2. life' \in {"out", "init", "live", "exit", "oops"}
  BY DEF slabsee_init, slabsee_exit, init_my_cache, mycache_use, kmem_cache_free, TypeOK
<1>3. TypeOK'
  BY <1>0, <1>1, <1>2, LettersFacts DEF TypeOK
<1>4. ListInv' /\ NumInv'
  BY <1>0 DEF ListInv, Distinct, OwnsFrom, NumInv, PlaceInv, slabsee_init, slabsee_exit, init_my_cache, mycache_use,
              kmem_cache_free, Nothing
<1>5. PlaceInv' /\ HeapInv' /\ ModuleOopsHasCause'
  <2>1. CASE init_my_cache
    BY <1>0, <2>1 DEF init_my_cache, PlaceInv, HeapInv, Loaded, ModuleOopsHasCause, InitPlaces, ExitPlaces, Nothing
  <2>2. CASE mycache_use
    <3>1. "cache" \notin heap => denied
      BY <2>2 DEF mycache_use, CacheInv
    <3> QED
      BY <1>0, <2>2, <3>1 DEF mycache_use, PlaceInv, HeapInv, Loaded, ModuleOopsHasCause, InitPlaces, ExitPlaces, Nothing
  <2>3. CASE kmem_cache_free
    BY <1>0, <2>3 DEF kmem_cache_free, PlaceInv, HeapInv, Loaded, ModuleOopsHasCause, InitPlaces, ExitPlaces, Nothing
  <2>4. CASE slabsee_exit
    BY <1>0, <2>4 DEF slabsee_exit, PlaceInv, HeapInv, Loaded, ModuleOopsHasCause, InitPlaces, ExitPlaces, Nothing
  <2> QED
    BY <2>1, <2>2, <2>3, <2>4 DEF slabsee_init
<1>6. CacheInv'
  BY <1>0, <1>1 DEF CacheInv, slabsee_init, slabsee_exit, init_my_cache, mycache_use, kmem_cache_free, Nothing
<1> QED
  BY <1>3, <1>4, <1>5, <1>6

LEMMA VmallcStep ==
    ASSUME MIInv, hello_init \/ hello_exit PROVE MIInv'
<1> USE DEF MIInv, InitReturns, ExitReturns, Gets, Denied, Frees, nodes
<1>0. mod = "vmallc" /\ UNCHANGED <<mod, nodes, num, stepsz>>
  BY DEF PlaceInv, hello_init, hello_exit
<1>1. heap' \subseteq heap \cup {"vp"} /\ denied' \in BOOLEAN
  BY DEF hello_init, hello_exit, TypeOK
<1>3. TypeOK'
  BY <1>0, <1>1, LettersFacts DEF TypeOK, hello_init, hello_exit
<1>4. ListInv' /\ NumInv' /\ CacheInv'
  BY <1>0 DEF ListInv, Distinct, OwnsFrom, NumInv, CacheInv, hello_init, hello_exit, Nothing
<1>5. PlaceInv' /\ HeapInv' /\ ModuleOopsHasCause'
  BY <1>0 DEF hello_init, hello_exit, PlaceInv, HeapInv, Loaded, ModuleOopsHasCause, InitPlaces, ExitPlaces, Nothing
<1> QED
  BY <1>3, <1>4, <1>5

LEMMA SizeTestStep ==
    ASSUME MIInv, kmt_init \/ ksz_init PROVE MIInv'
<1> USE ModuleAssumption DEF MIInv, InitReturns, Oops, Goto, Gets, Denied, Frees, nodes
<1>0. /\ mod \in {"kmalloc_test", "ksz_test"} /\ life = "init" /\ num \in Int /\ stepsz \in Int
      /\ UNCHANGED <<mod, nodes, stepsz>>
  BY DEF PlaceInv, TypeOK, InitPlaces, kmt_init, ksz_init, kmalloc, kmalloc_round, ksz_round
<1>1. CASE kmalloc
  <2>1. heap' \subseteq heap \cup {"p"} /\ denied' \in BOOLEAN
    BY <1>1 DEF kmalloc, TypeOK
  <2>2. TypeOK'
    BY <1>0, <1>1, <2>1, LettersFacts DEF TypeOK, kmalloc
  <2>3. ListInv' /\ NumInv' /\ CacheInv'
    BY <1>0, <1>1 DEF ListInv, Distinct, OwnsFrom, NumInv, CacheInv, kmalloc, Nothing
  <2>4. PlaceInv' /\ HeapInv' /\ ModuleOopsHasCause'
    BY <1>0, <1>1 DEF kmalloc, PlaceInv, HeapInv, Loaded, ModuleOopsHasCause, InitPlaces, ExitPlaces, Nothing
  <2> QED
    BY <2>2, <2>3, <2>4
<1>2. CASE kmalloc_round
  <2>1. TypeOK'
    BY <1>0, <1>2 DEF TypeOK, kmalloc_round
  <2>2. ListInv' /\ NumInv' /\ CacheInv'
    BY <1>0, <1>2 DEF ListInv, Distinct, OwnsFrom, NumInv, CacheInv, kmalloc_round
  <2>3. PlaceInv' /\ HeapInv' /\ ModuleOopsHasCause'
    BY <1>0, <1>2 DEF kmalloc_round, PlaceInv, HeapInv, Loaded, ModuleOopsHasCause, InitPlaces, ExitPlaces, Nothing
  <2> QED
    BY <2>1, <2>2, <2>3
<1>3. CASE ksz_round /\ num = 0
  <2>0. Oops /\ UNCHANGED <<heap, num, denied>> /\ mod = "ksz_test"
    BY <1>3 DEF ksz_round
  <2>1. stepsz < 0 /\ FirstNum % (-stepsz) = 0
    <3>1. stepsz < 0 /\ (FirstNum - num) % (-stepsz) = 0
      BY <1>0, <1>3, <2>0 DEF NumInv
    <3>2. FirstNum - num = FirstNum
      BY <1>3
    <3> QED
      BY <3>1, <3>2
  <2>2. TypeOK' /\ ListInv' /\ NumInv' /\ CacheInv'
    BY <1>0, <2>0 DEF TypeOK, ListInv, Distinct, OwnsFrom, NumInv, CacheInv, Nothing
  <2>3. PlaceInv' /\ HeapInv'
    BY <1>0, <2>0 DEF PlaceInv, HeapInv, Loaded, InitPlaces, ExitPlaces, Nothing
  <2>4. ModuleOopsHasCause'
    BY <1>0, <2>0, <2>1 DEF ModuleOopsHasCause
  <2> QED
    BY <2>2, <2>3, <2>4
<1>4. CASE ksz_round /\ num # 0
  <2>0. /\ mod = "ksz_test" /\ heap' = heap \ {"p"} /\ num' = num + stepsz
        /\ at' = "kmalloc" /\ at = "round" /\ UNCHANGED <<life, denied>>
    BY <1>4 DEF ksz_round
  <2>1. TypeOK' /\ ListInv' /\ CacheInv'
    BY <1>0, <2>0 DEF TypeOK, ListInv, Distinct, OwnsFrom, CacheInv
  <2>2. PlaceInv' /\ HeapInv' /\ ModuleOopsHasCause'
    BY <1>0, <2>0 DEF PlaceInv, HeapInv, Loaded, ModuleOopsHasCause, InitPlaces, ExitPlaces, Nothing
  <2>3. stepsz >= 0 => num' > 0
    BY <1>0, <2>0 DEF NumInv
  <2>4. ASSUME stepsz < 0 PROVE (FirstNum - num') % (-stepsz) = 0
    <3>1. -stepsz \in Nat \ {0} /\ FirstNum - num \in Int /\ (FirstNum - num) % (-stepsz) = 0
      BY <1>0, <2>0, <2>4 DEF NumInv
    <3>2. FirstNum - num' = (FirstNum - num) + (-stepsz)
      BY <1>0, <2>0
    <3> QED
      BY <3>1, <3>2, StepDown
  <2>5. NumInv'
    BY <1>0, <2>0, <2>3, <2>4 DEF NumInv
  <2> QED
    BY <2>1, <2>2, <2>5
<1> QED
  BY <1>1, <1>2, <1>3, <1>4 DEF kmt_init, ksz_init

LEMMA ModuleNext == MIInv /\ [Next]_vars => MIInv'
<1> SUFFICES ASSUME MIInv, [Next]_vars PROVE MIInv'
  OBVIOUS
<1> QED
  BY InsmodStep, RmmodStep, AddStep, ShowlistStep, FreelistStep, NextIntactStep, NextOverwrittenStep,
     StutterStep, SlabStep, VmallcStep, SizeTestStep
     DEF Next, ModuleStep, list_init, list_exit, list_for_each_entry, Stays

-----------------------------------------------------------------------------
(* The task list driver and rdtasks *)

LEMMA DriverStep ==
    ASSUME MIInv, Driver PROVE MIInv'
<1> USE DEF MIInv, InitReturns, ExitReturns, Gets, Denied, Frees, nodes
<1>0. mod = "foreach" /\ UNCHANGED <<mod, nodes, num, stepsz>>
  BY DEF PlaceInv, Driver, taskinfo_init_module, taskinfo_cleanup_module
<1>1. heap' \subseteq heap \cup {"major"} /\ denied' \in BOOLEAN
  BY DEF Driver, taskinfo_init_module, taskinfo_cleanup_module, TypeOK
<1>2. TypeOK'
  BY <1>0, <1>1, LettersFacts DEF TypeOK, Driver, taskinfo_init_module, taskinfo_cleanup_module
<1>3. ListInv' /\ NumInv' /\ CacheInv'
  BY <1>0 DEF ListInv, Distinct, OwnsFrom, NumInv, CacheInv, Driver, taskinfo_init_module, taskinfo_cleanup_module, Nothing
<1>4. PlaceInv' /\ HeapInv' /\ ModuleOopsHasCause'
  BY <1>0 DEF Driver, taskinfo_init_module, taskinfo_cleanup_module, PlaceInv, HeapInv, Loaded, ModuleOopsHasCause,
              InitPlaces, ExitPlaces, Nothing
<1> QED
  BY <1>2, <1>3, <1>4

(***************************************************************************)
(* From the read to the printing the buffer holds what fits of the text,   *)
(* and a '\0' once the device is closed.                                   *)
(***************************************************************************)
Filled == [k \in 1 .. count |-> IF k <= numread THEN k ELSE Junk]
Terminated == [k \in 1 .. count |-> IF k = count THEN 0 ELSE IF k <= numread THEN k ELSE Junk]

BufferInv ==
    /\ count \in Nat /\ numread \in Nat
    /\ upc \in {"read", "taskinfo_read"} => ubuf = [k \in 1 .. count |-> Junk]
    /\ upc = "print" => ubuf = Filled /\ (wild <=> numread > count)
    /\ upc = "printf" => ubuf = Terminated /\ (wild <=> numread > count \/ count = 0)

UserOops == upc = "oops" => stale

IInv == MIInv /\ BufferInv /\ UserOops /\ ListPrinted

\* While the module comes and goes rdtasks keeps its place; its device can only
\* become stale.
LEMMA ModuleKeepsUser ==
    ASSUME IInv, (Next /\ UNCHANGED uvars) \/ Driver \/ UNCHANGED allvars PROVE IInv'
<1> USE DEF IInv
<1>1. MIInv'
  BY ModuleNext, DriverStep DEF allvars
<1>2. UNCHANGED <<upc, count, numread, ubuf, wild, printed>>
  BY DEF uvars, allvars, Driver, taskinfo_init_module, taskinfo_cleanup_module
<1>3. stale => stale'
  <2>1. CASE taskinfo_cleanup_module
    BY <2>1, Zenon DEF taskinfo_cleanup_module
  <2>2. CASE UNCHANGED stale
    BY <2>2, Zenon
  <2> QED
    BY <2>1, <2>2 DEF uvars, allvars, Driver, taskinfo_init_module
<1>4. BufferInv' /\ ListPrinted'
  BY <1>2 DEF BufferInv, Filled, Terminated, ListPrinted
<1> QED
  BY <1>1, <1>2, <1>3, <1>4 DEF UserOops

LEMMA UserStep ==
    ASSUME IInv, rdtasks PROVE IInv'
<1> USE DriverAssumption DEF IInv, UserGoto, CallModule, UserGivesUp
<1>1. UNCHANGED vars
  BY DEF rdtasks, open, taskinfo_open, malloc, read, taskinfo_read, close, PrintTasks, Again
<1>2. MIInv'
  BY <1>1, ModuleNext
<1>3. UserOops'
  BY DEF UserOops, rdtasks, open, taskinfo_open, malloc, read, taskinfo_read, close, PrintTasks, Again
<1>4. BufferInv' /\ ListPrinted'
  <2>1. CASE open
    BY <2>1 DEF open, BufferInv, ListPrinted
  <2>2. CASE taskinfo_open
    BY <2>2 DEF taskinfo_open, BufferInv, ListPrinted
  <2>3. CASE malloc
    BY <2>3 DEF malloc, BufferInv, ListPrinted
  <2>4. CASE read
    BY <2>4 DEF read, BufferInv, ListPrinted
  <2>5. CASE taskinfo_read
    <3>1. upc = "taskinfo_read" /\ count' = count /\ upc' \in {"print", "exit1", "oops"}
      BY <2>5 DEF taskinfo_read
    <3>2. CASE upc' = "print"
      <4>1. numread' \in 1 .. MaxText /\ wild' = (numread' > count)
        BY <2>5, <3>2, Zenon DEF taskinfo_read
      <4>2. numread' \in Nat
        BY <4>1
      <4>3. wild' <=> numread' > count
        BY <4>1, Zenon
      <4>4. ubuf' = [k \in 1 .. count |-> IF k <= numread' THEN k ELSE Junk]
        BY <2>5, <3>1, <3>2 DEF taskinfo_read, BufferInv
      <4> QED
        BY <3>1, <3>2, <4>2, <4>3, <4>4 DEF BufferInv, ListPrinted, Filled
    <3>3. CASE upc' # "print"
      BY <2>5, <3>1, <3>3 DEF taskinfo_read, BufferInv, ListPrinted
    <3> QED
      BY <3>2, <3>3
  <2>6. CASE close
    <3>1. /\ upc = "print" /\ upc' \in {"printf", "oops"} /\ UNCHANGED <<count, numread>>
          /\ ubuf' = [k \in 1 .. count |-> IF k = count THEN 0 ELSE ubuf[k]]
      BY <2>6 DEF close
    <3>2. wild' = (wild \/ count = 0)
      BY <2>6 DEF close
    <3>3. ubuf' = Terminated'
      BY <3>1 DEF BufferInv, Filled, Terminated
    <3>4. wild' <=> numread > count \/ count = 0
      BY <3>1, <3>2 DEF BufferInv
    <3> QED
      BY <3>1, <3>3, <3>4 DEF BufferInv, ListPrinted
  <2>7. CASE PrintTasks
    <3>1. /\ upc = "printf" /\ upc' = "exit0" /\ UNCHANGED <<count, numread, ubuf, wild>>
      BY <2>7 DEF PrintTasks
    <3>2. BufferInv' /\ (wild' <=> numread' > count' \/ count' = 0)
      BY <3>1 DEF BufferInv
    <3>3. CASE count = 0
      BY <3>1, <3>2, <3>3 DEF ListPrinted
    <3>4. CASE count # 0
      <4>1. PICK e \in 1 .. count : ubuf[e] \in {0, Junk} /\ printed' = SubSeq(ubuf, 1, e - 1)
        BY <2>7, <3>4 DEF PrintTasks
      <4>2. ubuf = Terminated
        BY <3>1 DEF BufferInv
      <4>3. count \in Nat /\ numread \in Nat /\ ubuf \in Seq(Int) /\ Len(ubuf) = count
        BY <4>2 DEF BufferInv, Terminated, Junk
      <4>4. e = count \/ e > numread
        BY <4>1, <4>2, <4>3 DEF Terminated, Junk
      <4>5. Len(printed') = e - 1 /\ \A k \in 1 .. e - 1 : printed'[k] = ubuf[k]
        BY <4>1, <4>3
      <4>6. \A k \in 1 .. numread : k < count => k <= Len(printed') /\ printed'[k] = k
        <5>1. \A k \in 1 .. numread : k < count => k \in 1 .. e - 1
          BY <4>3, <4>4
        <5>2. \A k \in 1 .. e - 1 : k < count /\ (k <= numread => ubuf[k] = k)
          BY <4>2, <4>3 DEF Terminated
        <5> QED
          BY <4>5, <5>1, <5>2
      <4> QED
        BY <3>1, <3>2, <4>6 DEF ListPrinted
    <3> QED
      BY <3>3, <3>4
  <2>8. CASE Again
    BY <2>8 DEF Again, BufferInv, ListPrinted
  <2> QED
    BY <2>1, <2>2, <2>3, <2>4, <2>5, <2>6, <2>7, <2>8 DEF rdtasks
<1> QED
  BY <1>2, <1>3, <1>4

-----------------------------------------------------------------------------
LEMMA InitIInv == TDInit => IInv
<1> SUFFICES ASSUME TDInit PROVE IInv
  OBVIOUS
<1> USE DEF TDInit, Init
<1>1. TypeOK
  <2>1. denied \in BOOLEAN /\ corrupt \in BOOLEAN
    OBVIOUS
  <2>2. list \in Seq(Range(Letters)) /\ Len(list) = 0
    OBVIOUS
  <2> QED
    BY <2>1, <2>2 DEF TypeOK
<1>2. PlaceInv /\ HeapInv /\ ListInv /\ NumInv /\ CacheInv /\ ModuleOopsHasCause
  BY DEF PlaceInv, HeapInv, ListInv, Distinct, NumInv, CacheInv, ModuleOopsHasCause, Loaded, InitPlaces, ExitPlaces, Nothing
<1>3. BufferInv /\ UserOops /\ ListPrinted
  BY DEF BufferInv, UserOops, ListPrinted
<1> QED
  BY <1>1, <1>2, <1>3 DEF IInv, MIInv

LEMMA NextIInv == IInv /\ [TDNext]_allvars => IInv'
  BY ModuleKeepsUser, UserStep DEF TDNext

LEMMA Invariance == TDSpec => []IInv
  BY InitIInv, NextIInv, PTL DEF TDSpec

\* The variables of the modules and of the loader have their types.
THEOREM TypeCorrect == TDSpec => []TypeOK
<1>1. IInv => TypeOK
  BY DEF IInv, MIInv
<1> QED
  BY <1>1, Invariance, PTL

\* For every module, whichever allocations fail: once it is unloaded, or its
\* init function has given up, it owns nothing (list_exit, slabsee_exit,
\* hello_exit, taskinfo_cleanup_module and the error paths of the init
\* functions), unless freelist has gone on through an overwritten pointer.
THEOREM UnloadedOwnsNothing == TDSpec => []NothingLeftBehind
<1>1. IInv => NothingLeftBehind
  BY DEF IInv, MIInv, HeapInv, NothingLeftBehind
<1> QED
  BY <1>1, Invariance, PTL

\* Whichever calls of add2tail had no memory, freelist (list.c:105-107) frees
\* each node of the list once and nothing else, as long as the pointers it reads
\* from freed nodes are the ones that were there.
THEOREM NodesFreedOnce == TDSpec => []ListFreedOnce
<1>1. IInv => ListFreedOnce
  <2> SUFFICES ASSUME IInv, at = "freelist", list # <<>>, ~corrupt PROVE list[curr] \in heap
    BY DEF ListFreedOnce
  <2>1. curr \in 1 .. Len(list) /\ OwnsFrom(curr) /\ Len(list) \in Nat
    BY DEF IInv, MIInv, TypeOK, ListInv
  <2> QED
    BY <2>1 DEF OwnsFrom
<1> QED
  BY <1>1, Invariance, PTL

\* For every step of ksz_test, every limit of kmalloc, and whatever freelist
\* reads from freed memory: the ways to an oops are an overwritten pointer in a
\* list that is not empty, an allocation slab_custom does not check, a step of
\* ksz_test that divides FirstNum, and, for rdtasks, a driver that was unloaded
\* between the beginning of its open and the end of its close.
THEOREM EveryOopsHasACause == TDSpec => []OopsHasCause
<1>1. IInv => OopsHasCause
  BY DEF IInv, MIInv, UserOops, OopsHasCause
<1> QED
  BY <1>1, Invariance, PTL

\* For every length of the buffer and of the text: what rdtasks prints begins
\* with the text, and it leaves the buffer only if the text was longer than it
\* or the length was 0.
THEOREM TasksPrinted == TDSpec => []ListPrinted
<1>1. IInv => ListPrinted
  BY DEF IInv
<1> QED
  BY <1>1, Invariance, PTL
=============================================================================
