# TLA+ models of L2_kernel_trg

This directory holds TLA+ models of the kernel and user-space code of the
L2_kernel_trg repository, the TLC configurations that check them on small
instances, and TLAPS proofs of the properties that matter most.  `PROJECT.json`
lists the components, the runs, the map from definitions to source lines, the
hazards and the findings.

## The system

The repository is the code of a Linux kernel course: small kernel modules, the
user programs that exercise them, and shell scripts that look at a running
kernel.  The parts do not form one program; each is a system of its own, and
they meet only through the kernel.

| Part | Source | State it keeps | Operations | What is hard about it |
|---|---|---|---|---|
| RCU book list | `ksync/rcu_example/list_rcu_example.c` | the `books` list, `books_lock`, nodes waiting for a grace period | add, borrow, return, delete, is_borrowed, print, reclaim callback | walkers and updaters run concurrently; memory is reclaimed after grace periods; lookups outside the lock |
| its module | same | loaded or not, position in the test script | init, exit | callbacks outlive the module's text |
| counting | `ksync/counting/*.c` | a shared counter, one thread per increment | create, increment, join, print | the increment is a load and a store |
| restartable I/O | `mm/vm_usermode/mmap/*/restart_lib.h` | the position in a stream, bytes moved so far | r_read, r_write, readblock, readline, copyfile, waitfdtimed, ... | EINTR, short counts, errors half way, a deadline across retries |
| file copy programs | `mm/vm_usermode/mmap/fileio_mmap/*.c`, `mmap_simple.c` | two files, their mappings | open, extend, map, copy, unmap | a target that already exists; every step can fail |
| linked list module | `list/list.c` | a kernel list | add, show, find, free | freeing while iterating; kmalloc failing half way |
| vCPU check timer | `vcpu_check/vcpu_check.c` | a self-rearming timer, statistics | init, timer callback, exit | the callback races the unload |
| task list driver | `foreach/prcs_show/*.c`, `foreach/thrd_show/*.c` | a kernel buffer, the task list | read, open, init, cleanup | the buffer is bounded, the task list is not; a walk under RCU |
| task details | `taskdtl/**` | a task_struct found by pid | display | the task can exit at any time |
| memory modules | `mm/slab_custom`, `mm/vmallc`, `mm/vm_show_kernel_seg`, `mm/allocsize_tests` | allocations made at init | init, exit | every allocation can fail; unload must free exactly what was allocated |
| user-mode memory demos | `mm/vm_usermode/**`, `mm/oom_try` | the heap of a process | allocate, touch, free | demand paging and the OOM killer decide what happens |
| scripts | `sched/**`, `kernel_build`, `mm/phymap_iomem`, `mm/vm_usermode/swap_stuff` ... | settings of the running kernel | switch swap, tracing or a cgroup on and off | values read once and used after they changed; clean-up on abort |
| shared headers | `convenient.h`, `libpk.h` | none | macros, `sleepsafe` | a sleep that signals interrupt |

The parts interact with the kernel, and through it with each other, in four
ways: system calls (user programs), shared kernel lists and locks (the walking
modules, the book list), callbacks that run later in another context
(`call_rcu`, timers), and module load and unload.

### What makes each part correct

* **Book list**: no task touches a freed `struct book`; every unlinked book is
  freed exactly once and in the end; the list's pointers agree; a walk never
  misses a book that is on the list throughout; each successful call takes
  effect at one instant.
* **Its module**: each test leaves the list as it found it, and what was taken
  off the list is freed as long as the module is there to do it.
* **Counting**: the printed count is final and never more than the number of
  threads; lost increments are allowed, that is the point of the program.
* **restart_lib**: under `EINTR`, short counts and errors no byte is lost,
  repeated or reordered; buffers are not overrun; the value returned is what
  happened; a timed read neither gives up early nor, when interrupted, late.
* **Walking modules**: no freed `task_struct` is touched, references, locks and
  buffers are given back, no task is missed, walks end, the timer is gone before
  the module is.
* **File copies**: the count that `reg_fileio` prints tells how much was copied;
  wherever a copy stops, each byte of the target is the source's or what it was; a
  program dies at a mapping only if the size it took was stale or a write it does
  not check has failed; a dump shows the bytes asked for, while its labels fit.
* **Modules that allocate**: a module that is not loaded owns nothing, whichever
  allocations failed; each node of `list.c` is freed once; an oops has one of the
  known causes; loading ends.
* **Task list device**: a reader comes to harm only if the module was unloaded
  under it; what `rdtasks` prints is the list.
* **Scripts** (not modelled): one that changes a setting restores it.

## Modules

| Module | Models | Proofs | Instances for TLC |
|---|---|---|---|
| `BookRCU` | the six functions of `list_rcu_example.c` and the reclaim callback | `BookRCU_proofs` | `MCBookRCU` |
| `BookShelf` | abstract specification: a sequence of books, each call one step | | `MCBookRefinement` |
| `ListRcuExample` | `list_rcu_example_init`, `_exit`, `test_example`; composes `BookRCU` | `ListRcuExample_proofs` | `MCListRcuExample` |
| `Counting` | `counting_mt_nolocks_5.1.c` | `Counting_proofs` | `MCCounting` |
| `RestartIO` | `r_read`, `r_write`, `readblock`, `readline`, `readwrite`, `readwriteblock`, `copyfile` | `RestartIO_proofs` | `MCFileCopy` |
| `FileCopy` | `reg_fileio`, `mmap_fileio`, `mmap_simple` with `hex_dump`; composes `RestartIO` | `FileCopy_proofs` | `MCFileCopy` |
| `RestartTime` | `gettimeout`, `add2currenttime`, `waitfdtimed`, `readtimed` | `RestartTime_proofs` | `MCRestartTime` |
| `TaskWalk` | `taskinfo_read`, `showthrds`, `ding` and its timer, both `disp_task_details` | `TaskWalk_proofs` | `MCTaskWalk` |
| `ModuleLife` | init and exit of `list.c`, `slab_custom`, `vmallc`, `kmalloc_test`, `ksz_test` | `TaskDriver_proofs` | `MCTaskDriver` |
| `TaskDriver` | the life of the device of `foreach.c`, and `rdtasks`; extends `ModuleLife` | `TaskDriver_proofs` | `MCTaskDriver` |

In every module `pc` (or `mpc`, `tpc`) says where a context is in its function;
a step is what happens between two accesses to shared state, so that every
interleaving of such accesses is a behaviour.  Memory is sequentially
consistent: the barriers of `rcu_assign_pointer`, `rcu_dereference` and the
locks are taken to do their work.  Definitions keep the names of the functions
they model; definitions whose comment starts with *Mutant* are plausible
mistakes that the properties must catch, and no specification uses them.

### BookRCU

The list is modelled by `nxt` and `prv`, the `next` and `prev` pointers of each
node and of the head, so that a walker that stands on a node that has just been
replaced really follows the pointer that is left there.  `nst` is the life of an
address (`free`, `new`, `linked`, `gone`); `kzalloc` hands out any free address
and may fail at any call.  RCU is `readers`, the tasks between `rcu_read_lock`
and `rcu_read_unlock`, and `gp[n]`, those of them the grace period of node `n`
still waits for.  `book_reclaim_callback` runs for a node of `cbs` when its
`gp` is empty, `synchronize_rcu` returns under the same condition.  `holders`
and `absent` are auxiliary: who may still point to a node, and whether the book
a task looks for was ever off the list during its walk.

`SingleUpdater` is the rule under which the list is safe: no task that keeps a
pointer past its own protection (`borrow_book`, `return_book`,
`is_borrowed_book`) runs while *another* task may unlink books.  It is what
the module's own script obeys (one task), and it is as weak as the code allows:
the two violation runs break it in the two possible ways.  Tasks that only
add, delete and print need no rule.

`ListRcuExample` runs `insmod`'s script: `test_example(0)`, `test_example(1)`,
with every `kzalloc` free to fail and callbacks running in between and after,
then `rmmod` at any time.

### Counting

`main` checks its argument (`Start`, `StartFails`), creates the threads, which
start to run at once, joins them in order and prints.  A thread's `counter++` is
`Load` and `Store`.  `pthread_create` can fail half way, which ends the process.

### RestartIO and RestartTime

Each step of `RestartIO` is one `read` or `write`: it moves any number of bytes
from one to what was asked for, is interrupted, fails, or, for `read`, meets the
end of the input.  Bytes are numbered by their place in the input, so loss,
repetition and reordering can all be told apart.  A `write` that returns 0 for a
non-zero count does not occur on the descriptors these programs use.  `copyfile`
adds up what it has copied in an `int`: `copied` wraps at `INT_MAX` (`ToInt`), which is
what the usual builds make of the overflow, so for a longer input the value
returned says nothing and `ReturnsExact` does not speak of it.

`RestartTime` keeps times as pairs of seconds and microseconds, as the code does,
with the carry of `add2currenttime` and the borrow of `gettimeout`; the clock
moves between any two steps.  `slack` is the time that passes between reading
the clock and entering `select`.

The two copies of `restart_lib.h` in the repository are the same file; the map
names the one in `fileio_mmap`.

### FileCopy

The source file is the input stream of `RestartIO`, written and closed before the
program starts, so that `reg_fileio`'s `copyfile` is the one that is proved about.
Byte `k` of the source is the number `k`; the target starts with up to `OldLen`
bytes `Old`, so what was copied, what was there before and the zeros of an
extended file can be told apart.

A mapping is modelled by its pages: behind the end of a file it reads zeros up to
the end of the page, what is written there is lost, and an access behind that page
is `SIGBUS`.  Another process may shrink the source at any time (`SourceShrinks`);
`shrunk` remembers that it did so after `stat` or `fstat`, whose length is stale
from then on.  `memcpy` copies its bytes
in any order.  `mmap_fileio` checks neither the `lseek` nor the `write` that make
the target long enough (`ExtendTarget`), and then waits in `pause`: as it handles no
signal, `pause` never returns and the code after it is unreachable.  A signal may
also kill it, there or earlier (`Killed`).  The program `library` stands for any other caller of
`restart_lib.h`, on a pipe or a terminal.

`hex_dump` gets the offset and the length as `int`s (`ToInt`) and writes each
label with `sprintf("+%06d")` into the eight bytes of `temp`.  A label is the
number itself while it has six characters (`Fits`); the first that has more, at
offset `LABELS` = 1000000 or negative after the conversion, is written past the end
of `temp`, and what the program does from there on is not followed (`undefined`).
The last call, `munmap`, can fail and then the exit status is 1.

Source and target are different files.  `off + len` of `mmap_simple` is computed
without overflow, as its arguments are bounded.

### ModuleLife and TaskDriver

`ModuleLife` has one module at a time, chosen by `mod`: `insmod` calls its init
function, `rmmod` its exit function, again and again.  `heap` is what the module
owns; every allocation may be denied.  `list.c` ignores what `add2tail` returns, so
any of its four nodes may be missing.  `freelist` frees a node and
`list_for_each_entry` then reads the pointer to the next one from it.  `kfree` itself may
have written there, and so may the memory's next owner, so the pointer is either
the one that was there (`NextIntact`) or leads anywhere (`NextOverwritten`): to an oops, to
the head, so that the walk is over, to any node of the list, freed or not, or to other memory
(`curr = 0`).  `corrupt` remembers that such a pointer was followed.  From there on a node can
be freed twice, which `kfree` may notice or not, and the walk can go round in a circle for ever.
`slab_custom` uses its cache and its object without
a check.  `kmalloc_test` and `ksz_test` only end their loop when `kmalloc` fails and return -1
then, so they never become loaded and their exit functions never run; where `num`
would overflow it turns negative, which `kmalloc` refuses like any size that is too large.
`showlist` and `findinlist_letter` read the list and print; they change nothing.

`TaskDriver` adds the module of `foreach.c` and a process that runs `rdtasks`
against it.  No `file_operations` has an `.owner`, so `rmmod` may run while the device
is open or inside `taskinfo_open` or a read; `stale` remembers that it did, and a call into the
driver or through its file operations, `close` included, is an oops from then on (`CallModule`).
`taskinfo_read` copies its whole text whatever `count` is and
returns `count`; `rdtasks` writes a zero to `buf[n - 1]`.  `ubuf` tells the bytes of
the text from those nobody wrote.  `taskinfo_write` only returns an error.

### TaskWalk

The process list (`next`), the thread lists (`first`, `tnext`), the reference
count (`usage`), `task_lock` (`alloc_lock`) and RCU are the kernel's and are
modelled from what the modules rely on: a task that leaves the lists keeps its
own links, and the reference that `release_task` holds is dropped after a grace
period.  Processes and threads are created, lose their mm and die at any time,
and their addresses are reused.

What ends a read-side section depends on how the kernel was built, and the
modules' comments do not say which build they are for, so `build` is a variable:

* `preempt`: spinlocks are counted and `cond_resched` under one does nothing;
  RCU knows its readers by `rcu_read_lock` and by disabled preemption, softirqs
  included.  The latter is so since Linux 4.20; before, RCU did not wait for
  `ding`, which has no `rcu_read_lock`, and the model does not cover such kernels.
* `none`: nothing is counted; a context is left only where it says so, and for RCU
  every such place is the end of a section.

`taskinfo_read` is safe on the first and, because of its `cond_resched`, not on
the second (run `foreach_resched`).  `disp_task_details` is safe on the second and not on
the first, where nothing protects the task between its lookup and `task_lock`;
no text of the repository claims otherwise, so this is no finding, but run
`task_walk` gives each program the build it is safe on (`SafePrograms`).  That run
therefore says nothing of `taskdtl` on a preemptible kernel, nor of `taskinfo_read`
on one without preemption.
`showthrds` and `ding` are safe on both; `task_walk` has them on `preempt`, where
RCU protects less, and `ding` on both.

The code takes a reference to each task (`get_task_struct`), but since
`put_task_struct` comes before `task_unlock` and before the step to the next
task, it is RCU and not the reference that keeps the task there.  The two
`disp_task_details` (`taskdtl_raw/taskdtl.c` and `taskdtl_display.c`) read different parts of
the task in a different order and have steps of their own.  `seen` and
`must` are auxiliary: what a walk has visited and what it has to visit.

## Runs

| Run | Instance | Shows |
|---|---|---|
| `rcu_updater` | one updater, one walker, 3 addresses, 2 ids | memory safety, exactly one reclaimer per unlinked book, pointers that agree, no walk that misses a book, published books that never change in place, and that the list implements `BookShelf` |
| `rcu_deleters` | two tasks that add, delete and print, 2 addresses | for these functions `books_lock` and RCU are enough; every call returns and every unlinked book is freed |
| `rcu_borrow_delete` | borrower and deleter | **violation**: `list_replace_rcu` of a book that is no longer on the list |
| `rcu_is_borrowed` | deleter and `is_borrowed_book` | **violation**: `b->borrow` read after the book was freed |
| `rcu_module` | the module's script, 4 addresses | the list is empty between the tests, and everything unlinked is freed unless the module is unloaded first |
| `counting` | arguments -1 to 5, 4 threads at most | counts are lost but never invented; the printed count is final; `main` ends |
| `file_copy` | 6 bytes in 3 lines or 2 pages, an `int` up to 5, labels up to 4, buffers of 0, 1 and 3, a target of 0 to 6 bytes | the library: order, bounds, return values, termination; the programs: what the target holds whenever a copy stops, how far it got and what the printed count says of it, when `SIGBUS` can strike, an exact dump, which programs end |
| `restart_time` | a second of 3 ticks, a clock of 6 seconds | never early, each `select` ends at the time asked for, `readtimed` returns |
| `module_life` | six modules, four nodes, buffers of 0 to 4 bytes | nothing is left behind, each node is freed once, every oops of a module or of `rdtasks` has a cause, `rdtasks` prints the list, loading ends |
| `task_walk` | two walkers, the timer, 2 task_structs | no freed task touched, nothing leaked, mm stable, every task visited once, timer inside its module |
| `task_walk_live` | one walker, the timer, 2 task_structs | the walks of `foreach`, `showthreads` and `ding` end, `rmmod` ends, dead tasks are freed |
| `foreach_resched` | one walker, both builds | **violation**: `cond_resched` in the walk lets the task be freed |

### Bounds

* *Book list.* Three addresses let one book be linked, one be new and one wait
  for its grace period; with two ids a walk can pass one book to find another.
  Two addresses are enough to free and reuse a node under a walker, and make
  `kzalloc` fail for lack of memory as well.  The module's script needs four: two
  books, both replaced before a callback has run.
* *Counting.* Four threads are more than are needed to overwrite two
  increments with one late store.  The arguments include those that `main`
  refuses at both ends.
* *RestartIO.* Six bytes with newlines at 2, 3 and 5 give a line, an empty line,
  another line and an end without a newline, and are one more than `INT_MAX = 5`, so
  that the count of a copy wraps; buffers of 0, 1 and 3 bytes are too
  small for a NUL, only large enough for it, and exactly large enough for the first
  line with its newline and its NUL.  `BLKSIZE` is 2, so that a
  copy takes several rounds, the last one short.
* *FileCopy.* Pages of `PAGE = 3` bytes make a source of five bytes two pages, the
  last one partly filled, and let it shrink inside a page and by a page; targets of
  up to `OldLen = 6` are shorter, as long and longer.  `LINE = 2` columns give dumps
  with full lines only, with a short last one and of several lines.  With `LABELS = 5`
  a dump can have all its labels fit, the first one too long, or only a later one.
* *ModuleLife, TaskDriver.* Sizes start at `FirstNum = 6` and end at `MaxKmalloc = 12`;
  `Steps` has one step that leads to 0 at once, one in several rounds, one that
  passes it by, none at all and two that grow.  Buffers (`Args`, with a negative one) are
  shorter than, as long as and longer than the texts of up to `MaxText = 4` bytes;
  minor numbers 0 and 1 are the one the driver takes and one it refuses.
* *RestartTime.* A second of three ticks has a borrow, a carry and neither.
  `LastCall` bounds when a call starts and `LastTick` when the clock stops;
  then the model stops too, hence `CHECK_DEADLOCK FALSE`.  A call that starts by
  `LastCall` is over before `LastTick`.
* *TaskWalk.* Two `task_struct`s are two processes or a process and its thread,
  one of which can die and be reused under a walker; two walkers contend for a
  lock.  Liveness is checked with one walker (`foreach` or `showthreads`) and the timer,
  without symmetry: it shows that changing lists do not keep a walk going, not that a
  walker that waits for a `task_lock` gets it.
* The module runs of the book list end after `rmmod`, hence their
  `CHECK_DEADLOCK FALSE`; every other run checks for deadlock.

Symmetry is used in `rcu_updater` (addresses) and `task_walk` (tasks and walkers);
no liveness property is checked in them.

### Fairness

Nothing has to be called and nothing has to be sent; what has been called goes on.

* *Tasks in a function* are weakly fair: the scheduler runs what is runnable.
* *Spinlocks* are strongly fair: Linux's are queued, so a waiter gets its turn.
* *Callbacks, grace periods and timers* are weakly fair: softirqs run, and
  sections end because their tasks run.
* *`del_timer_sync`* is strongly fair: it retries until it meets the timer
  between two callbacks.
* *RestartIO*: signals do not interrupt a system call for ever.  A failing call is not
  counted on to end a function, and the peer need not close its end, so `CallsEnd`
  speaks of calls whose peer has closed.
* *FileCopy*: a program that can run does; nothing makes the source shrink or a
  signal kill.
* *ModuleLife, TaskDriver*: init and exit functions that were called go on.  `rmmod`
  and `rdtasks` need not be called, and `rdtasks` may stop anywhere.
* *RestartTime*: signals may arrive forever.  Only time passes, and that is enough.

## Proofs

TLAPS proves the following for all values of the constants, from the named
assumptions of each module (sets, distinct special values, positive sizes; for
`ListRcuExample`, that `insmod` is the only caller and calls every function).  Every
safety invariant and action property of the passing runs is proved; what is not is listed
at the end of this section.  Each inductive invariant was model-checked on an instance
of its run before it was proved.

**`BookRCU_proofs`.** `TypeCorrect` holds whoever calls what.  The other theorems
assume `SingleUpdater`.  None of the safety properties is inductive: that a walker's
node is not freed depends on the grace period it is waited for in, which depends on
who could still reach the node, which depends on the shape of the list.  `IInv` has
a part for each of these:

* `ControlInv`: who holds `books_lock` and who is in a read-side section, from `pc`.
* `HoldersInv`: a reader that may still stand on an unlinked node is in its
  section, and the `next` pointer it finds there leads it to a node that is safe
  for it again: the head, a node on the list, or one it holds as well.
* `ListConsistent`, `RankInv`: `next` and `prev` agree, and the list has no cycle
  that avoids its head (the pointers descend in some ranking), so that a node is
  never its own neighbour when it is replaced or deleted.
* `CursorInv`, `OldInv`, `NewInv`: what each local pointer may point to, that `old_b`
  stays on the list until it is replaced, and that a new node is its allocator's alone.
* `ReclaimInv`, `GraceInv`: an unlinked node belongs to one task or to the callback
  queue, and once its grace period has begun it waits for all its holders.

There is one lemma per kind of step (`AddLinkStep`, `ReplaceStep`, `UnlinkStep`,
`ReadUnlockStep`, `SyncDoneStep`, ...), `NextIInv` puts them together, and
`MemorySafety`, `UpdatesHitTheList`, `ListStaysConsistent`, `FreedExactlyOnce` and
`PublishedBooksImmutable` follow.

`LookupsAreRight` needs a second invariant on top of `IInv`, as a walker may stand on
a node that left the list long ago.  `LookupInv` says that there is a strict order `R` of
the nodes, on the list or waiting to be freed, such that

* no `next` pointer jumps over a book on the list, and one of an unlinked node only over
  a book whose id the node it leads to has as well (`NoSkip`);
* a walk that has not found its book, and whose book was not absent for a moment,
  stands on one with that id or has one ahead of it in `R` (`FindInv`).

The order exists in the proof only: a step that adds a book puts it before all others
(`InFront`), a step that replaces one puts the copy where the old one stood (`InPlaceOf`).
For deletions it matters that `delete_book` takes the *first* book of its id,
so that a walker that has lost that book still has the next one ahead.

**`ListRcuExample_proofs`.** `ModuleIsACaller` is a refinement: the module with its script
is the book list with one caller, so the theorems above hold of it (`ModuleIsSafe`).
`TestsLeaveNoBooks` adds `ScriptInv`: which call of the script runs (`AtCall`), that each id is
on the list at most once and only between the call that adds it and the one that deletes it,
and that `delete_book` cannot come to the end of the list with its book still there, which
is `LookupInv` again.

**`Counting_proofs`.** `CountBounds` is not inductive, as a thread may store
whatever it has loaded.  `CountInv` adds that no loaded value exceeds the number of threads
that have counted, and `PhaseInv` says which threads exist and which are joined
at each point of `main`.

**`RestartIO_proofs`.** `OrderInv` says that what a transfer has written so far
is, in order, the beginning of what it has read,
`ReadInv`, `WriteInv`, `BlockInv` and `LineInv` are the loop invariants of the
four loops: how the bytes read, the bytes in the buffer and the bytes written add
up.  `WrittenInOrder`, `BufferBounds` and `ReturnsExact`, the exactness of the returned
values (whole transfers, copies, blocks and lines), follow.  The lemmas about the library's
steps do not depend on how the input grows, and `FileCopy_proofs` uses them for an input
that also shrinks.

**`FileCopy_proofs`.** `FCInv` is the library's `IInv` with what the programs add:
`ProgInv` and `CallInv` (which program is where, and which library call it is in),
`LengthInv` (how long the target is at each step of opening and extending it), `DoneInv` (the
bytes `memcpy` has copied, in whatever order), `DstBytes` (what every byte of the target is),
`RangeInv` (what may be accessed under the mappings, and why not all of it) and
`DumpInv` (the loop invariant of `hex_dump`: the lines so far are the bytes so far).  For
`reg_fileio` the target is a function of what `copyfile` has written
(`RegFileioTarget`), so `TargetNeverGarbled` (`TargetBytes`) and `CopiesAreCounted`
(`CopyExtent`) come from the library's `WrittenInOrder` and `ReturnsExact`.  `DumpIsExact`
holds for every offset and length, up to the label that overruns `temp`.

**`TaskWalk_proofs`.** The theorems assume `SafeBuilds`: `foreach` is not run on `none`, nor the
task details on `preempt`.  Without it they are false, as run `foreach_resched` and the section on
`TaskWalk` above show; every other pairing of programs and builds is allowed.
Only `CallbackInModule` needs no such rule.  The invariant has these parts:

* `LifeInv`, `LinkInv`, `RemovedInv`: the links of a task on the lists lead to tasks on the
  lists; the links of a removed task lead to tasks that are *kept* for the contexts its own
  grace period waits for.  That is why following a link inside a section is
  safe, and `NoStaleTask` is not inductive without it.
* `OrderInv(R)`, `NoGapInv(R)`: for some strict order `R` of the tasks every link goes
  upwards and jumps over no task that the walker still has to visit.
* `Place`, `Pointers`, `Safe` for each context: where it is, what its cursors point at, and
  that they point to kept tasks while it is in a section.  `WalkInv(R, w)`: what `w` has visited
  is below its cursor in `R`, what it must visit is not.  `WalkExact` follows.
* `LockInv`, `UsageInv`: the holder of `task_lock` is known from `pc`, and a count is one
  plus the pin; a task is pinned by the holder of its lock only, so at most once.

As in `BookRCU_proofs`, `R` is quantified existentially, and each step that changes the lists
gives the order that it leads to.

**`TaskDriver_proofs`.** One invariant for `ModuleLife` and `TaskDriver`: `PlaceInv` and `HeapInv`
say what each module owns at each of its steps, `ListInv` that the nodes of the list are distinct
and that, until an overwritten pointer was followed, `list.c` owns just those from `curr` on
(`NodesFreedOnce`, `UnloadedOwnsNothing`), `NumInv` that the size `ksz_test` is at is `FirstNum` plus a multiple of the step, from
which it follows that the division by zero needs a step that divides `FirstNum`.  `UserOops` says that
`rdtasks` comes to harm only with a stale device (`EveryOopsHasACause`), and `BufferInv` ties the
contents of its buffer to what was read.

**`RestartTime_proofs`.** The arithmetic is in lemmas: `TimeLeftExact` (the borrow
gives the difference in microseconds), `DeadlineNormalised` (the carry keeps the
sum), `ClockTicks`.  `EnterInv` relates the timeout on the way to `select` to the
deadline, and with it `NeverEarly` and `WaitEndsOnTime` are inductive.  `TypeOK` is worth a
theorem here, as it says that every time passed to `select` is normalised.

**Model-checked only**: the liveness properties (`CallsReturn`, `UnlinkedBooksFreed`,
`BooksFreedUnlessUnloaded`, `MainEnds`, `CallsEnd`, `ProgramsEnd`, `TimedReadReturns`, `WalksEnd`,
`RmmodEnds`, `TasksFreed`, `LoadingEnds`), as the prover does not handle fairness; and the refinement
`ImplementsShelf`, whose mapping counts along the list by a recursive function.

## Findings

1. `list_rcu_example.c:128`: `borrow_book` and `return_book` replace a node they
   looked up before taking `books_lock`, which is not safe with a concurrent
   `delete_book`, although the comment at line 231 says that locking is the way chosen.
2. `list_rcu_example.c:157`: `is_borrowed_book` reads the book after `rcu_read_unlock`.
3. `foreach.c:59`: `cond_resched` under a spinlock and in a read-side section,
   which the comment calls a safe place; it is one only where it does nothing.

Limits of the code that no text of the repository denies are stated as
conditions of the properties instead: `list_rcu_example_exit` does not wait for
pending callbacks (`BooksFreedUnlessUnloaded`); `copyfile` counts in an `int` and
does not report errors (`ReturnsExact`, `CopyExtent`); the target's extension is not
checked and the source's size can be stale (`CopyExtent`, `BusErrorOnlyIfShrunk`); labels
of a dump have six digits (`HexDumpExact`); unchecked allocations, memory read after it was
freed, a division by zero and a device without an owner (`OopsHasCause`); a step of 0
(`LoadingEnds`); a read that is longer than the buffer or a length of 0 (`ListPrinted`).

Three disagreements between the programs of `fileio_mmap` and the texts beside them have no
violation run of their own; the properties state what the code does:

* `mmap_fileio.c:95` waits in `pause` for ever, while `tst_fileio.sh:41` runs the program
  in the foreground and compares the files at line 45 (`ProgramsEnd` says that a copy that
  succeeds stays in `pause` until a signal kills it).
* `mmap_fileio.c:68`, "Set the dest file to be as large as the source file": a target
  that was longer stays longer, as it is opened without `O_TRUNC` (`CopyExtent`).
* `reg_fileio.c:48-53` exits with 0 whatever `copyfile` met; only the count it prints
  tells (`CopyExtent`).

## Not modelled, and why

* *Sizes of printed text.* `kbuf` in `foreach.c` is filled without a check of its
  size; the walk is modelled and the text is not.
* *`r_close`, `r_dup2`, `r_wait`, `r_waitpid`, `sleepsafe`.* One retry loop each, and
  no program of the repository calls them.
* *The OOM killer programs and demand paging.* A loop that allocates until the kernel
  ends it; what there is to say is the kernel's overcommit policy.
* *Shell scripts*, `toggle_swap.sh` and the tracing scripts included: their effect is
  that of the tools and kernel files they use.
* *`vm_show_kernel_seg`.* It prints addresses that the kernel's configuration fixes.
* *Straight-line demos, scripts that only print, headers of macros.* They keep no
  state of their own; `PROJECT.json` gives the reason for each.
* *Weak memory, interrupts inside the list primitives, kernel internals* such as
  how RCU detects grace periods: outside the repository.

## Plan

Done: the book list and its module, counting, `restart_lib.h` and the programs that
use it, the walking modules, the modules that allocate, the task list device and its
reader; proofs of every safety invariant that a run checks.  What is left:

1. `ImplementsShelf`.  The mapping would be stated without recursion, as the sequence of
   linked nodes that the `next` pointers give.  That there is one is inductive,
   with one explicit sequence per list primitive; that there is only one needs an induction
   over its length, by a least counterexample (`WFMin` of `WellFoundedInduction` for sets of
   naturals).  Each list primitive is then a step of `BookShelf`, every other step a stutter; that
   `delete_book` takes the first book of its id is part of `LookupInv` already.
2. The bound of `kbuf` in `foreach.c`, once the printed text has a length in the model.
