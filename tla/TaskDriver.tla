----------------------------- MODULE TaskDriver -----------------------------
(***************************************************************************)
(* The task list driver (foreach.c) as a device: loading, unloading, open, *)
(* read and write, and rdtasks, the program that opens it, reads the list  *)
(* once and prints it.  How taskinfo_read walks the tasks is in TaskWalk;  *)
(* here a read is the length of the text it makes.                         *)
(*                                                                         *)
(* Neither file_operations has an owner, so an open device does not keep   *)
(* the module loaded: rmmod can run at any moment, also inside an open or  *)
(* a read.  A task that is in the module then, or comes back to it, runs   *)
(* and reads memory that is gone; what it does from there on ("oops") is   *)
(* not followed.                                                           *)
(***************************************************************************)
EXTENDS ModuleLife

CONSTANTS
    Minors,     \* the minor numbers of the device nodes
    Args,       \* what atoi makes of the second argument of rdtasks
    MaxText     \* the longest text of a read

ASSUME DriverAssumption ==
    /\ Minors \subseteq Nat /\ Args \subseteq Int /\ MaxText \in Nat \ {0}

VARIABLES
    upc,        \* where rdtasks is
    count,      \* num of rdtasks, count of taskinfo_read
    numread,    \* the length of the text of taskinfo_read
    ubuf,       \* buf of rdtasks: a byte of the text, 0, or Junk
    wild,       \* something was written outside that buffer
    printed,    \* what rdtasks has printed of it
    stale       \* the module was unloaded while the device was open or being
                \*   opened

uvars == <<upc, count, numread, ubuf, wild, printed, stale>>
allvars == <<vars, uvars>>

Junk == -1      \* a byte of malloc's memory that nobody has written
IsOpen == upc \in {"taskinfo_open", "opened", "read", "taskinfo_read", "print"}

TDInit ==
    /\ Init
    /\ upc = "start" /\ count = 0 /\ numread = 0
    /\ ubuf = <<>> /\ printed = <<>>
    /\ wild = FALSE /\ stale = FALSE

-----------------------------------------------------------------------------
(* The module *)

\* The major number is registered, or init fails.
taskinfo_init_module ==
    /\ at = "register_chrdev"
    /\ \/ Gets("major") /\ InitReturns(0)
       \/ Denied /\ InitReturns(-1)
    /\ UNCHANGED <<mod, nodes, num, stepsz, uvars>>

taskinfo_cleanup_module ==
    /\ at = "unregister_chrdev"
    /\ Frees("major")
    /\ ExitReturns
    /\ stale' = (stale \/ IsOpen)
    /\ UNCHANGED <<mod, nodes, num, stepsz, upc, count, numread, ubuf, wild, printed>>

-----------------------------------------------------------------------------
(* rdtasks, and the driver's functions that it calls *)

UserGoto(l) == upc' = l /\ UNCHANGED <<vars, stale>>

\* A call into the module, or through its file operations, leads to l.
CallModule(l) == UserGoto(IF stale THEN "oops" ELSE l)

\* A call fails: rdtasks closes the device and exits with 1.
UserGivesUp == CallModule("exit1") /\ UNCHANGED <<count, numread, ubuf, wild, printed>>

\* open of a device node finds the driver of its major number, or fails.
open ==
    /\ mod = "foreach" /\ upc = "start"
    /\ \/ "major" \in heap /\ UserGoto("taskinfo_open")
       \/ UserGoto("exit1")
    /\ UNCHANGED <<count, numread, ubuf, wild, printed>>

\* The driver's open accepts minor 0 only.
taskinfo_open ==
    /\ upc = "taskinfo_open"
    /\ \E minor \in Minors : CallModule(IF minor = 0 THEN "opened" ELSE "exit1")
    /\ UNCHANGED <<count, numread, ubuf, wild, printed>>

\* atoi into a size_t: a negative number is larger than INT_MAX and is refused.
\* Then the buffer is allocated.
malloc ==
    /\ upc = "opened"
    /\ \E a \in Args :
        \/ /\ a >= 0 /\ count' = a
           /\ ubuf' = [k \in 1 .. a |-> Junk]
           /\ UserGoto("read") /\ UNCHANGED <<numread, wild, printed>>
        \/ UserGivesUp

\* read enters the driver.
read ==
    /\ upc = "read"
    /\ CallModule("taskinfo_read")
    /\ UNCHANGED <<count, numread, ubuf, wild, printed>>

\* taskinfo_read, the walk left out: it copies the whole text, whatever count
\* is, and returns count; or there is no memory, or copy_to_user fails.
taskinfo_read ==
    /\ upc = "taskinfo_read"
    /\ \/ /\ ~stale
          /\ numread' \in 1 .. MaxText
          /\ ubuf' = [k \in 1 .. count |-> IF k <= numread' THEN k ELSE ubuf[k]]
          /\ wild' = (numread' > count)
          /\ UserGoto("print") /\ UNCHANGED <<count, printed>>
       \/ UserGivesUp

\* Mutant: the text is terminated at buf[n].
closePast ==
    /\ upc = "print"
    /\ wild' = TRUE
    /\ CallModule("printf")
    /\ UNCHANGED <<count, numread, ubuf, printed>>

\* buf[n - 1] = '\0', and the device is closed before the list is printed.
close ==
    /\ upc = "print"
    /\ ubuf' = [k \in 1 .. count |-> IF k = count THEN 0 ELSE ubuf[k]]
    /\ wild' = (wild \/ count = 0)
    /\ CallModule("printf")
    /\ UNCHANGED <<count, numread, printed>>

\* printf up to the first '\0': a byte nobody wrote may be one.  With no byte in
\* the buffer there is no '\0' either: what is printed is anything.
PrintTasks ==
    /\ upc = "printf"
    /\ \/ \E e \in 1 .. count :
            /\ ubuf[e] \in {0, Junk} /\ \A k \in 1 .. e - 1 : ubuf[k] # 0
            /\ printed' = SubSeq(ubuf, 1, e - 1)
       \/ count = 0 /\ UNCHANGED printed
    /\ UserGoto("exit0")
    /\ UNCHANGED <<count, numread, ubuf, wild>>

\* rdtasks runs again.
Again ==
    /\ upc \in {"exit0", "exit1"}
    /\ upc' = "start" /\ count' = 0 /\ numread' = 0
    /\ ubuf' = <<>> /\ printed' = <<>>
    /\ wild' = FALSE /\ stale' = FALSE
    /\ UNCHANGED vars

-----------------------------------------------------------------------------
Driver == taskinfo_init_module \/ taskinfo_cleanup_module

rdtasks == open \/ taskinfo_open \/ malloc \/ read \/ taskinfo_read \/ close \/ PrintTasks \/ Again

TDNext == (Next /\ UNCHANGED uvars) \/ Driver \/ rdtasks

TDSpec == TDInit /\ [][TDNext]_allvars

\* As in ModuleLife, a load or an unload that began goes on.
TDFairSpec ==
    /\ TDSpec
    /\ WF_allvars(ModuleStep /\ UNCHANGED uvars)
    /\ WF_allvars(Driver)

-----------------------------------------------------------------------------
(* Properties *)

\* No task comes to harm but for a cause that is in sight: those of loading and
\* unloading a module, and, for a reader of the task list, that the driver was
\* unloaded between the beginning of its open and the end of its close, which
\* nothing prevents (foreach.c:89 and 123 name no owner).
OopsHasCause ==
    /\ ModuleOopsHasCause
    /\ upc = "oops" => stale

\* rdtasks prints the list: if the text of the read, whose length it cannot
\* know, fits into the buffer it asked for, it stays inside the buffer and what
\* it prints begins with the whole text, without its last newline if the text
\* fills the buffer.  Only a text that is too long or a length of 0 take it
\* outside.
ListPrinted ==
    upc = "exit0" =>
        /\ wild <=> numread > count \/ count = 0
        /\ ~wild => \A k \in 1 .. numread : k < count => k <= Len(printed) /\ printed[k] = k
=============================================================================
