---------------------------- MODULE RestartTime ----------------------------
(***************************************************************************)
(* The timed read of restart_lib.h: readtimed, waitfdtimed, gettimeout and *)
(* add2currenttime.  One process calls readtimed; another makes data       *)
(* ready; signals interrupt select and read; the clock moves between any   *)
(* two steps.  The clock never goes back, and no other process reads from  *)
(* the descriptor.                                                         *)
(***************************************************************************)
EXTENDS Integers

CONSTANTS
    MILLION,        \* microseconds in a second
    FD_SETSIZE,
    Fds,            \* the descriptors readtimed is called with
    Timeouts,       \* the seconds it is called with: [sec, usec], where usec is
                    \*   the fraction, rounded, so it can be MILLION
    LastCall,       \* bound: no call begins after this many seconds
    LastTick        \* bound: the clock stops at this many seconds

ASSUME ConstantsAssumption ==
    /\ MILLION \in Nat \ {0} /\ FD_SETSIZE \in Nat
    /\ Fds \subseteq Int
    /\ Timeouts \subseteq [sec : Nat, usec : 0 .. MILLION]
    /\ LastCall \in Nat /\ LastTick \in Nat

VARIABLES
    now,        \* the clock, a struct timeval
    ready,      \* the descriptor has data or is at its end
    pc,
    fd, end,    \* the arguments of waitfdtimed
    timeout,    \* timeout of waitfdtimed
    wake,       \* when select times out, in microseconds
    slack,      \* auxiliary: how far the clock moved between gettimeout and select
    ret         \* what the last call returned

vars == <<now, ready, pc, fd, end, timeout, wake, slack, ret>>

timeval == [sec : Nat, usec : 0 .. MILLION - 1]
Micros(tv) == tv.sec * MILLION + tv.usec
Zero == [sec |-> 0, usec |-> 0]

TypeOK ==
    /\ now \in timeval /\ ready \in BOOLEAN
    /\ pc \in {"idle", "wait", "enter", "select", "again", "r_read"}
    /\ fd \in Fds \cup {0}
    /\ end \in timeval /\ timeout \in timeval
    /\ wake \in Nat /\ slack \in Nat
    /\ ret \in {"none", "EINVAL", "ETIME", "error", "data"}

Init ==
    /\ now = Zero /\ ready = FALSE
    /\ pc = "idle" /\ fd = 0
    /\ end = Zero /\ timeout = Zero
    /\ wake = 0 /\ slack = 0 /\ ret = "none"

-----------------------------------------------------------------------------
Return(v) ==
    /\ pc' = "idle" /\ ret' = v
    /\ UNCHANGED <<fd, end, timeout, wake, slack>>

\* A second of usec too many becomes one of sec.
carry(tv) ==
    IF tv.usec >= MILLION THEN [sec |-> tv.sec + 1, usec |-> tv.usec - MILLION] ELSE tv

\* add2currenttime(seconds)
add2currenttime(s) == carry([sec |-> now.sec + s.sec, usec |-> now.usec + s.usec])

\* Mutant: the borrow from tv_sec is forgotten.
TimeLeftNoBorrow(e) == carry([sec |-> e.sec - now.sec, usec |-> e.usec - now.usec])

\* What gettimeout(end, &timeout) stores into timeout.
TimeLeft(e) ==
    LET d == carry([sec |-> e.sec - now.sec, usec |-> e.usec - now.usec])
    IN  IF d.usec < 0 THEN [sec |-> d.sec - 1, usec |-> d.usec + MILLION] ELSE d

\* Mutant: with less than a second left, the time is taken to be over.
ExpiredEarly(tv) == tv.sec <= 0

\* gettimeout returns -1 with ETIME.
Expired(tv) == tv.sec < 0 \/ (tv.sec = 0 /\ tv.usec = 0)

\* readtimed computes the time to be done by and calls waitfdtimed.
readtimed(f, s) ==
    /\ pc = "idle" /\ now.sec <= LastCall
    /\ fd' = f /\ end' = add2currenttime(s)
    /\ pc' = "wait" /\ ret' = "none"
    /\ timeout' = Zero /\ wake' = 0 /\ slack' = 0
    /\ UNCHANGED <<now, ready>>

BadFd == fd < 0 \/ fd >= FD_SETSIZE

\* waitfdtimed refuses the descriptor.
WaitInvalid ==
    /\ pc = "wait" /\ BadFd
    /\ Return("EINVAL")
    /\ UNCHANGED <<now, ready>>

\* Mutant: after an interruption select is called with the timeout it had.
gettimeoutOnce ==
    /\ pc = "again" \/ (pc = "wait" /\ ~BadFd)
    /\ \/ /\ Expired(TimeLeft(end))
          /\ Return("ETIME")
       \/ /\ ~Expired(TimeLeft(end))
          /\ timeout' = IF pc = "wait" THEN TimeLeft(end) ELSE timeout
          /\ slack' = 0 /\ pc' = "enter"
          /\ UNCHANGED <<fd, end, wake, ret>>
    /\ UNCHANGED <<now, ready>>

\* gettimeout(end, &timeout), before the first select and after each
\* interrupted one
gettimeout ==
    /\ pc = "again" \/ (pc = "wait" /\ ~BadFd)
    /\ \/ /\ Expired(TimeLeft(end))
          /\ Return("ETIME")
       \/ /\ ~Expired(TimeLeft(end))
          /\ timeout' = TimeLeft(end)
          /\ slack' = 0 /\ pc' = "enter"
          /\ UNCHANGED <<fd, end, wake, ret>>
    /\ UNCHANGED <<now, ready>>

SelectBegins ==
    /\ pc = "enter"
    /\ pc' = "select"
    /\ wake' = Micros(now) + Micros(timeout)
    /\ UNCHANGED <<now, ready, fd, end, timeout, slack, ret>>

\* select returns: data is ready, or the timeout has passed, or EINTR, or an
\* error.
SelectReady ==
    /\ pc = "select" /\ ready
    /\ pc' = "r_read"
    /\ UNCHANGED <<now, ready, fd, end, timeout, wake, slack, ret>>

\* Mutant: NULL instead of &timeout; select never times out.
SelectForever ==
    /\ pc = "select" /\ FALSE
    /\ UNCHANGED vars

SelectTimesOut ==
    /\ pc = "select" /\ ~ready /\ Micros(now) >= wake
    /\ Return("ETIME")
    /\ UNCHANGED <<now, ready>>

SelectInterrupted ==
    /\ pc = "select"
    /\ pc' = "again"
    /\ UNCHANGED <<now, ready, fd, end, timeout, wake, slack, ret>>

SelectFails ==
    /\ pc = "select"
    /\ Return("error")
    /\ UNCHANGED <<now, ready>>

waitfdtimed == WaitInvalid \/ gettimeout \/ SelectBegins \/ SelectReady \/ SelectTimesOut

\* r_read, retried when interrupted: reads all there is, or fails.
ReadReturns(v) ==
    /\ pc = "r_read" /\ ready
    /\ ready' = FALSE
    /\ Return(v)
    /\ UNCHANGED now

-----------------------------------------------------------------------------
DataArrives ==
    /\ ~ready /\ ready' = TRUE
    /\ UNCHANGED <<now, pc, fd, end, timeout, wake, slack, ret>>

\* The clock moves.  Between gettimeout and select this makes select wake up
\* late; it does not move past LastTick, nor wake there.
Tick ==
    /\ now' = carry([sec |-> now.sec, usec |-> now.usec + 1])
    /\ now'.sec <= LastTick
    /\ pc = "enter" => Micros(now') + Micros(timeout) <= LastTick * MILLION
    /\ slack' = IF pc = "enter" THEN slack + 1 ELSE slack
    /\ UNCHANGED <<ready, pc, fd, end, timeout, wake, ret>>

Next ==
    \/ \E f \in Fds, s \in Timeouts : readtimed(f, s)
    \/ waitfdtimed \/ SelectInterrupted \/ SelectFails
    \/ ReadReturns("data") \/ ReadReturns("error")
    \/ DataArrives \/ Tick

Spec == Init /\ [][Next]_vars

\* The process is scheduled, a select that can return does unless a signal
\* comes first, and time passes.  Signals may keep coming for ever.
FairSpec ==
    /\ Spec
    /\ WF_vars(WaitInvalid) /\ WF_vars(gettimeout) /\ WF_vars(SelectBegins)
    /\ WF_vars(SelectReady \/ SelectTimesOut)
    /\ WF_vars(ReadReturns("data"))
    /\ WF_vars(Tick)

-----------------------------------------------------------------------------
(* Properties *)

\* readtimed gives up with ETIME only when the time asked for is over,
\* however often signals interrupted it.
NeverEarly == pc = "idle" /\ ret = "ETIME" => Micros(now) >= Micros(end)

\* Each select waits until the time asked for and no longer: interruptions do
\* not add up.  It is late only by what passed between reading the clock and
\* entering select.
WaitEndsOnTime == pc = "select" => wake = Micros(end) + slack

\* Every call of readtimed returns, even if signals interrupt every select:
\* each interruption looks at the clock again.
TimedReadReturns == (pc # "idle") ~> (pc = "idle")
=============================================================================
