------------------------- MODULE RestartTime_proofs -------------------------
(***************************************************************************)
(* Proofs about RestartTime, for every length of a second, every timeout   *)
(* and every bound on the clock.                                           *)
(***************************************************************************)
EXTENDS RestartTime, TLAPS

\* What carrying and borrowing a second rests on.
LEMMA SecondsToMicros ==
    \A a \in Int :
        /\ a * MILLION \in Int
        /\ (a + 1) * MILLION = a * MILLION + MILLION
        /\ (a - 1) * MILLION = a * MILLION - MILLION
        /\ \A b \in Int : (a - b) * MILLION = a * MILLION - b * MILLION
  BY ConstantsAssumption, SMT

\* No number of seconds is lost in a multiplication.
LEMMA MicrosOrder ==
    ASSUME NEW a \in Int
    PROVE  /\ a >= 0 => a * MILLION >= 0
           /\ a < 0 => a * MILLION <= 0 - MILLION
           /\ a > 0 => a * MILLION >= MILLION
  BY ConstantsAssumption, SMT

\* gettimeout stores exactly the time that is left, with tv_usec in range,
\* and returns -1 exactly when none is left.
LEMMA TimeLeftExact ==
    ASSUME now \in timeval, NEW e \in timeval
    PROVE  /\ TimeLeft(e) \in [sec : Int, usec : 0 .. MILLION - 1]
           /\ Micros(TimeLeft(e)) = Micros(e) - Micros(now)
           /\ Expired(TimeLeft(e)) <=> Micros(e) <= Micros(now)
<1> USE ConstantsAssumption
<1>1. PICK es \in Nat, eu \in 0 .. MILLION - 1, ns \in Nat, nu \in 0 .. MILLION - 1 :
        e = [sec |-> es, usec |-> eu] /\ now = [sec |-> ns, usec |-> nu]
  BY DEF timeval
<1>2. PICK s \in Int, u \in 0 .. MILLION - 1 :
        /\ TimeLeft(e) = [sec |-> s, usec |-> u]
        /\ \/ s = es - ns /\ u = eu - nu
           \/ s = es - ns - 1 /\ u = eu - nu + MILLION
  <2>1. CASE eu - nu < 0
    <3>1. TimeLeft(e) = [sec |-> es - ns - 1, usec |-> eu - nu + MILLION]
      BY <1>1, <2>1 DEF TimeLeft, carry
    <3> QED
      BY <1>1, <2>1, <3>1
  <2>2. CASE eu - nu >= 0
    <3>1. TimeLeft(e) = [sec |-> es - ns, usec |-> eu - nu]
      BY <1>1, <2>2 DEF TimeLeft, carry
    <3> QED
      BY <1>1, <2>2, <3>1
  <2> QED
    BY <2>1, <2>2
<1>3. s * MILLION + u = (es * MILLION + eu) - (ns * MILLION + nu)
  <2>1. (es - ns) * MILLION = es * MILLION - ns * MILLION
    BY SecondsToMicros
  <2>2. (es - ns - 1) * MILLION = (es - ns) * MILLION - MILLION
    BY SecondsToMicros
  <2>3. es * MILLION \in Int /\ ns * MILLION \in Int
    BY SecondsToMicros
  <2> QED
    BY <1>2, <2>1, <2>2, <2>3
<1>4. (s < 0 \/ (s = 0 /\ u = 0)) <=> s * MILLION + u <= 0
  <2>1. /\ s * MILLION \in Int
        /\ s >= 0 => s * MILLION >= 0
        /\ s < 0 => s * MILLION <= 0 - MILLION
        /\ s > 0 => s * MILLION >= MILLION
        /\ s = 0 => s * MILLION = 0
    BY SecondsToMicros, MicrosOrder
  <2> QED
    BY <2>1
<1>5. es * MILLION + eu \in Int /\ ns * MILLION + nu \in Int
  BY SecondsToMicros
<1>6. Micros(TimeLeft(e)) = s * MILLION + u /\ Micros(e) = es * MILLION + eu /\ Micros(now) = ns * MILLION + nu
  BY <1>1, <1>2 DEF Micros
<1>7. Expired(TimeLeft(e)) <=> (s < 0 \/ (s = 0 /\ u = 0))
  BY <1>2 DEF Expired
<1> QED
  BY <1>2, <1>3, <1>4, <1>5, <1>6, <1>7

\* add2currenttime returns a normalised time, also when the fraction rounds
\* up to a whole second.
LEMMA DeadlineNormalised ==
    ASSUME now \in timeval, NEW s \in Timeouts
    PROVE  add2currenttime(s) \in timeval
<1>1. PICK ns \in Nat, nu \in 0 .. MILLION - 1 : now = [sec |-> ns, usec |-> nu]
  BY DEF timeval
<1>2. PICK ss \in Nat, su \in 0 .. MILLION : s = [sec |-> ss, usec |-> su]
  BY ConstantsAssumption
<1>3. add2currenttime(s) = carry([sec |-> ns + ss, usec |-> nu + su])
  BY <1>1, <1>2 DEF add2currenttime
<1>4. CASE nu + su >= MILLION
  BY <1>3, <1>4, ConstantsAssumption DEF timeval, carry
<1>5. CASE nu + su < MILLION
  BY <1>3, <1>5, ConstantsAssumption DEF timeval, carry
<1> QED
  BY <1>4, <1>5, ConstantsAssumption

\* The clock is a normalised time and moves by a microsecond.
LEMMA ClockTicks ==
    ASSUME now \in timeval, Tick
    PROVE  now' \in timeval /\ Micros(now') = Micros(now) + 1
<1>1. PICK ns \in Nat, nu \in 0 .. MILLION - 1 : now = [sec |-> ns, usec |-> nu]
  BY DEF timeval
<1>2. now' = carry([sec |-> ns, usec |-> nu + 1])
  BY <1>1 DEF Tick
<1>3. (ns + 1) * MILLION = ns * MILLION + MILLION /\ ns * MILLION \in Int
  <2>1. ns \in Int
    OBVIOUS
  <2> QED
    BY <2>1, SecondsToMicros, Zenon
<1>4. Micros(now) = ns * MILLION + nu
  BY <1>1 DEF Micros
<1>5. CASE nu + 1 >= MILLION
  BY <1>1, <1>2, <1>3, <1>4, <1>5, ConstantsAssumption DEF Micros, timeval, carry
<1>6. CASE nu + 1 < MILLION
  BY <1>1, <1>2, <1>3, <1>4, <1>6, ConstantsAssumption DEF Micros, timeval, carry
<1> QED
  BY <1>5, <1>6, ConstantsAssumption

-----------------------------------------------------------------------------
(***************************************************************************)
(* The inductive invariant.  Between gettimeout and select, the clock and  *)
(* the timeout add up to the time asked for, and what has passed since;    *)
(* select takes over that sum.                                             *)
(***************************************************************************)
EnterInv == pc = "enter" => Micros(now) + Micros(timeout) = Micros(end) + slack

IInv == TypeOK /\ EnterInv /\ WaitEndsOnTime /\ NeverEarly

LEMMA MicrosNat ==
    \A tv \in timeval : Micros(tv) \in Nat
<1> SUFFICES ASSUME NEW tv \in timeval PROVE Micros(tv) \in Nat
  OBVIOUS
<1>1. tv.sec \in Nat /\ tv.usec \in Nat
  BY ConstantsAssumption DEF timeval
<1>2. tv.sec * MILLION \in Nat
  BY <1>1, ConstantsAssumption, SMT
<1> QED
  BY <1>1, <1>2 DEF Micros

LEMMA Invariance == Spec => []IInv
<1>1. Init => IInv
  <2> SUFFICES ASSUME Init PROVE IInv
    OBVIOUS
  <2>1. Zero \in timeval
    BY ConstantsAssumption DEF Zero, timeval
  <2>2. ready \in BOOLEAN /\ fd \in Fds \cup {0}
    BY DEF Init
  <2>3. TypeOK
    BY <2>1, <2>2 DEF Init, TypeOK
  <2>4. EnterInv /\ WaitEndsOnTime /\ NeverEarly
    BY DEF Init, EnterInv, WaitEndsOnTime, NeverEarly
  <2> QED
    BY <2>3, <2>4 DEF IInv
<1>2. IInv /\ [Next]_vars => IInv'
  <2> SUFFICES ASSUME IInv, [Next]_vars PROVE IInv'
    OBVIOUS
  <2> USE DEF IInv
  <2>0. /\ now \in timeval /\ end \in timeval /\ timeout \in timeval /\ Zero \in timeval
        /\ Micros(now) \in Nat /\ Micros(end) \in Nat /\ Micros(timeout) \in Nat
    BY MicrosNat, ConstantsAssumption DEF TypeOK, Zero, timeval
  <2>1. ASSUME NEW f \in Fds, NEW s \in Timeouts, readtimed(f, s) PROVE IInv'
    <3>1. end' \in timeval
      BY <2>0, <2>1, DeadlineNormalised DEF readtimed
    <3> QED
      BY <2>0, <2>1, <3>1 DEF readtimed, TypeOK, EnterInv, WaitEndsOnTime, NeverEarly
  <2>2. CASE WaitInvalid \/ SelectFails
    BY <2>2 DEF WaitInvalid, SelectFails, Return, TypeOK, EnterInv, WaitEndsOnTime, NeverEarly
  <2>3. CASE gettimeout
    <3>1. /\ TimeLeft(end) \in [sec : Int, usec : 0 .. MILLION - 1]
          /\ Micros(TimeLeft(end)) = Micros(end) - Micros(now)
          /\ Expired(TimeLeft(end)) <=> Micros(end) <= Micros(now)
      BY <2>0, TimeLeftExact
    <3>2. CASE Expired(TimeLeft(end))
      BY <2>0, <2>3, <3>1, <3>2 DEF gettimeout, Return, TypeOK, EnterInv, WaitEndsOnTime, NeverEarly
    <3>3. CASE ~Expired(TimeLeft(end))
      <4>1. TimeLeft(end) \in timeval
        BY <3>1, <3>3 DEF Expired, timeval
      <4>2. /\ timeout' = TimeLeft(end) /\ slack' = 0 /\ pc' = "enter"
            /\ UNCHANGED <<now, ready, fd, end, wake, ret>>
        BY <2>3, <3>3 DEF gettimeout
      <4>3. Micros(timeout') = Micros(end) - Micros(now)
        BY <3>1, <4>2
      <4> QED
        BY <2>0, <4>1, <4>2, <4>3 DEF TypeOK, EnterInv, WaitEndsOnTime, NeverEarly
    <3> QED
      BY <3>2, <3>3
  <2>4. CASE SelectBegins
    <3>1. /\ wake' = Micros(now) + Micros(timeout) /\ pc' = "select" /\ pc = "enter"
          /\ UNCHANGED <<now, ready, fd, end, timeout, slack, ret>>
      BY <2>4 DEF SelectBegins
    <3> QED
      BY <2>0, <3>1 DEF TypeOK, EnterInv, WaitEndsOnTime, NeverEarly
  <2>5. CASE SelectReady \/ SelectInterrupted
    BY <2>5 DEF SelectReady, SelectInterrupted, TypeOK, EnterInv, WaitEndsOnTime, NeverEarly
  <2>6. CASE SelectTimesOut
    <3>1. Micros(now) >= Micros(end)
      BY <2>0, <2>6 DEF SelectTimesOut, WaitEndsOnTime, TypeOK
    <3>2. pc' = "idle" /\ ret' = "ETIME" /\ UNCHANGED <<now, ready, fd, end, timeout, wake, slack>>
      BY <2>6 DEF SelectTimesOut, Return
    <3> QED
      BY <3>1, <3>2 DEF TypeOK, EnterInv, WaitEndsOnTime, NeverEarly
  <2>7. CASE ReadReturns("data") \/ ReadReturns("error")
    <3>1. ready' \in BOOLEAN
      BY <2>7 DEF ReadReturns
    <3> QED
      BY <2>7, <3>1 DEF ReadReturns, Return, TypeOK, EnterInv, WaitEndsOnTime, NeverEarly
  <2>8. CASE DataArrives
    <3>1. ready' \in BOOLEAN
      BY <2>8 DEF DataArrives
    <3> QED
      BY <2>8, <3>1 DEF DataArrives, TypeOK, EnterInv, WaitEndsOnTime, NeverEarly
  <2>9. CASE Tick
    <3>1. now' \in timeval /\ Micros(now') = Micros(now) + 1
      BY <2>0, <2>9, ClockTicks
    <3>2. /\ slack' = IF pc = "enter" THEN slack + 1 ELSE slack
          /\ UNCHANGED <<ready, pc, fd, end, timeout, wake, ret>>
      BY <2>9 DEF Tick
    <3> QED
      BY <2>0, <3>1, <3>2 DEF TypeOK, EnterInv, WaitEndsOnTime, NeverEarly
  <2>10. CASE UNCHANGED vars
    BY <2>10 DEF vars, TypeOK, EnterInv, WaitEndsOnTime, NeverEarly
  <2> QED
    BY <2>1, <2>2, <2>3, <2>4, <2>5, <2>6, <2>7, <2>8, <2>9, <2>10 DEF Next, waitfdtimed
<1> QED
  BY <1>1, <1>2, PTL DEF Spec

\* Every variable keeps its type: select is never given a tv_usec out of
\* range, nor a negative timeout.
THEOREM TypeCorrect == Spec => []TypeOK
  BY Invariance, PTL DEF IInv

\* readtimed never reports ETIME before the time asked for, whatever signals
\* interrupt it.
THEOREM TimedReadNeverEarly == Spec => []NeverEarly
  BY Invariance, PTL DEF IInv

\* However often select is interrupted, it is set to end at the time asked
\* for: only the gap between gettimeout and select can delay it.
THEOREM InterruptionsDoNotAddUp == Spec => []WaitEndsOnTime
  BY Invariance, PTL DEF IInv
=============================================================================
