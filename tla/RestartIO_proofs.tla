-------------------------- MODULE RestartIO_proofs --------------------------
(***************************************************************************)
(* Proofs about RestartIO, for every stream, block size and buffer size.   *)
(***************************************************************************)
EXTENDS RestartIO, TLAPS

(***************************************************************************)
(* The inductive invariant.  OrderInv holds at every moment; each of the   *)
(* others says where one of the loops is when it makes a system call, and  *)
(* the last what is true when a call has returned.                         *)
(***************************************************************************)
Places ==
    /\ pc = "r_read" => fn \in CopyFns
    /\ pc = "r_write" => fn \in TransferFns
    /\ pc = "readblock" => fn \in BlockFns
    /\ pc = "readline" => fn = "readline"
    /\ fn \in CopyFns => cap = BLKSIZE
    /\ fn # "copyfile" => copied = 0
    /\ pc # "idle" => ~failed

OrderInv ==
    /\ start <= pos /\ pos <= arrived
    /\ ostart <= nsent /\ ostart <= start
    /\ nsent - ostart <= pos - start
    /\ copied <= nsent - ostart
    /\ fn \in TransferFns => \A j \in 1 .. nsent - ostart : sent[ostart + j] = start + j
    /\ fn \notin TransferFns => nsent = ostart

\* copyfile's count of m bytes, as long as an int can hold it
Counted(m) == pos - start <= INT_MAX => copied = m

ReadInv ==
    pc = "r_read" =>
        /\ pos - start = nsent - ostart /\ Counted(pos - start)
        /\ fn # "copyfile" => pos = start

WriteInv ==
    pc = "r_write" =>
        /\ off = total /\ total + left = Block /\ Block <= cap
        /\ fn \in CopyFns => bytesread > 0
        /\ pos - start = (nsent - ostart) + left
        /\ copied + total <= nsent - ostart
        /\ fn # "copyfile" => pos - start = Block
        /\ Counted(pos - start - Block)
        /\ \A i \in 0 .. Block - 1 : buf[i] = pos - Block + i + 1

BlockInv ==
    pc = "readblock" =>
        /\ off = total /\ total + left = cap
        /\ pos - start = total /\ nsent = ostart
        /\ \A i \in 0 .. total - 1 : buf[i] = start + i + 1

LineInv ==
    pc = "readline" =>
        /\ pos - start = off
        /\ \A i \in 0 .. off - 1 : buf[i] = start + i + 1 /\ buf[i] \notin Newlines

IInv == TypeOK /\ Places /\ OrderInv /\ ReadInv /\ WriteInv /\ BlockInv /\ LineInv /\ ReturnsExact

\* An int is never more than the number put into it, as long as that is not
\* below all ints, and it is that number if that is one.
LEMMA ToIntIs ==
    ASSUME NEW x \in Int, x >= -INT_MAX - 1
    PROVE  /\ ToInt(x) \in -INT_MAX - 1 .. INT_MAX
           /\ ToInt(x) <= x
           /\ x <= INT_MAX => ToInt(x) = x
<1> USE ConstantsAssumption
<1>1. CASE x \in -INT_MAX - 1 .. INT_MAX
  BY <1>1 DEF ToInt
<1>2. CASE x \notin -INT_MAX - 1 .. INT_MAX
  <2> DEFINE y == x + INT_MAX + 1
             w == 2 * INT_MAX + 2
  <2>1. y \in Nat /\ w \in Nat \ {0} /\ x > INT_MAX
    BY <1>2
  <2>2. y % w \in 0 .. w - 1
    <3> HIDE DEF y, w
    <3> QED
      BY <2>1
  <2>3. y % w < w /\ w <= y
    BY <2>1, <2>2
  <2>4. ToInt(x) = (y % w) - INT_MAX - 1
    BY <1>2 DEF ToInt
  <2> QED
    BY <1>2, <2>1, <2>2, <2>3, <2>4
<1> QED
  BY <1>1, <1>2

LEMMA CallStep ==
    ASSUME IInv, NEW f \in Fns, NEW n \in Sizes \cup {BLKSIZE}, Call(f, n)
    PROVE  IInv'
<1> USE ConstantsAssumption
<1>1. n \in Nat /\ f \in Fns
  OBVIOUS
<1>2. TypeOK'
  <2>1. closed' \in BOOLEAN /\ failed' \in BOOLEAN
    BY DEF IInv, TypeOK, Call, peer
  <2>2. sent' \in [1 .. nsent' -> 0 .. Stream]
    BY DEF IInv, TypeOK, Call, output
  <2>3. buf' \in [0 .. cap' - 1 -> 0 .. Stream]
    BY <1>1 DEF Call
  <2>4. pc' \in {"idle", "r_read", "r_write", "readblock", "readline"} /\ fn' \in Fns
    BY <1>1 DEF Call, Loop
  <2> QED
    BY <1>1, <2>1, <2>2, <2>3, <2>4 DEF IInv, TypeOK, Call, Loop, peer, output
<1>3. Places' /\ OrderInv'
  BY <1>1 DEF IInv, TypeOK, Places, OrderInv, Call, Loop, peer, output, Fns, BlockFns, CopyFns, TransferFns
<1>4. ReadInv' /\ WriteInv' /\ BlockInv' /\ LineInv'
  BY <1>1 DEF IInv, TypeOK, OrderInv, ReadInv, WriteInv, BlockInv, LineInv, Counted, Call, Loop, peer, output, Fns, BlockFns, CopyFns
<1>5. ReturnsExact'
  BY <1>1 DEF ReturnsExact, TransferExact, CopyfileCounts, BlockWhole, LineExact, Call, Loop, Fns, BlockFns, CopyFns
<1> QED
  BY <1>2, <1>3, <1>4, <1>5 DEF IInv

\* The peer sends or closes, or a system call is interrupted.
LEMMA PeerStep ==
    ASSUME IInv, Send \/ Close \/ UNCHANGED vars
    PROVE  IInv'
<1> USE ConstantsAssumption
<1>1. UNCHANGED <<pos, output, pc, args, buf, loop, bytesread, copied, ret, failed>>
  BY DEF Send, Close, vars
<1>2. /\ arrived' \in 0 .. Stream /\ closed' \in BOOLEAN /\ arrived <= arrived'
      /\ closed => closed' /\ arrived' = arrived
  <2>1. CASE Send
    BY <2>1 DEF Send, IInv, TypeOK
  <2>2. CASE Close
    BY <2>2 DEF Close, IInv, TypeOK
  <2>3. CASE UNCHANGED vars
    BY <2>3 DEF vars, peer, IInv, TypeOK
  <2> QED
    BY <2>1, <2>2, <2>3
<1> USE <1>1, <1>2 DEF IInv, output, args, loop
<1>3. TypeOK'
  BY DEF TypeOK
<1>4. Places' /\ OrderInv'
  BY DEF TypeOK, Places, OrderInv
<1>5. ReadInv' /\ WriteInv' /\ BlockInv' /\ LineInv'
  BY DEF ReadInv, WriteInv, BlockInv, LineInv, Counted, Block
<1>6. ReturnsExact'
  BY DEF ReturnsExact, TransferExact, CopyfileCounts, BlockWhole, LineExact
<1> QED
  BY <1>3, <1>4, <1>5, <1>6

\* A call returns without a system call that moved bytes.
LEMMA ReturnStep ==
    ASSUME IInv, pc # "idle", NEW v \in Int, Return(v), failed' \in BOOLEAN,
           UNCHANGED <<peer, pos, output, args, buf, bytesread>>,
           ReturnsExact'
    PROVE  IInv'
<1> USE DEF IInv, Return, peer, output, args, loop
<1>1. TypeOK'
  BY DEF TypeOK
<1>2. Places' /\ OrderInv'
  BY DEF Places, OrderInv
<1>3. ReadInv' /\ WriteInv' /\ BlockInv' /\ LineInv'
  BY DEF ReadInv, WriteInv, BlockInv, LineInv, Counted
<1> QED
  BY <1>1, <1>2, <1>3

-----------------------------------------------------------------------------
(* r_read and r_write *)

LEMMA ReadStep ==
    ASSUME IInv, r_read
    PROVE  IInv'
<1> USE ConstantsAssumption
<1>0. pc = "r_read" /\ fn \in CopyFns /\ cap = BLKSIZE /\ ~failed
  BY DEF r_read, IInv, Places
<1>a. UNCHANGED <<peer, output, args>>
  BY DEF r_read
<1>1. ASSUME NEW k \in 1 .. BLKSIZE, read_gets(0, BLKSIZE, k), bytesread' = k,
             Loop("r_write", k), UNCHANGED <<copied, ret, failed>>
      PROVE  IInv'
  <2> USE <1>0, <1>a, <1>1 DEF IInv, peer, output, args, Loop
  <2>1. /\ pos' = pos + k /\ pos + k <= arrived
        /\ buf' \in [0 .. cap - 1 -> 0 .. Stream]
        /\ \A i \in 0 .. k - 1 : buf'[i] = pos + 1 + i
    BY DEF read_gets, TypeOK
  <2>2. TypeOK'
    BY <2>1 DEF TypeOK
  <2>3. Places' /\ OrderInv'
    BY <2>1 DEF Places, OrderInv, TypeOK, CopyFns, TransferFns
  <2>4. ReadInv' /\ WriteInv' /\ BlockInv' /\ LineInv'
    <3>1. /\ pos - start = nsent - ostart /\ copied <= nsent - ostart
          /\ pos - start <= INT_MAX => copied = pos - start
          /\ fn # "copyfile" => pos = start
      BY DEF ReadInv, Counted, OrderInv
    <3>2. /\ Block' = k /\ pc' = "r_write" /\ off' = 0 /\ total' = 0 /\ left' = k
          /\ UNCHANGED <<nsent, ostart, start, copied, fn, cap>>
      BY DEF Block, CopyFns
    <3>3. WriteInv'
      BY <2>1, <3>1, <3>2 DEF WriteInv, Counted, TypeOK
    <3> QED
      BY <3>2, <3>3 DEF ReadInv, BlockInv, LineInv
  <2>5. ReturnsExact'
    BY DEF ReturnsExact, TransferExact, CopyfileCounts, BlockWhole, LineExact
  <2> QED
    BY <2>2, <2>3, <2>4, <2>5
<1>2. CASE read_end /\ readwrite_returns(0) /\ UNCHANGED <<pos, buf, bytesread, failed>>
  <2>1. PICK v \in {0, copied} : Return(v) /\ (fn = "copyfile" => v = copied) /\ (fn = "readwrite" => v = 0)
    BY <1>2, <1>0 DEF readwrite_returns
  <2>2. v \in Int
    BY DEF IInv, TypeOK
  <2>4. /\ pos - start = nsent - ostart /\ copied <= nsent - ostart
        /\ pos - start <= INT_MAX => copied = pos - start
        /\ fn = "readwrite" => pos = start
    BY <1>0 DEF IInv, ReadInv, Counted, OrderInv
  <2>5. /\ pc' = "idle" /\ ret' = v /\ closed' /\ pos' = arrived' /\ ~failed'
        /\ UNCHANGED <<fn, cap, start, ostart, pos, nsent>>
    BY <1>0, <1>a, <1>2, <2>1 DEF Return, read_end, peer, output, args
  <2>6. TransferExact' /\ BlockWhole' /\ LineExact'
    BY <1>0, <2>1, <2>4, <2>5 DEF IInv, TypeOK, TransferExact, BlockWhole, LineExact, CopyFns
  <2>7. CopyfileCounts'
    BY <1>0, <2>1, <2>4, <2>5 DEF IInv, TypeOK, CopyfileCounts
  <2>3. ReturnsExact'
    BY <2>6, <2>7 DEF ReturnsExact
  <2> QED
    BY <1>0, <1>a, <1>2, <2>1, <2>2, <2>3, ReturnStep DEF IInv, TypeOK
<1>3. CASE failed' = TRUE /\ readwrite_returns(-1) /\ UNCHANGED <<pos, buf, bytesread>>
  <2>1. PICK v \in {-1, copied} : Return(v) /\ (fn = "copyfile" => v = copied) /\ (fn = "readwrite" => v = -1)
    BY <1>3, <1>0 DEF readwrite_returns
  <2>2. v \in Int
    BY DEF IInv, TypeOK
  <2>3. ReturnsExact'
    BY <1>0, <1>a, <1>3, <2>1 DEF Return, ReturnsExact, TransferExact, CopyfileCounts, BlockWhole, LineExact,
       IInv, ReadInv, Counted, OrderInv, TypeOK, CopyFns, peer, output, args
  <2> QED
    BY <1>0, <1>a, <1>3, <2>1, <2>2, <2>3, ReturnStep DEF IInv, TypeOK
<1> QED
  BY <1>1, <1>2, <1>3 DEF r_read

LEMMA WriteStep ==
    ASSUME IInv, r_write
    PROVE  IInv'
<1> USE ConstantsAssumption
<1>0. pc = "r_write" /\ fn \in TransferFns /\ ~failed /\ UNCHANGED <<peer, pos, args, buf, bytesread>>
  BY DEF r_write, IInv, Places
<1>b. Block \in Nat /\ Block <= cap /\ off = total /\ total + left = Block /\ pos - start = (nsent - ostart) + left
  BY <1>0 DEF IInv, WriteInv, TypeOK, Block
<1>1. CASE WriteSome
  <2>0. PICK k \in 1 .. left : /\ write_takes(left, k)
                              /\ off' = off + k /\ left' = left - k /\ total' = total + k
    BY <1>1 DEF WriteSome
  <2>a. UNCHANGED <<pc, copied, ret, failed>>
    BY <1>1 DEF WriteSome
  <2>1. nsent' = nsent + k /\ sent' \in [1 .. nsent + k -> 0 .. Stream]
    BY <1>0, <1>b, <2>0 DEF write_takes, IInv, TypeOK
  <2>2. /\ \A j \in 1 .. nsent : sent'[j] = sent[j]
        /\ \A i \in 1 .. k : sent'[nsent + i] = buf[off + i - 1]
    BY <2>0 DEF write_takes, IInv, TypeOK
  <2>3. \A i \in 1 .. k : sent'[nsent + i] = pos - left + i
    <3> SUFFICES ASSUME NEW i \in 1 .. k PROVE sent'[nsent + i] = pos - left + i
      OBVIOUS
    <3>1. off + i - 1 \in 0 .. Block - 1 /\ pos - Block + (off + i - 1) + 1 = pos - left + i
      BY <1>b, <2>0 DEF IInv, TypeOK
    <3>2. buf[off + i - 1] = pos - Block + (off + i - 1) + 1
      BY <1>0, <3>1 DEF IInv, WriteInv
    <3> QED
      BY <2>2, <3>1, <3>2
  <2>4. nsent' - ostart <= pos - start /\ nsent' <= Stream
    BY <1>0, <1>b, <2>0, <2>1 DEF IInv, WriteInv, OrderInv, TypeOK
  <2>5. \A j \in 1 .. nsent' - ostart : sent'[ostart + j] = start + j
    <3> SUFFICES ASSUME NEW j \in 1 .. nsent' - ostart PROVE sent'[ostart + j] = start + j
      OBVIOUS
    <3>1. CASE ostart + j <= nsent
      BY <1>0, <2>2, <3>1 DEF IInv, OrderInv, TypeOK
    <3>2. CASE ostart + j > nsent
      <4>1. /\ ostart + j - nsent \in 1 .. k
            /\ nsent + (ostart + j - nsent) = ostart + j
            /\ pos - left + (ostart + j - nsent) = start + j
        BY <1>b, <2>1, <3>2, <2>0 DEF IInv, TypeOK
      <4> QED
        BY <2>3, <4>1
    <3> QED
      BY <3>1, <3>2 DEF IInv, TypeOK
  <2> USE <1>0, <2>0, <2>a DEF IInv, peer, args
  <2>6. TypeOK'
    BY <1>b, <2>1, <2>4 DEF TypeOK
  <2>7. Places' /\ OrderInv'
    BY <2>1, <2>4, <2>5 DEF Places, OrderInv, TypeOK
  <2>8. ReadInv' /\ WriteInv' /\ BlockInv' /\ LineInv'
    BY <1>b, <2>1 DEF ReadInv, WriteInv, BlockInv, LineInv, Counted, Block, TypeOK
  <2>9. ReturnsExact'
    BY DEF ReturnsExact, TransferExact, CopyfileCounts, BlockWhole, LineExact
  <2> QED
    BY <2>6, <2>7, <2>8, <2>9
<1>2. CASE WriteFails
  <2>1. PICK v \in {-1, copied} : Return(v) /\ (fn = "copyfile" => v = copied) /\ (fn # "copyfile" => v = -1)
    BY <1>2, <1>0 DEF WriteFails, r_write_returns, readwrite_returns, CopyFns, TransferFns
  <2>2. v \in Int
    BY DEF IInv, TypeOK
  <2>4. /\ pc' = "idle" /\ ret' = v /\ failed' /\ UNCHANGED <<fn, cap, start, ostart, pos, nsent>>
    BY <1>0, <1>2, <2>1 DEF WriteFails, Return, output, args
  <2>5. TransferExact' /\ BlockWhole' /\ LineExact'
    BY <1>0, <2>1, <2>4 DEF TransferExact, BlockWhole, LineExact, CopyFns, TransferFns
  <2>6. /\ copied <= nsent - ostart /\ (fn = "copyfile" => total < BLKSIZE)
        /\ pos - start <= INT_MAX => copied = pos - start - Block
    BY <1>0, <1>b, <1>2 DEF WriteFails, IInv, WriteInv, Counted, OrderInv, Places, TypeOK, CopyFns
  <2>7. left > 0 /\ left \in Nat
    BY <1>2 DEF WriteFails, IInv, TypeOK
  <2>8. CopyfileCounts'
    BY <1>b, <2>1, <2>4, <2>6, <2>7 DEF IInv, OrderInv, TypeOK, CopyfileCounts
  <2>3. ReturnsExact'
    BY <2>5, <2>8 DEF ReturnsExact
  <2> QED
    BY <1>0, <1>2, <2>1, <2>2, <2>3, ReturnStep DEF IInv, TypeOK, WriteFails
<1>3. CASE left = 0 /\ r_write_returns(total) /\ UNCHANGED <<output, failed>>
  <2>0. total = Block /\ pos - start = nsent - ostart /\ (fn # "copyfile" => pos - start = Block)
    BY <1>0, <1>b, <1>3 DEF IInv, WriteInv, TypeOK
  <2>1. CASE fn # "copyfile"
    <3>1. Return(total) /\ copied = 0
      BY <1>0, <1>3, <2>0, <2>1 DEF r_write_returns, readwrite_returns, CopyFns, TransferFns, Block, IInv, TypeOK, Places
    <3>2. total \in Int
      BY <2>0, <3>1 DEF IInv, OrderInv, TypeOK
    <3>3. ReturnsExact'
      BY <1>0, <1>3, <2>0, <2>1, <3>1 DEF Return, ReturnsExact, TransferExact, CopyfileCounts, BlockWhole, LineExact,
         IInv, TypeOK, CopyFns, TransferFns, Block, peer, output, args
    <3> QED
      BY <1>0, <1>3, <3>1, <3>2, <3>3, ReturnStep DEF IInv, TypeOK
  <2>2. CASE fn = "copyfile"
    <3>1. /\ copied' = ToInt(copied + total) /\ Loop("r_read", BLKSIZE) /\ UNCHANGED ret
      BY <1>0, <1>3, <2>0, <2>2 DEF r_write_returns, readwrite_returns, CopyFns, Block, IInv, TypeOK, WriteInv
    <3> USE <1>0, <1>3, <2>2, <3>1 DEF IInv, peer, output, args, Loop
    <3>2. /\ cap = BLKSIZE /\ copied + total <= nsent - ostart
          /\ pos - start <= INT_MAX => copied + total = pos - start
      BY <2>0 DEF WriteInv, Counted, TypeOK, Places, CopyFns
    <3>7. copied + total \in Int /\ copied + total >= -INT_MAX - 1
      BY DEF TypeOK
    <3>8. /\ copied' \in -INT_MAX - 1 .. INT_MAX /\ copied' <= copied + total
          /\ copied + total <= INT_MAX => copied' = copied + total
      BY <3>7, ToIntIs
    <3>3. TypeOK'
      BY <3>2, <3>8 DEF TypeOK
    <3>4. Places' /\ OrderInv'
      BY <2>0, <3>2, <3>7, <3>8 DEF Places, OrderInv, TypeOK, CopyFns, TransferFns
    <3>5. ReadInv' /\ WriteInv' /\ BlockInv' /\ LineInv'
      BY <2>0, <3>2, <3>8 DEF ReadInv, WriteInv, BlockInv, LineInv, Counted, TypeOK
    <3>6. ReturnsExact'
      BY DEF ReturnsExact, TransferExact, CopyfileCounts, BlockWhole, LineExact
    <3> QED
      BY <3>3, <3>4, <3>5, <3>6
  <2> QED
    BY <2>1, <2>2
<1> QED
  BY <1>1, <1>2, <1>3 DEF r_write

-----------------------------------------------------------------------------
(* readblock and readline *)

LEMMA BlockStep ==
    ASSUME IInv, readblock
    PROVE  IInv'
<1> USE ConstantsAssumption
<1>0. pc = "readblock" /\ fn \in BlockFns /\ ~failed /\ UNCHANGED <<peer, output, args, bytesread>>
  BY DEF readblock, IInv, Places
<1>b. /\ off = total /\ total + left = cap /\ pos - start = total /\ nsent = ostart /\ copied = 0
      /\ \A i \in 0 .. total - 1 : buf[i] = start + i + 1
      /\ cap \in Nat /\ total \in Nat /\ left \in Nat /\ pos \in Nat /\ start \in Nat
  BY <1>0 DEF IInv, BlockInv, TypeOK, Places, BlockFns
<1>1. CASE BlockSome
  <2>0. PICK k \in 1 .. left : /\ read_gets(off, left, k)
                              /\ off' = off + k /\ left' = left - k /\ total' = total + k
    BY <1>1 DEF BlockSome
  <2>a. UNCHANGED <<pc, copied, ret, failed>>
    BY <1>1 DEF BlockSome
  <2>1. /\ pos' = pos + k /\ pos + k <= arrived
        /\ buf' \in [0 .. cap - 1 -> 0 .. Stream]
        /\ \A i \in 0 .. total + k - 1 :
              buf'[i] = IF total <= i THEN pos + 1 + i - total ELSE buf[i]
    BY <1>b, <2>0 DEF read_gets, IInv, TypeOK
  <2>2. \A i \in 0 .. total + k - 1 : buf'[i] = start + i + 1
    BY <1>b, <2>0, <2>1
  <2> USE <1>0, <1>b, <2>0, <2>a DEF IInv, peer, output, args
  <2>3. TypeOK'
    BY <2>1 DEF TypeOK
  <2>4. Places' /\ OrderInv'
    BY <2>1 DEF Places, OrderInv, TypeOK
  <2>5. ReadInv' /\ WriteInv' /\ BlockInv' /\ LineInv'
    BY <2>1, <2>2 DEF ReadInv, WriteInv, BlockInv, LineInv, Counted, TypeOK
  <2>6. ReturnsExact'
    BY DEF ReturnsExact, TransferExact, CopyfileCounts, BlockWhole, LineExact
  <2> QED
    BY <2>3, <2>4, <2>5, <2>6
<1>2. CASE BlockEnd \/ BlockFails
  <2>1. PICK v \in {0, -1} : readblock_returns(v) /\ left > 0 /\ (v = 0 => total = 0 /\ ~failed')
    BY <1>0, <1>2 DEF BlockEnd, BlockFails
  <2>2. Return(v)
    BY <1>0, <1>b, <2>1 DEF readblock_returns, BlockFns
  <2>3. UNCHANGED <<pos, buf>> /\ failed' \in BOOLEAN
    BY <1>2 DEF BlockEnd, BlockFails, IInv, TypeOK
  <2>4. ReturnsExact'
    <3>1. /\ pc' = "idle" /\ ret' = v /\ fn' = fn /\ cap' = cap /\ start' = start /\ pos' = pos
          /\ nsent' = nsent /\ ostart' = ostart /\ cap > 0
      BY <1>0, <1>b, <2>1, <2>2, <2>3 DEF Return, output, args
    <3>2. v >= 0 => ~failed' /\ v = 0 /\ pos - start = 0 /\ nsent - ostart = 0
      BY <1>b, <2>1 DEF IInv, TypeOK
    <3>3. v # cap
      BY <1>b, <3>1
    <3> QED
      BY <1>0, <3>1, <3>2, <3>3 DEF ReturnsExact, TransferExact, CopyfileCounts, BlockWhole, LineExact, BlockFns
  <2>5. v \in Int
    OBVIOUS
  <2> QED
    BY <1>0, <2>2, <2>3, <2>4, <2>5, ReturnStep
<1>3. CASE left = 0 /\ readblock_returns(total) /\ UNCHANGED <<pos, buf, failed>>
  <2>1. CASE fn = "readblock"
    <3>1. Return(total)
      BY <1>3, <2>1 DEF readblock_returns
    <3>2. total \in Int
      BY <1>b DEF IInv, TypeOK
    <3>3. ReturnsExact'
      BY <1>0, <1>b, <1>3, <2>1, <3>1 DEF Return, ReturnsExact, TransferExact, CopyfileCounts, BlockWhole, LineExact,
         peer, output, args
    <3> QED
      BY <1>0, <1>3, <3>1, <3>2, <3>3, ReturnStep DEF IInv, TypeOK
  <2>2. CASE fn = "readwriteblock"
    <3>1. Loop("r_write", cap) /\ UNCHANGED <<copied, ret>>
      BY <1>b, <1>3, <2>2 DEF readblock_returns
    <3> USE <1>0, <1>b, <1>3, <2>2, <3>1 DEF IInv, peer, output, args, Loop
    <3>2. TypeOK'
      BY DEF TypeOK
    <3>3. Places' /\ OrderInv'
      BY DEF Places, OrderInv, TypeOK, CopyFns, TransferFns
    <3>4. ReadInv' /\ WriteInv' /\ BlockInv' /\ LineInv'
      <4>1. Block' = cap /\ pc' = "r_write" /\ fn' \notin CopyFns
        BY DEF Block, CopyFns
      <4>2. total = cap /\ buf' = buf /\ copied' = 0 /\ pos' = pos /\ start' = start /\ nsent' = nsent /\ ostart' = ostart
        OBVIOUS
      <4>3. WriteInv'
        BY <4>1, <4>2 DEF WriteInv, Counted, TypeOK
      <4> QED
        BY <4>1, <4>3 DEF ReadInv, BlockInv, LineInv
    <3>5. ReturnsExact'
      BY DEF ReturnsExact, TransferExact, CopyfileCounts, BlockWhole, LineExact
    <3> QED
      BY <3>2, <3>3, <3>4, <3>5
  <2> QED
    BY <1>0, <2>1, <2>2 DEF BlockFns
<1> QED
  BY <1>1, <1>2, <1>3 DEF readblock

LEMMA LineStep ==
    ASSUME IInv, readline
    PROVE  IInv'
<1> USE ConstantsAssumption
<1>0. pc = "readline" /\ fn = "readline" /\ ~failed /\ UNCHANGED <<peer, output, args, bytesread>>
  BY DEF readline, IInv, Places
<1>b. /\ pos - start = off /\ nsent = ostart /\ copied = 0
      /\ \A i \in 0 .. off - 1 : buf[i] = start + i + 1 /\ buf[i] \notin Newlines
      /\ cap \in Nat /\ off \in Nat /\ pos \in Nat /\ start \in Nat
  BY <1>0 DEF IInv, LineInv, OrderInv, TypeOK, Places, TransferFns, CopyFns
<1>1. CASE LineByte
  <2> USE <1>0, <1>b DEF IInv, peer, output, args
  <2>0. /\ off < cap - 1 /\ pos < arrived /\ pos' = pos + 1 /\ off' = off + 1
        /\ UNCHANGED <<left, total, copied, failed>>
    BY <1>1 DEF LineByte
  <2>1. /\ buf' \in [0 .. cap - 1 -> 0 .. Stream]
        /\ buf'[off] = pos + 1
        /\ \A i \in 0 .. off - 1 : buf'[i] = buf[i]
    <3>1. buf \in [0 .. cap - 1 -> 0 .. Stream] /\ pos + 1 \in 0 .. Stream /\ off \in 0 .. cap - 1 /\ off + 1 \in 0 .. cap - 1
      BY <2>0 DEF TypeOK
    <3>2. \/ buf' = [buf EXCEPT ![off] = pos + 1, ![off + 1] = 0]
          \/ buf' = [buf EXCEPT ![off] = pos + 1]
      BY <1>1 DEF LineByte
    <3> HIDE <1>b, <1>0
    <3>3. off \in Nat /\ pos \in Nat /\ cap \in Nat
      BY <1>b
    <3> QED
      BY <3>1, <3>2, <3>3
  <2>5. \A i \in 0 .. off : buf'[i] = start + i + 1
    <3> SUFFICES ASSUME NEW i \in 0 .. off PROVE buf'[i] = start + i + 1
      OBVIOUS
    <3>1. CASE i = off
      BY <2>1, <3>1
    <3>2. CASE i # off
      BY <2>1, <3>2
    <3> QED
      BY <3>1, <3>2
  <2>2. OrderInv'
    BY <2>0 DEF OrderInv, TypeOK, CopyFns, TransferFns
  <2>3. CASE pos + 1 \in Newlines
    <3>1. pc' = "idle" /\ ret' = off + 1 /\ buf'[off + 1] = 0
      BY <1>1, <2>0, <2>3 DEF LineByte, TypeOK
    <3>2. off + 1 <= Stream
      BY <2>0 DEF TypeOK
    <3>3. TypeOK'
      <4>1. buf' \in [0 .. cap' - 1 -> 0 .. Stream] /\ cap' = cap
        BY <2>1
      <4>2. pc' = "idle" /\ ret' \in Int /\ off' \in 0 .. cap' /\ pos' \in 0 .. Stream
        BY <2>0, <3>1, <3>2 DEF TypeOK
      <4> QED
        BY <2>0, <4>1, <4>2 DEF TypeOK
    <3>6. Places'
      BY <2>0, <3>1 DEF Places, CopyFns
    <3>4. ReadInv' /\ WriteInv' /\ BlockInv' /\ LineInv'
      BY <3>1 DEF ReadInv, WriteInv, BlockInv, LineInv, Counted
    <3>5. ReturnsExact'
      <4>1. /\ ret' > 0 /\ ret' < cap' /\ pos' - start' = ret' /\ fn' = "readline" /\ buf'[ret'] = 0
        BY <2>0, <3>1
      <4>2. \A i \in 0 .. ret' - 1 : buf'[i] = start' + i + 1
        BY <2>0, <2>5, <3>1
      <4>3. \A i \in 0 .. ret' - 1 : buf'[i] \in Newlines <=> i = ret' - 1
        BY <2>0, <2>1, <2>3, <3>1
      <4> QED
        BY <4>1, <4>2, <4>3 DEF ReturnsExact, TransferExact, CopyfileCounts, BlockWhole, LineExact
    <3> QED
      BY <2>2, <3>3, <3>4, <3>5, <3>6
  <2>4. CASE pos + 1 \notin Newlines
    <3>1. UNCHANGED <<pc, ret>>
      BY <1>1, <2>4 DEF LineByte
    <3>2. TypeOK' /\ Places'
      BY <2>0, <2>1, <3>1 DEF TypeOK, Places, CopyFns
    <3>3. ReadInv' /\ WriteInv' /\ BlockInv' /\ LineInv'
      <4>1. \A i \in 0 .. off' - 1 : buf'[i] = start' + i + 1 /\ buf'[i] \notin Newlines
        <5> SUFFICES ASSUME NEW i \in 0 .. off PROVE buf'[i] = start + i + 1 /\ buf'[i] \notin Newlines
          BY <2>0
        <5>1. CASE i = off
          BY <2>1, <2>4, <2>5, <5>1
        <5>2. CASE i # off
          <6>1. i \in 0 .. off - 1
            BY <5>2
          <6>2. buf'[i] = buf[i] /\ buf[i] \notin Newlines
            BY <2>1, <6>1
          <6> QED
            BY <2>5, <6>2
        <5> QED
          BY <5>1, <5>2
      <4> QED
        BY <2>0, <3>1, <4>1 DEF ReadInv, WriteInv, BlockInv, LineInv, Counted
    <3>4. ReturnsExact'
      BY <3>1 DEF ReturnsExact, TransferExact, CopyfileCounts, BlockWhole, LineExact
    <3> QED
      BY <2>2, <3>2, <3>3, <3>4
  <2> QED
    BY <2>3, <2>4
<1>2. CASE LineEnd \/ LineFails \/ (off >= cap - 1 /\ Return(-1) /\ UNCHANGED <<pos, buf, failed>>)
  <2>1. PICK v \in {0, -1} : Return(v) /\ (v = 0 => off = 0 /\ read_end)
    BY <1>2 DEF LineEnd, LineFails
  <2>2. UNCHANGED <<pos, buf>> /\ failed' \in BOOLEAN
    BY <1>2 DEF LineEnd, LineFails, IInv, TypeOK
  <2>3. ReturnsExact'
    BY <1>0, <1>b, <2>1, <2>2 DEF Return, ReturnsExact, TransferExact, CopyfileCounts, BlockWhole, LineExact,
       read_end, peer, output, args
  <2>4. v \in Int
    OBVIOUS
  <2> QED
    BY <1>0, <2>1, <2>2, <2>3, <2>4, ReturnStep
<1> QED
  BY <1>1, <1>2 DEF readline

-----------------------------------------------------------------------------
LEMMA InitIInv == Init => IInv
<1> SUFFICES ASSUME Init PROVE IInv
  OBVIOUS
<1>1. TypeOK
  <2>1. sent \in [1 .. nsent -> 0 .. Stream] /\ buf \in [0 .. cap - 1 -> 0 .. Stream]
    BY ConstantsAssumption DEF Init
  <2>2. closed \in BOOLEAN /\ failed \in BOOLEAN /\ fn \in Fns \cup {"none"} /\ cap \in Sizes \cup {0, BLKSIZE}
    BY DEF Init
  <2> QED
    BY <2>1, <2>2, ConstantsAssumption DEF Init, TypeOK
<1>2. Places /\ OrderInv
  BY ConstantsAssumption DEF Init, Places, OrderInv, CopyFns, TransferFns
<1>3. ReadInv /\ WriteInv /\ BlockInv /\ LineInv /\ ReturnsExact
  BY DEF Init, ReadInv, WriteInv, BlockInv, LineInv, Counted, ReturnsExact, TransferExact, CopyfileCounts, BlockWhole, LineExact
<1> QED
  BY <1>1, <1>2, <1>3 DEF IInv

LEMMA NextIInv == IInv /\ [Next]_vars => IInv'
  BY CallStep, ReadStep, WriteStep, BlockStep, LineStep, PeerStep, ConstantsAssumption DEF Next, Step, Interrupted

LEMMA Invariance == Spec => []IInv
  BY InitIInv, NextIInv, PTL DEF Spec

\* The library's properties follow from the invariant.
LEMMA IInvImplies == IInv => WrittenInOrder /\ BufferBounds /\ ReturnsExact
<1> SUFFICES ASSUME IInv PROVE WrittenInOrder /\ BufferBounds /\ ReturnsExact
  OBVIOUS
<1>1. pc = "readblock" => off + left <= cap
  BY ConstantsAssumption DEF IInv, BlockInv, TypeOK
<1>2. ASSUME pc = "r_write", NEW i \in off .. off + left - 1
      PROVE  i < cap /\ buf[i] = pos - Block + i + 1
  <2>1. i \in 0 .. Block - 1 /\ Block <= cap /\ Block \in Nat /\ cap \in Nat
    BY <1>2, ConstantsAssumption DEF IInv, WriteInv, TypeOK, Block
  <2> QED
    BY <1>2, <2>1 DEF IInv, WriteInv
<1>3. WrittenInOrder
  BY DEF IInv, OrderInv, WrittenInOrder
<1> QED
  BY <1>1, <1>2, <1>3 DEF IInv, BufferBounds

\* Every variable keeps its type, whatever is called and however the system
\* calls end: in particular no offset passes the end of its buffer.
THEOREM TypeCorrect == Spec => []TypeOK
  BY Invariance, PTL DEF IInv

\* Whatever the stream, the block size and the interruptions, readwrite,
\* readwriteblock and copyfile write what they read, in order and once.
THEOREM TransfersKeepOrder == Spec => []WrittenInOrder
  BY IInvImplies, Invariance, PTL

\* No buffer is overrun and no byte is written that was not read first.
THEOREM BuffersAreSafe == Spec => []BufferBounds
  BY IInvImplies, Invariance, PTL

\* What readwrite, readwriteblock, copyfile, readblock and readline return
\* says exactly how much they moved.
THEOREM ReturnValuesAreExact == Spec => []ReturnsExact
  BY IInvImplies, Invariance, PTL
=============================================================================
