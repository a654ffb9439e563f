----------------------------- MODULE RestartIO -----------------------------
(***************************************************************************)
(* The transfer functions of restart_lib.h: readblock, readline,           *)
(* readwrite, readwriteblock and copyfile, with the r_read and r_write     *)
(* they are made of.                                                       *)
(*                                                                         *)
(* One process calls them on a descriptor it reads from, fed by a peer,    *)
(* and one it writes to.  A step is one read or write system call, which   *)
(* can be interrupted by a signal, fail, or move fewer bytes than asked    *)
(* for; read also waits for the peer and sees the end of file.             *)
(*                                                                         *)
(* Byte number k of the input is the number k; 0 is the byte '\0' that     *)
(* readline writes, and what a buffer holds before anything is in it.      *)
(***************************************************************************)
EXTENDS Integers

CONSTANTS
    Stream,         \* how many bytes the peer can send
    Newlines,       \* the numbers of the bytes that are '\n'
    BLKSIZE,        \* the size of the buffer of readwrite
    Sizes,          \* the buffer sizes that callers pass
    Calls,          \* the functions that are called
    INT_MAX         \* the largest int

BlockFns == {"readblock", "readwriteblock"}
CopyFns == {"readwrite", "copyfile"}
TransferFns == CopyFns \cup {"readwriteblock"}
Fns == BlockFns \cup CopyFns \cup {"readline"}

ASSUME ConstantsAssumption ==
    /\ Stream \in Nat
    /\ BLKSIZE \in Nat \ {0} /\ INT_MAX \in Nat
    /\ Sizes \subseteq Nat
    /\ Calls \subseteq Fns
    /\ Newlines \subseteq 1 .. Stream

VARIABLES
    arrived,    \* the number of bytes the peer has sent
    closed,     \* the peer has closed its end
    pos,        \* the number of bytes read from the input
    nsent,      \* the number of bytes written to the output
    sent,       \* sent[j]: byte j of the output
    pc,         \* "idle", or the loop that makes the next system call
    fn,         \* the function called last
    cap,        \* the size of the buffer it uses
    buf,        \* buf[i]: the byte at offset i of that buffer
    off,        \* bufp - buf (in readline: numread)
    left,       \* bytestoread or bytestowrite
    total,      \* totalbytes of readblock or r_write
    bytesread,  \* bytesread of readwrite
    copied,     \* totalbytes of copyfile
    ret,        \* what the last call returned
    failed,     \* auxiliary: a system call of this call failed, not with EINTR
    start,      \* auxiliary: pos when this call began
    ostart      \* auxiliary: nsent when this call began

peer == <<arrived, closed>>
output == <<nsent, sent>>
args == <<fn, cap, start, ostart>>
loop == <<off, left, total>>
vars == <<peer, pos, output, pc, args, buf, loop, bytesread, copied, ret, failed>>

TypeOK ==
    /\ arrived \in 0 .. Stream /\ closed \in BOOLEAN
    /\ pos \in 0 .. Stream
    /\ nsent \in 0 .. Stream /\ sent \in [1 .. nsent -> 0 .. Stream]
    /\ pc \in {"idle", "r_read", "r_write", "readblock", "readline"}
    /\ fn \in Fns \cup {"none"} /\ cap \in Sizes \cup {0, BLKSIZE}
    /\ buf \in [0 .. cap - 1 -> 0 .. Stream]
    /\ off \in 0 .. cap /\ left \in 0 .. cap /\ total \in 0 .. cap
    /\ bytesread \in 0 .. BLKSIZE
    /\ copied \in -INT_MAX - 1 .. INT_MAX
    /\ ret \in Int /\ failed \in BOOLEAN
    /\ start \in 0 .. Stream /\ ostart \in 0 .. Stream

Init ==
    /\ arrived = 0 /\ closed = FALSE
    /\ pos = 0 /\ nsent = 0 /\ sent = [j \in 1 .. 0 |-> 0]
    /\ pc = "idle" /\ fn = "none" /\ cap = 0
    /\ buf = [i \in 0 .. cap - 1 |-> 0]
    /\ off = 0 /\ left = 0 /\ total = 0 /\ bytesread = 0 /\ copied = 0
    /\ ret = 0 /\ failed = FALSE /\ start = 0 /\ ostart = 0

-----------------------------------------------------------------------------
(* The peer, and the system calls. *)

Send ==
    /\ ~closed /\ arrived < Stream
    /\ arrived' = arrived + 1
    /\ UNCHANGED <<closed, pos, output, pc, args, buf, loop, bytesread, copied, ret, failed>>

Close ==
    /\ ~closed /\ closed' = TRUE
    /\ UNCHANGED <<arrived, pos, output, pc, args, buf, loop, bytesread, copied, ret, failed>>

\* read(fd, buf + at, n) returns k > 0
read_gets(at, n, k) ==
    /\ k \in 1 .. n /\ pos + k <= arrived
    /\ pos' = pos + k
    /\ buf' = [i \in 0 .. cap - 1 |->
                IF at <= i /\ i < at + k THEN pos + 1 + i - at ELSE buf[i]]

\* read returns 0
read_end == closed /\ pos = arrived

\* write(fd, bufp, n) returns k: a descriptor that is ready takes some byte
write_takes(n, k) ==
    /\ k \in 1 .. n
    /\ nsent' = nsent + k
    /\ sent' = [j \in 1 .. nsent + k |-> IF j <= nsent THEN sent[j] ELSE buf[off + j - nsent - 1]]

-----------------------------------------------------------------------------
(* Calls and returns.                                                      *)

\* What becomes of x in an int: it wraps around.
ToInt(x) ==
    IF x \in -INT_MAX - 1 .. INT_MAX THEN x
    ELSE ((x + INT_MAX + 1) % (2 * INT_MAX + 2)) - INT_MAX - 1

Loop(label, n) ==
    /\ pc' = label
    /\ off' = 0 /\ left' = n /\ total' = 0

Return(v) ==
    /\ pc' = "idle" /\ ret' = v
    /\ UNCHANGED <<loop, copied>>

Call(f, n) ==
    /\ pc = "idle"
    /\ fn' = f
    /\ cap' = n
    /\ f \in CopyFns => n = BLKSIZE
    /\ \/ f \in BlockFns /\ Loop("readblock", n)
       \/ f \in CopyFns /\ Loop("r_read", n)
       \/ f = "readline" /\ Loop("readline", n)
    /\ start' = pos /\ ostart' = nsent
    /\ buf' = [i \in 0 .. n - 1 |-> 0]
    /\ bytesread' = 0 /\ copied' = 0 /\ ret' = 0 /\ failed' = FALSE
    /\ UNCHANGED <<peer, pos, output>>

\* Mutant: copyfile goes on after a readwrite that returned 0.
readwrite_returnsZero(v) ==
    \/ /\ fn = "copyfile" /\ v >= 0
       /\ copied' = ToInt(copied + v)
       /\ Loop("r_read", BLKSIZE)
       /\ UNCHANGED ret
    \/ fn = "copyfile" /\ v < 0 /\ Return(copied)
    \/ fn = "readwrite" /\ Return(v)

\* readwrite returns v, to its caller or into the loop of copyfile, which adds
\* it to an int.
readwrite_returns(v) ==
    \/ /\ fn = "copyfile" /\ v > 0
       /\ copied' = ToInt(copied + v)
       /\ Loop("r_read", BLKSIZE)
       /\ UNCHANGED ret
    \/ fn = "copyfile" /\ v <= 0 /\ Return(copied)
    \/ fn = "readwrite" /\ Return(v)

\* r_write returns v, to readwrite or to readwriteblock.
r_write_returns(v) ==
    \/ fn \in CopyFns /\ v < 0 /\ readwrite_returns(-1)
    \/ fn \in CopyFns /\ v >= 0 /\ readwrite_returns(bytesread)
    \/ fn = "readwriteblock" /\ Return(v)

\* readblock returns v, to its caller or to readwriteblock.
readblock_returns(v) ==
    \/ fn = "readwriteblock" /\ v = cap /\ Loop("r_write", cap) /\ UNCHANGED <<copied, ret>>
    \/ fn = "readwriteblock" /\ v # cap /\ Return(v)
    \/ fn = "readblock" /\ Return(v)

-----------------------------------------------------------------------------
\* Every function retries a call that a signal interrupted; nothing changes.
Interrupted == pc # "idle" /\ UNCHANGED vars

\* Mutant: the whole buffer is written, however few bytes were read.
r_readWritesAll ==
    /\ pc = "r_read"
    /\ \/ /\ \E k \in 1 .. BLKSIZE :
              /\ read_gets(0, BLKSIZE, k)
              /\ bytesread' = k
              /\ Loop("r_write", BLKSIZE)
          /\ UNCHANGED <<copied, ret, failed>>
       \/ /\ read_end
          /\ readwrite_returns(0)
          /\ UNCHANGED <<pos, buf, bytesread, failed>>
       \/ /\ failed' = TRUE
          /\ readwrite_returns(-1)
          /\ UNCHANGED <<pos, buf, bytesread>>
    /\ UNCHANGED <<peer, output, args>>

\* r_read, as readwrite calls it
r_read ==
    /\ pc = "r_read"
    /\ \/ /\ \E k \in 1 .. BLKSIZE :
              /\ read_gets(0, BLKSIZE, k)
              /\ bytesread' = k
              /\ Loop("r_write", k)
          /\ UNCHANGED <<copied, ret, failed>>
       \/ /\ read_end
          /\ readwrite_returns(0)
          /\ UNCHANGED <<pos, buf, bytesread, failed>>
       \/ /\ failed' = TRUE
          /\ readwrite_returns(-1)
          /\ UNCHANGED <<pos, buf, bytesread>>
    /\ UNCHANGED <<peer, output, args>>

\* Mutant: bufp is not advanced after a short write.
WriteSomeAgain ==
    /\ \E k \in 1 .. left :
        /\ write_takes(left, k)
        /\ left' = left - k /\ total' = total + k
    /\ UNCHANGED <<off, pc, copied, ret, failed>>

WriteSome ==
    /\ \E k \in 1 .. left :
        /\ write_takes(left, k)
        /\ off' = off + k /\ left' = left - k /\ total' = total + k
    /\ UNCHANGED <<pc, copied, ret, failed>>

WriteFails ==
    /\ left > 0 /\ failed' = TRUE
    /\ r_write_returns(-1)
    /\ UNCHANGED output

r_write ==
    /\ pc = "r_write"
    /\ \/ WriteSome
       \/ WriteFails
       \/ left = 0 /\ r_write_returns(total) /\ UNCHANGED <<output, failed>>
    /\ UNCHANGED <<peer, pos, args, buf, bytesread>>

BlockSome ==
    /\ \E k \in 1 .. left :
        /\ read_gets(off, left, k)
        /\ off' = off + k /\ left' = left - k /\ total' = total + k
    /\ UNCHANGED <<pc, copied, ret, failed>>

\* Mutant: a read that returns 0 is retried, as an interrupted one is.
BlockEndRetries ==
    /\ left > 0 /\ read_end
    /\ UNCHANGED <<pos, buf, failed, pc, loop, copied, ret>>

\* Mutant: readblock returns the bytes it has when the input ends.
BlockEndShort ==
    /\ left > 0 /\ read_end
    /\ readblock_returns(total)
    /\ UNCHANGED <<pos, buf, failed>>

BlockEnd ==
    /\ left > 0 /\ read_end
    /\ readblock_returns(IF total = 0 THEN 0 ELSE -1)
    /\ UNCHANGED <<pos, buf, failed>>

BlockFails ==
    /\ left > 0 /\ failed' = TRUE
    /\ readblock_returns(-1)
    /\ UNCHANGED <<pos, buf>>

readblock ==
    /\ pc = "readblock"
    /\ \/ BlockSome
       \/ BlockEnd
       \/ BlockFails
       \/ left = 0 /\ readblock_returns(total) /\ UNCHANGED <<pos, buf, failed>>
    /\ UNCHANGED <<peer, output, args, bytesread>>

\* readline reads one byte; after '\n' it terminates the string and returns.
LineByte ==
    /\ off < cap - 1 /\ pos < arrived
    /\ pos' = pos + 1 /\ off' = off + 1
    /\ \/ /\ pos + 1 \in Newlines
          /\ buf' = [buf EXCEPT ![off] = pos + 1, ![off + 1] = 0]
          /\ pc' = "idle" /\ ret' = off + 1
       \/ /\ pos + 1 \notin Newlines
          /\ buf' = [buf EXCEPT ![off] = pos + 1]
          /\ UNCHANGED <<pc, ret>>
    /\ UNCHANGED <<left, total, copied, failed>>

LineEnd ==
    /\ off < cap - 1 /\ read_end
    /\ Return(IF off = 0 THEN 0 ELSE -1)
    /\ UNCHANGED <<pos, buf, failed>>

LineFails ==
    /\ off < cap - 1 /\ failed' = TRUE
    /\ Return(-1)
    /\ UNCHANGED <<pos, buf>>

readline ==
    /\ pc = "readline"
    /\ \/ LineByte
       \/ LineEnd
       \/ LineFails
       \/ off >= cap - 1 /\ Return(-1) /\ UNCHANGED <<pos, buf, failed>>
    /\ UNCHANGED <<peer, output, args, bytesread>>

Step == r_read \/ r_write \/ readblock \/ readline

Next ==
    \/ \E f \in Calls, n \in Sizes \cup {BLKSIZE} : Call(f, n)
    \/ Step \/ Interrupted
    \/ Send \/ Close

Spec == Init /\ [][Next]_vars

\* A system call that can succeed does in the end, unless it fails: signals do
\* not interrupt it for ever.
FairSpec == Spec /\ WF_vars(Step /\ ~failed')

-----------------------------------------------------------------------------
(* Properties *)

\* At every moment of a transfer, the bytes it has written are the first of
\* the bytes it has read: interrupted calls, short reads, short writes and
\* failures lose no byte in the middle, repeat none and change no order.
WrittenInOrder ==
    fn \in TransferFns =>
        /\ nsent - ostart <= pos - start
        /\ \A j \in 1 .. nsent - ostart : sent[ostart + j] = start + j

\* The size of the block that r_write is writing
Block == IF fn = "readwriteblock" THEN cap ELSE bytesread

\* No read goes past the end of the buffer it was given, and no write takes
\* bytes that were not read into it.
BufferBounds ==
    /\ pc = "readblock" => off + left <= cap
    /\ pc = "r_write" => \A i \in off .. off + left - 1 :
                           i < cap /\ buf[i] = pos - Block + i + 1

\* A readwrite or readwriteblock that returns n > 0 has moved exactly n bytes
\* from the input to the output; one that returns 0 has moved none, and a
\* system call that failed makes it return -1.  readwriteblock moves whole
\* blocks: it returns size, or 0 or -1, as its comment on readblock says.
TransferExact ==
    pc = "idle" /\ fn \in {"readwrite", "readwriteblock"} =>
        /\ ret >= 0 => ~failed /\ pos - start = ret /\ nsent - ostart = ret
        /\ fn = "readwriteblock" => ret \in {cap, 0, -1}

\* What copyfile returns, as long as an int can count the bytes it has read:
\* the bytes of the blocks it copied completely, also when it stops at an error,
\* which it does not report.  Less than a block is written behind them, and that
\* only if the block could not be written to its end.  However many bytes there
\* are it never returns too much, and without an error it has copied everything
\* up to the end of the input.
CopyfileCounts ==
    pc = "idle" /\ fn = "copyfile" =>
        /\ ret <= nsent - ostart
        /\ ~failed => nsent - ostart = pos - start /\ closed /\ pos = arrived
        /\ pos - start <= INT_MAX =>
            /\ nsent - ostart < ret + BLKSIZE
            /\ ret = nsent - ostart \/ nsent - ostart < pos - start

\* readblock returns the whole block, in order, or 0 at the end of the input
\* without having read anything, or -1.
BlockWhole ==
    pc = "idle" /\ fn = "readblock" =>
        /\ ret \in {cap, 0, -1}
        /\ ret >= 0 => pos - start = ret /\ ~failed
        /\ ret = cap => \A i \in 0 .. cap - 1 : buf[i] = start + i + 1

\* readline returns exactly one line: all it read, ending with the first
\* newline, followed by '\0' inside the buffer; 0 only when nothing is left.
LineExact ==
    pc = "idle" /\ fn = "readline" /\ ret >= 0 =>
        /\ pos - start = ret
        /\ ret = 0 => closed /\ pos = arrived
        /\ ret > 0 => /\ ret < cap /\ buf[ret] = 0
                      /\ \A i \in 0 .. ret - 1 : buf[i] = start + i + 1
                      /\ \A i \in 0 .. ret - 1 : buf[i] \in Newlines <=> i = ret - 1

\* What each of the functions returns is exactly what it did, whatever mixture
\* of short counts, interruptions and failures came before.
ReturnsExact == TransferExact /\ CopyfileCounts /\ BlockWhole /\ LineExact

\* Once the peer has closed its end, every call returns.
CallsEnd == (closed /\ pc # "idle") ~> (pc = "idle")
=============================================================================
