------------------------------ MODULE FileCopy ------------------------------
(***************************************************************************)
(* The programs that use restart_lib.h: reg_fileio, which copies a file    *)
(* with copyfile; mmap_fileio, which copies one with memcpy between two    *)
(* mappings; mmap_simple, which maps a file and dumps a part of it.  The   *)
(* program "library" stands for any other caller of the library's          *)
(* transfer functions, on a pipe or a terminal.                            *)
(*                                                                         *)
(* The input of RestartIO is the source file: it is written and closed     *)
(* before the program starts, and byte k of it is the number k.  Another   *)
(* process can shrink it while the program runs.  A file has PAGE bytes in *)
(* a page: a mapping reads zeros between the end of the file and the end   *)
(* of its last page, what is written there is lost, and an access after    *)
(* that page is SIGBUS.                                                    *)
(***************************************************************************)
EXTENDS RestartIO, Sequences

CONSTANTS
    Progs,      \* the programs that run
    PAGE,       \* the size of a page
    LINE,       \* the bytes hex_dump prints in a line, 16 in the code
    LABELS,     \* the first number that "+%06d" gives seven digits, 1000000
    OldLen      \* the longest target there can be before the copy

ASSUME FileAssumption ==
    /\ Progs \subseteq {"library", "reg_fileio", "mmap_fileio", "mmap_simple"}
    /\ PAGE \in Nat \ {0} /\ LINE \in Nat \ {0} /\ OldLen \in Nat
    /\ LABELS \in 1 .. INT_MAX

Old == -1       \* a byte the target had before
Blank == -2     \* a column of a line of hex_dump with no byte in it

VARIABLES
    prog,       \* the program that runs
    at,         \* where its main function is, or how it ended
    old,        \* the length of the target before
    dst,        \* the target of mmap_fileio: dst[k] is its byte k
    len,        \* len of mmap_fileio and mmap_simple
    doff,       \* off of mmap_simple
    done,       \* the bytes memcpy has copied
    i,          \* i of hex_dump
    j,          \* j of hex_dump
    line,       \* buffer of hex_dump: the offset and the columns
    out,        \* the lines hex_dump has printed
    shrunk,     \* auxiliary: another process has shrunk the source after the
                \*   program took its size
    extended    \* auxiliary: mmap_fileio's write to the end of the target worked

memory == <<len, doff, done, i, j, line, out>>
fvars == <<prog, at, old, dst, memory, shrunk, extended>>
allvars == <<vars, fvars>>

\* "undefined": hex_dump has written past the end of temp; what the program does
\* from there on is not followed.
Ended == {"exit0", "exit1", "sigbus", "killed", "undefined"}

\* The places where the size of the source is not known yet
BeforeSize == {"open_to", "stat", "fstat"}

\* temp takes '+', six characters and '\0': six digits, or '-' and five.
Fits(label) == label < LABELS /\ -10 * label < LABELS

EmptyLine(label) == [label |-> label, col |-> [c \in 0 .. LINE - 1 |-> Blank]]

FCInit ==
    /\ Init
    /\ prog \in Progs /\ at = "start"
    /\ old \in 0 .. OldLen /\ dst = [k \in 1 .. old |-> Old]
    /\ prog \in {"library", "mmap_simple"} => old = 0
    /\ len = 0 /\ doff = 0 /\ done = {} /\ i = 0 /\ j = 0
    /\ line = EmptyLine(0) /\ out = <<>>
    /\ shrunk = FALSE /\ extended = TRUE

-----------------------------------------------------------------------------
(* The files *)

\* The source is written before the program starts.
WriteSource == prog # "library" /\ at = "start" /\ (Send \/ Close) /\ UNCHANGED fvars

\* Another process shrinks the source.  Bytes that were read before stay read:
\* for read, a file shorter than its offset is as good as one that ends there.
SourceShrinks ==
    /\ at \notin {"start"} \cup Ended
    /\ ~(prog = "reg_fileio" /\ fn = "copyfile" /\ pc = "idle")
    /\ arrived' \in pos .. arrived - 1
    /\ shrunk' = (shrunk \/ at \notin BeforeSize)
    /\ UNCHANGED <<closed, pos, output, pc, args, buf, loop, bytesread, copied, ret, failed,
                   prog, at, old, dst, memory, extended>>

PageEnd(n) == ((n + PAGE - 1) \div PAGE) * PAGE

\* Byte k of a mapping of the source; k <= PageEnd(arrived)
Mapped(k) == IF k <= arrived THEN k ELSE 0

Length(f) == IF DOMAIN f = {} THEN 0 ELSE CHOOSE n \in DOMAIN f : \A k \in DOMAIN f : k <= n

-----------------------------------------------------------------------------
(* Steps that the programs share *)

Goto(l) == at' = l /\ UNCHANGED <<prog, old, shrunk>>

\* A call of main fails: the program prints why and exits.
GivesUp(from) == at = from /\ Goto("exit1") /\ UNCHANGED <<dst, memory, extended>>

\* Program p opens the source: open, again after a signal.
r_open2(p, to) ==
    /\ at = "start" /\ prog = p /\ closed
    /\ Goto(to) \/ Goto("exit1")
    /\ UNCHANGED <<vars, dst, memory, extended>>

\* Program p opens the target, with O_CREAT and without O_TRUNC.
r_open3(p, to) ==
    /\ at = "open_to" /\ prog = p
    /\ Goto(to) \/ Goto("exit1")
    /\ UNCHANGED <<vars, dst, memory, extended>>

-----------------------------------------------------------------------------
(* reg_fileio *)

CallCopyfile ==
    /\ at = "copyfile" /\ fn = "none"
    /\ Call("copyfile", BLKSIZE)
    /\ UNCHANGED fvars

\* main prints what copyfile returned, closes both files and exits with 0.
CopyfileDone ==
    /\ at = "copyfile" /\ fn = "copyfile" /\ pc = "idle"
    /\ Goto("exit0")
    /\ UNCHANGED <<vars, dst, memory, extended>>

reg_fileio ==
    \/ r_open2("reg_fileio", "open_to") \/ r_open3("reg_fileio", "copyfile")
    \/ CallCopyfile \/ CopyfileDone

\* What reg_fileio leaves in the target: what it wrote, over what was there.
Target ==
    IF prog = "reg_fileio"
    THEN [k \in 1 .. IF nsent > old THEN nsent ELSE old |-> IF k <= nsent THEN sent[k] ELSE Old]
    ELSE dst

-----------------------------------------------------------------------------
(* mmap_fileio *)

stat ==
    /\ at = "stat"
    /\ \/ /\ len' = arrived
          /\ Goto(IF arrived = 0 THEN "exit1" ELSE "extend")
          /\ UNCHANGED <<dst, doff, done, i, j, line, out, extended>>
       \/ GivesUp("stat")
    /\ UNCHANGED vars

\* Mutant: the byte is written at len, not at len - 1.
ExtendTargetPast ==
    /\ at = "extend"
    /\ \/ dst' = [k \in 1 .. IF len >= old THEN len + 1 ELSE old |->
                   IF k = len + 1 \/ k > old THEN 0 ELSE dst[k]]
          /\ UNCHANGED extended
       \/ extended' = FALSE /\ UNCHANGED dst
    /\ Goto("map_src")
    /\ UNCHANGED <<vars, memory>>

\* lseek to len - 1 and write of one '\0', neither of them checked: the target
\* is at least len bytes long afterwards, unless the write fails.
ExtendTarget ==
    /\ at = "extend"
    /\ \/ dst' = [k \in 1 .. IF len > old THEN len ELSE old |->
                   IF k = len \/ k > old THEN 0 ELSE dst[k]]
          /\ UNCHANGED extended
       \/ extended' = FALSE /\ UNCHANGED dst
    /\ Goto("map_src")
    /\ UNCHANGED <<vars, memory>>

\* mmap of the source, then of the target; each is closed once it is mapped.
MapFiles ==
    /\ \/ at = "map_src" /\ Goto("map_dst") /\ UNCHANGED <<dst, memory, extended>>
       \/ at = "map_dst" /\ Goto("memcpy") /\ UNCHANGED <<dst, memory, extended>>
       \/ GivesUp("map_src")
       \/ GivesUp("map_dst")
    /\ UNCHANGED vars

\* Mutant: memcpy is asked for one byte less.
memcpyShort ==
    /\ at = "memcpy"
    /\ \/ done = 1 .. len - 1 /\ Goto("pause") /\ UNCHANGED <<dst, done>>
       \/ \E k \in (1 .. len - 1) \ done :
           /\ k <= PageEnd(arrived) /\ k <= PageEnd(Length(dst))
           /\ dst' = [x \in DOMAIN dst |-> IF x = k THEN Mapped(k) ELSE dst[x]]
           /\ done' = done \cup {k}
           /\ Goto("memcpy")
    /\ UNCHANGED <<vars, len, doff, i, j, line, out, extended>>

\* memcpy from mapping to mapping, in whatever order the C library chooses.
memcpy ==
    /\ at = "memcpy"
    /\ \/ done = 1 .. len /\ Goto("pause") /\ UNCHANGED <<dst, done>>
       \/ \E k \in (1 .. len) \ done :
           \/ /\ k <= PageEnd(arrived) /\ k <= PageEnd(Length(dst))
              /\ dst' = [x \in DOMAIN dst |-> IF x = k THEN Mapped(k) ELSE dst[x]]
              /\ done' = done \cup {k}
              /\ Goto("memcpy")
           \/ /\ k > PageEnd(arrived) \/ k > PageEnd(Length(dst))
              /\ Goto("sigbus") /\ UNCHANGED <<dst, done>>
    /\ UNCHANGED <<vars, len, doff, i, j, line, out, extended>>

mmap_fileio ==
    \/ r_open2("mmap_fileio", "open_to") \/ r_open3("mmap_fileio", "stat")
    \/ stat \/ ExtendTarget \/ MapFiles \/ memcpy

\* pause ends only by a signal, and the program handles none: a signal that
\* arrives there, or earlier, ends it, and the shared mapping stays as it is.
Killed ==
    /\ prog = "mmap_fileio" /\ at \notin {"start"} \cup Ended
    /\ Goto("killed")
    /\ UNCHANGED <<vars, dst, memory, extended>>

-----------------------------------------------------------------------------
(* mmap_simple *)

\* Mutant: only the offset is compared with the size of the file.
fstatOffset ==
    /\ at = "fstat"
    /\ \E o \in -1 .. Stream, n \in -1 .. Stream :
        /\ doff' = o /\ len' = n
        /\ Goto(IF arrived = 0 \/ n <= 0 \/ o < 0 \/ o > arrived THEN "exit1" ELSE "map")
    /\ UNCHANGED <<vars, dst, done, i, j, line, out, extended>>

\* The size of the file is taken and the two arguments are checked.
fstat ==
    /\ at = "fstat"
    /\ \/ \E o \in -1 .. Stream, n \in -1 .. Stream :
           /\ doff' = o /\ len' = n
           /\ Goto(IF arrived = 0 \/ n <= 0 \/ o < 0 \/ o + n > arrived THEN "exit1" ELSE "map")
           /\ UNCHANGED <<dst, done, i, j, line, out, extended>>
       \/ GivesUp("fstat")
    /\ UNCHANGED vars

\* hex_dump takes the offset and the length as ints.
Offset == ToInt(doff)
Size == ToInt(len)

\* The file is mapped and hex_dump makes the label of its first line.
Map ==
    /\ \/ /\ at = "map"
          /\ \/ Fits(Offset) /\ line' = EmptyLine(Offset) /\ Goto("hex_dump")
             \/ ~Fits(Offset) /\ Goto("undefined") /\ UNCHANGED line
          /\ UNCHANGED <<dst, len, doff, done, i, j, out, extended>>
       \/ GivesUp("map")
    /\ UNCHANGED vars

\* data[i] is read and put into column c of the buffer, which is b by now.
DumpColumn(b, c) ==
    \/ /\ doff + i + 1 <= PageEnd(arrived)
       /\ line' = [b EXCEPT !.col[c] = Mapped(doff + i + 1)]
       /\ i' = i + 1 /\ j' = c + 1
       /\ Goto("hex_dump")
    \/ /\ doff + i + 1 > PageEnd(arrived)
       /\ Goto("sigbus") /\ UNCHANGED <<line, i, j>>

\* Mutant: the buffer is not blanked before the next line.
DumpByteStale ==
    /\ at = "hex_dump" /\ i < Size
    /\ \/ j < LINE /\ DumpColumn(line, j) /\ UNCHANGED out
       \/ /\ j = LINE /\ out' = Append(out, line)
          /\ \/ Fits(i + Offset) /\ DumpColumn([line EXCEPT !.label = i + Offset], 0)
             \/ ~Fits(i + Offset) /\ Goto("undefined") /\ UNCHANGED <<line, i, j>>
    /\ UNCHANGED <<vars, dst, len, doff, done, extended>>

\* One round of the loop: a full line is printed first, and a new one begun.
DumpByte ==
    /\ at = "hex_dump" /\ i < Size
    /\ \/ j < LINE /\ DumpColumn(line, j) /\ UNCHANGED out
       \/ /\ j = LINE /\ out' = Append(out, line)
          /\ \/ Fits(i + Offset) /\ DumpColumn(EmptyLine(i + Offset), 0)
             \/ ~Fits(i + Offset) /\ Goto("undefined") /\ UNCHANGED <<line, i, j>>
    /\ UNCHANGED <<vars, dst, len, doff, done, extended>>

\* After the loop the line that was begun is printed.
DumpRest ==
    /\ at = "hex_dump" /\ i >= Size
    /\ out' = IF j # 0 THEN Append(out, line) ELSE out
    /\ Goto("munmap")
    /\ UNCHANGED <<vars, dst, len, doff, done, i, j, line, extended>>

hex_dump == DumpByte \/ DumpRest

\* msync, whose error is only printed, and munmap; then close and exit.
munmap ==
    /\ \/ at = "munmap" /\ Goto("exit0") /\ UNCHANGED <<dst, memory, extended>>
       \/ GivesUp("munmap")
    /\ UNCHANGED vars

mmap_simple ==
    \/ r_open2("mmap_simple", "fstat")
    \/ fstat \/ Map \/ hex_dump \/ munmap

-----------------------------------------------------------------------------
Program == reg_fileio \/ mmap_fileio \/ mmap_simple

\* The functions of the library, called by "library" or by reg_fileio
Library ==
    /\ \/ prog = "library" /\ Next
       \/ at = "copyfile" /\ (Step \/ Interrupted)
    /\ UNCHANGED fvars

Finished == at \in Ended /\ UNCHANGED allvars

FCNext == WriteSource \/ Program \/ Library \/ SourceShrinks \/ Killed \/ Finished

FCSpec == FCInit /\ [][FCNext]_allvars

\* A program that can run does.  As in RestartIO, a system call that can
\* succeed does in the end, unless it fails.
FCFairSpec ==
    /\ FCSpec
    /\ WF_allvars(Program)
    /\ WF_allvars((Step /\ ~failed') /\ Library)

-----------------------------------------------------------------------------
(* Properties *)

Copiers == {"reg_fileio", "mmap_fileio"}

\* Whenever a copy stops, killed, at SIGBUS or at an error, also between two
\* bytes: a byte of the target is the source's byte at that place or what it
\* was before.  A zero stands only where mmap_fileio's extension of the target
\* or the shrunk source put it, never in the part of a longer target that lies
\* behind the copy, which keeps what it had (no O_TRUNC).
TargetBytes ==
    prog \in Copiers => \A k \in DOMAIN Target :
        \/ Target[k] = k /\ (prog = "mmap_fileio" => k \in done)
        \/ Target[k] = Old /\ k <= old /\ k \notin done
        \/ Target[k] = 0 /\ prog = "mmap_fileio" /\ k <= len /\ (k >= len \/ k > old \/ shrunk)

\* How far a copy has got when its program is done with it.  Neither program
\* says whether something failed: reg_fileio prints the count of copyfile and
\* exits with 0 (reg_fileio.c:48-53), mmap_fileio pauses.  While an int can count
\* the source, the count does say it: that many bytes of the target are the
\* source's, and it is the length of the source exactly if all of them are.
\* mmap_fileio leaves the target as long as the source or as it was, whichever
\* is longer, which is more than line 68 asks for ("as large as the source
\* file"), and as it was if the unchecked write failed; what fits is copied.
\* No copy makes the target longer than its source.
CopyExtent ==
    /\ prog = "reg_fileio" /\ at = "exit0" /\ arrived <= INT_MAX =>
        /\ \A k \in 1 .. ret : k \in DOMAIN Target /\ Target[k] = k
        /\ ret = arrived <=> \A k \in 1 .. arrived : k \in DOMAIN Target /\ Target[k] = k
    /\ prog = "mmap_fileio" /\ at = "pause" =>
        /\ Length(Target) = IF extended /\ len > old THEN len ELSE old
        /\ \A k \in 1 .. len : k \in DOMAIN Target =>
              Target[k] = k \/ (shrunk /\ Target[k] = 0)
    /\ Length(Target) > old => Length(Target) <= IF prog = "reg_fileio" THEN pos ELSE len

\* The size that mmap_fileio and mmap_simple take before they map a file is
\* stale when they use the mapping.  They die of SIGBUS only if the source did
\* shrink in between, or the target could not be made long enough.
BusErrorOnlyIfShrunk ==
    at = "sigbus" => shrunk \/ (prog = "mmap_fileio" /\ ~extended /\ old < len)

\* mmap_simple prints the bytes it was asked for, each once and in order, LINE
\* to a line, every line with the offset of its first byte; the last line is
\* blank after the last byte.  This is so for offsets and lengths that are ints;
\* and temp overflows only if a line of the dump begins at an offset of seven
\* digits, or the offset is no int.
HexDumpExact ==
    /\ prog = "mmap_simple" /\ at = "exit0" /\ doff <= INT_MAX /\ len <= INT_MAX =>
        /\ Len(out) = (len + LINE - 1) \div LINE
        /\ \A m \in 1 .. Len(out) :
            /\ out[m].label = doff + (m - 1) * LINE
            /\ \A c \in 0 .. LINE - 1 :
                LET n == (m - 1) * LINE + c
                IN IF n >= len THEN out[m].col[c] = Blank
                   ELSE out[m].col[c] = doff + n + 1 \/ (shrunk /\ out[m].col[c] = 0)
    /\ at = "undefined" =>
        \/ doff > INT_MAX
        \/ \E m \in 0 .. len : m * LINE < len /\ doff + m * LINE >= LABELS

\* reg_fileio and mmap_simple end, whatever fails on the way and however the
\* source shrinks under them (or mmap_simple has overrun temp).  mmap_fileio
\* does not: unless it gives up or is killed it makes its copy and gets to
\* pause (mmap_fileio.c:95), and from there only a signal takes it away, so that
\* its munmap and exit never run and tst_fileio.sh, which waits for it at line
\* 41, does not come to its diff.
ProgramsEnd ==
    /\ prog \in {"reg_fileio", "mmap_simple"} /\ at # "start" ~> at \in Ended
    /\ prog = "mmap_fileio" /\ at # "start" ~> at \in Ended \cup {"pause"}
    /\ [](at = "pause" => [](at \in {"pause", "killed"}))
=============================================================================
