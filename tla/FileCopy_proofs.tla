-------------------------- MODULE FileCopy_proofs --------------------------
(***************************************************************************)
(* Proofs about FileCopy, for every length of the source and of the target *)
(* before, every page size and every width of a line of hex_dump.  The     *)
(* invariant of restart_lib.h is that of RestartIO_proofs, which has to    *)
(* survive that the source shrinks.                                        *)
(***************************************************************************)
EXTENDS FileCopy, RestartIO_proofs

(***************************************************************************)
(* Which program is where, and which of restart_lib.h's functions it has   *)
(* called.                                                                 *)
(***************************************************************************)
MapPlaces == {"stat", "extend", "map_src", "map_dst", "memcpy", "pause"}
DumpPlaces == {"fstat", "map", "hex_dump", "munmap"}

ProgInv ==
    /\ prog \in {"library", "reg_fileio", "mmap_fileio", "mmap_simple"}
    /\ at \in {"start", "open_to", "copyfile"} \cup MapPlaces \cup DumpPlaces \cup Ended
    /\ prog = "library" => at = "start"
    /\ at = "open_to" => prog \in Copiers
    /\ at = "copyfile" => prog = "reg_fileio"
    /\ at \in MapPlaces \cup {"killed"} => prog = "mmap_fileio"
    /\ at \in DumpPlaces => prog = "mmap_simple"
    /\ at = "exit0" => prog \in {"reg_fileio", "mmap_simple"}
    /\ at = "undefined" => prog = "mmap_simple"
    /\ at = "sigbus" => prog \in {"mmap_fileio", "mmap_simple"}

CallInv ==
    /\ fn = "none" => pc = "idle" /\ pos = 0 /\ nsent = 0
    /\ prog \in {"mmap_fileio", "mmap_simple"} => fn = "none"
    /\ prog = "reg_fileio" => fn \in {"none", "copyfile"} /\ start = 0 /\ ostart = 0
    /\ prog = "reg_fileio" /\ at \notin {"copyfile", "exit0"} => fn = "none"
    /\ prog = "reg_fileio" /\ at = "exit0" => fn = "copyfile" /\ pc = "idle"

(***************************************************************************)
(* mmap_fileio: how long the target is, and what memcpy has made of it.    *)
(***************************************************************************)
Mapping == {"map_src", "map_dst", "memcpy", "pause"}
BeforeMapping == {"start", "open_to", "stat", "extend"}

LengthInv ==
    /\ old \in Nat /\ len \in Int
    /\ prog = "mmap_fileio" => len \in Nat
    /\ Length(dst) \in Nat /\ dst \in [1 .. Length(dst) -> Int]
    /\ Length(dst) = old \/ (prog = "mmap_fileio" /\ Length(dst) = len /\ old < len)
    /\ at \in Mapping /\ extended => len <= Length(dst)
    /\ extended \/ Length(dst) = old
    /\ prog = "mmap_fileio" /\ at \in BeforeMapping => extended

DoneInv ==
    /\ done \subseteq 1 .. len
    /\ prog # "mmap_fileio" \/ at \in BeforeMapping =>
        done = {} /\ dst = [k \in 1 .. old |-> Old]
    /\ at \in {"extend"} \cup Mapping => shrunk \/ len <= arrived
    /\ \A k \in done : k \in DOMAIN dst => dst[k] = k \/ (shrunk /\ dst[k] = 0)
    /\ at = "pause" => done = 1 .. len

\* Every byte of mmap_fileio's target is copied, old, or a zero with a reason.
DstBytes ==
    prog = "mmap_fileio" => \A k \in DOMAIN dst :
        \/ dst[k] = k /\ k \in done
        \/ dst[k] = Old /\ k <= old /\ k \notin done
        \/ dst[k] = 0 /\ k <= len /\ (k >= len \/ k > old \/ shrunk)

(***************************************************************************)
(* mmap_simple: the full lines that hex_dump has printed, and the line it  *)
(* is at.                                                                  *)
(***************************************************************************)
Line == [label : Int, col : [0 .. LINE - 1 -> Int]]
Shows(v, k) == v = k \/ (shrunk /\ v = 0)

RangeInv ==
    prog = "mmap_simple" /\ at \in {"map", "hex_dump", "munmap", "exit0"} =>
        len > 0 /\ doff \in Nat /\ (shrunk \/ doff + len <= arrived)

FullLines ==
    /\ out \in Seq(Line)
    /\ \A m \in 1 .. Len(out) :
        /\ out[m].label = Offset + (m - 1) * LINE
        /\ \A c \in 0 .. LINE - 1 : Shows(out[m].col[c], doff + (m - 1) * LINE + c + 1)

DumpRight ==
    /\ Len(out) = (len + LINE - 1) \div LINE
    /\ \A m \in 1 .. Len(out) :
        /\ out[m].label = doff + (m - 1) * LINE
        /\ \A c \in 0 .. LINE - 1 :
            LET n == (m - 1) * LINE + c
            IN IF n >= len THEN out[m].col[c] = Blank
               ELSE out[m].col[c] = doff + n + 1 \/ (shrunk /\ out[m].col[c] = 0)

Ints == doff <= INT_MAX /\ len <= INT_MAX

\* A line of the dump begins at a number that has seven digits.
Overruns == doff > INT_MAX \/ \E m \in 0 .. len : m * LINE < len /\ doff + m * LINE >= LABELS

DumpInv ==
    /\ prog = "mmap_simple" /\ at \in {"start", "fstat", "map"} => i = 0 /\ j = 0 /\ out = <<>>
    /\ at = "hex_dump" =>
        /\ i \in 0 .. len /\ j \in 0 .. LINE /\ i = Len(out) * LINE + j
        /\ i > 0 => j > 0
        /\ line \in Line /\ line.label = Offset + Len(out) * LINE
        /\ \A c \in 0 .. LINE - 1 :
            IF c < j THEN Shows(line.col[c], doff + Len(out) * LINE + c + 1)
            ELSE line.col[c] = Blank
        /\ FullLines
    /\ prog = "mmap_simple" /\ at \in {"munmap", "exit0"} /\ Ints => DumpRight
    /\ at = "undefined" => Overruns

FCInv ==
    /\ IInv /\ ProgInv /\ CallInv
    /\ LengthInv /\ DoneInv /\ DstBytes
    /\ RangeInv /\ DumpInv
    /\ BusErrorOnlyIfShrunk

-----------------------------------------------------------------------------
(* Lengths, pages and lines *)

LEMMA LengthIs ==
    ASSUME NEW f, NEW L \in Nat, DOMAIN f = 1 .. L
    PROVE  Length(f) = L
<1>1. CASE L = 0
  BY <1>1 DEF Length
<1>2. CASE L # 0
  <2>1. L \in DOMAIN f /\ \A k \in DOMAIN f : k <= L
    BY <1>2
  <2>2. Length(f) = CHOOSE n \in DOMAIN f : \A k \in DOMAIN f : k <= n
    BY <2>1 DEF Length
  <2> DEFINE m == CHOOSE n \in DOMAIN f : \A k \in DOMAIN f : k <= n
  <2>3. m \in DOMAIN f /\ \A k \in DOMAIN f : k <= m
    BY <2>1
  <2> HIDE DEF m
  <2>4. m = L
    BY <2>1, <2>3
  <2> QED
    BY <2>2, <2>4 DEF m
<1> QED
  BY <1>1, <1>2

LEMMA DivIs ==
    ASSUME NEW d \in Nat \ {0}, NEW q \in Int, NEW r \in 0 .. d - 1, NEW a \in Int, a = q * d + r
    PROVE  a \div d = q
  BY SMT

\* A page ends behind every byte in it.
LEMMA PageEndCovers ==
    ASSUME NEW n \in Nat
    PROVE  PageEnd(n) \in Int /\ n <= PageEnd(n)
<1> DEFINE a == n + PAGE - 1
           q == a \div PAGE
<1>1. PAGE \in Nat \ {0} /\ a \in Int
  BY FileAssumption
<1>2. q \in Int /\ a = PAGE * q + (a % PAGE) /\ a % PAGE \in 0 .. PAGE - 1
  BY <1>1
<1>3. PageEnd(n) = q * PAGE
  BY DEF PageEnd
<1> HIDE DEF q
<1> QED
  BY <1>1, <1>2, <1>3

\* Complete lines end at or before the beginning of the next one.
LEMMA LinesInOrder ==
    ASSUME NEW m \in Nat, NEW n \in Nat, m < n, NEW c \in 0 .. LINE - 1
    PROVE  m * LINE + c < n * LINE
<1>1. LINE \in Nat
  BY FileAssumption
<1>2. PICK d \in Nat : n = m + 1 + d
  <2>1. n - m - 1 \in Nat /\ n = m + 1 + (n - m - 1)
    OBVIOUS
  <2> QED
    BY <2>1
<1>3. n * LINE = m * LINE + LINE + d * LINE
  BY <1>1, <1>2
<1>4. d * LINE >= 0 /\ m * LINE \in Int /\ d * LINE \in Int
  BY <1>1
<1> QED
  BY <1>1, <1>3, <1>4

-----------------------------------------------------------------------------
(* The library's invariant and the places of the programs *)

\* The names of the program's steps that leave the library alone.
LEMMA ProgramLeavesLibrary ==
    ASSUME Program, ~CallCopyfile PROVE UNCHANGED vars
  BY DEF Program, reg_fileio, mmap_fileio, mmap_simple, r_open2, r_open3, CopyfileDone,
         stat, ExtendTarget, MapFiles, memcpy, fstat, Map, hex_dump, DumpByte, DumpColumn, DumpRest, munmap

\* A source that shrinks keeps the bytes that were read, and nothing that has
\* returned spoke of its end.
LEMMA ShrinkKeepsLibrary ==
    ASSUME FCInv, SourceShrinks PROVE IInv'
<1> USE ConstantsAssumption DEF FCInv, IInv, SourceShrinks, output, args, loop
<1>1. arrived' \in 0 .. Stream /\ pos <= arrived' /\ arrived' <= arrived
  BY DEF TypeOK
<1>2. fn = "none" \/ (fn = "copyfile" /\ pc # "idle")
  BY DEF ProgInv, CallInv, Ended
<1>3. TypeOK'
  BY <1>1 DEF TypeOK
<1>4. Places' /\ OrderInv'
  BY <1>1 DEF TypeOK, Places, OrderInv
<1>5. ReadInv' /\ WriteInv' /\ BlockInv' /\ LineInv'
  BY DEF ReadInv, WriteInv, BlockInv, LineInv, Block, Counted
<1>6. ReturnsExact'
  BY <1>2 DEF ReturnsExact, TransferExact, CopyfileCounts, BlockWhole, LineExact
<1> QED
  BY <1>3, <1>4, <1>5, <1>6

LEMMA LibraryInv ==
    ASSUME FCInv, [FCNext]_allvars PROVE IInv'
<1>0. IInv
  BY DEF FCInv
<1>1. CASE WriteSource \/ Library \/ Killed \/ Finished \/ UNCHANGED allvars \/ (Program /\ ~CallCopyfile)
  <2>1. [Next]_vars
    BY <1>1, ProgramLeavesLibrary DEF WriteSource, Library, Killed, Finished, allvars, Next
  <2> QED
    BY <1>0, <2>1, NextIInv
<1>2. CASE CallCopyfile
  BY <1>0, <1>2, CallStep DEF CallCopyfile, Fns, CopyFns
<1>3. CASE SourceShrinks
  BY <1>3, ShrinkKeepsLibrary
<1> QED
  BY <1>1, <1>2, <1>3 DEF FCNext

LEMMA PlacesKept ==
    ASSUME FCInv, [FCNext]_allvars PROVE ProgInv'
<1> USE DEF FCInv, ProgInv, Ended, Copiers, MapPlaces, DumpPlaces, Goto, GivesUp
<1>1. CASE WriteSource \/ Library \/ SourceShrinks \/ Finished \/ UNCHANGED allvars
  BY <1>1 DEF WriteSource, Library, SourceShrinks, Finished, allvars, fvars
<1>2. CASE reg_fileio
  BY <1>2 DEF reg_fileio, r_open2, r_open3, CallCopyfile, CopyfileDone, fvars
<1>3. CASE mmap_fileio
  BY <1>3 DEF mmap_fileio, r_open2, r_open3, stat, ExtendTarget, MapFiles, memcpy
<1>4. CASE mmap_simple
  BY <1>4 DEF mmap_simple, r_open2, fstat, Map, hex_dump, DumpByte, DumpColumn, DumpRest, munmap
<1>5. CASE Killed
  BY <1>5 DEF Killed
<1> QED
  BY <1>1, <1>2, <1>3, <1>4, <1>5 DEF FCNext, Program

LEMMA StepKeepsArgs ==
    ASSUME Step \/ Interrupted
    PROVE  pc # "idle" /\ UNCHANGED <<fn, start, ostart>>
  BY DEF Step, Interrupted, r_read, r_write, readblock, readline, vars, args

LEMMA CallsKept ==
    ASSUME FCInv, [FCNext]_allvars PROVE CallInv'
<1> USE DEF FCInv, CallInv, output, args
<1>1. CASE WriteSource \/ Finished \/ UNCHANGED allvars
  BY <1>1 DEF WriteSource, Send, Close, Finished, allvars, fvars, vars
<1>2. CASE SourceShrinks
  BY <1>2 DEF SourceShrinks
<1>3. CASE Library
  <2>1. UNCHANGED <<prog, at>>
    BY <1>3 DEF Library, fvars
  <2>2. CASE Step \/ Interrupted
    BY <1>3, <2>1, <2>2, StepKeepsArgs DEF Library, ProgInv
  <2>3. CASE prog = "library" /\ \E f \in Calls, n \in Sizes \cup {BLKSIZE} : Call(f, n)
    <3>1. fn' # "none"
      BY <2>3, ConstantsAssumption DEF Call, Fns, BlockFns, CopyFns
    <3> QED
      BY <2>1, <2>3, <3>1
  <2>4. CASE prog = "library" /\ (Send \/ Close)
    BY <2>1, <2>4 DEF Send, Close
  <2> QED
    BY <1>3, <2>2, <2>3, <2>4 DEF Library, Next
<1>4. CASE Program /\ ~CallCopyfile
  <2>1. UNCHANGED <<pc, fn, start, ostart, pos, nsent>>
    BY <1>4, ProgramLeavesLibrary DEF vars
  <2>2. prog' = prog
    BY <1>4 DEF Program, reg_fileio, mmap_fileio, mmap_simple, r_open2, r_open3, CopyfileDone,
         stat, ExtendTarget, MapFiles, memcpy, fstat, Map, hex_dump, DumpByte, DumpColumn, DumpRest, munmap, Goto, GivesUp
  <2>3. prog = "reg_fileio" =>
          \/ at \in {"start", "open_to"} /\ at' \in {"open_to", "copyfile", "exit1"}
          \/ at' = "exit0" /\ fn = "copyfile" /\ pc = "idle"
    BY <1>4 DEF ProgInv, Program, reg_fileio, mmap_fileio, mmap_simple, r_open2, r_open3, CopyfileDone,
         stat, ExtendTarget, MapFiles, memcpy, fstat, Map, hex_dump, DumpByte, DumpColumn, DumpRest, munmap, Goto, GivesUp,
         MapPlaces, DumpPlaces
  <2> QED
    BY <2>1, <2>2, <2>3
<1>5. CASE CallCopyfile
  <2>1. fn' = "copyfile" /\ UNCHANGED <<prog, at>> /\ at = "copyfile"
    BY <1>5 DEF CallCopyfile, Call, fvars
  <2>2. start' = 0 /\ ostart' = 0
    BY <1>5 DEF CallCopyfile, Call
  <2> QED
    BY <2>1, <2>2 DEF ProgInv
<1>6. CASE Killed
  BY <1>6 DEF Killed, Goto, vars
<1> QED
  BY <1>1, <1>2, <1>3, <1>4, <1>5, <1>6 DEF FCNext

-----------------------------------------------------------------------------
(* The steps that move no byte and take no size *)

FileInv == LengthInv /\ DoneInv /\ DstBytes /\ RangeInv /\ DumpInv

\* The moves of a program that promise nothing new.
QuietMove ==
    \/ at' = at
    \/ at' \in {"exit1", "killed", "sigbus"}
    \/ at = "start" /\ at' \in {"open_to", "fstat"}
    \/ at = "open_to" /\ at' \in {"copyfile", "stat"}
    \/ at = "copyfile" /\ at' = "exit0"
    \/ at = "map_src" /\ at' = "map_dst"
    \/ at = "map_dst" /\ at' = "memcpy"
    \/ at = "memcpy" /\ at' = "pause" /\ done = 1 .. len
    \/ at = "munmap" /\ at' = "exit0"

LEMMA QuietStep ==
    ASSUME FCInv, QuietMove, UNCHANGED <<prog, old, dst, memory, extended>>,
           UNCHANGED <<arrived, shrunk>> \/ shrunk' \/ (at' \in BeforeSize \cup {"start"} /\ (shrunk => shrunk'))
    PROVE  FileInv'
<1> USE DEF FCInv, QuietMove, memory, BeforeSize
<1>1. UNCHANGED <<prog, old, dst, extended, len, doff, done, i, j, line, out>>
  OBVIOUS
<1>2. shrunk => shrunk'
  OBVIOUS
<1>3. LengthInv'
  <2>1. Length(dst') = Length(dst)
    BY <1>1
  <2>2. /\ at' \in Mapping => at \in Mapping \/ at' = at
        /\ prog = "mmap_fileio" /\ at' \in BeforeMapping => at \in BeforeMapping
    BY DEF Mapping, BeforeMapping
  <2>3. Length(dst)' = Length(dst')
    BY DEF Length
  <2> QED
    BY <1>1, <2>1, <2>2, <2>3 DEF LengthInv
<1>4. DoneInv'
  <2>1. prog = "mmap_fileio" /\ at' \in BeforeMapping => at \in BeforeMapping
    BY DEF BeforeMapping
  <2>2. at' \in {"extend"} \cup Mapping => at \in {"extend"} \cup Mapping
    BY DEF Mapping
  <2>3. at' \in {"extend"} \cup Mapping => shrunk' \/ len <= arrived'
    BY <1>1, <1>2, <2>2 DEF DoneInv, Mapping
  <2>4. at' = "pause" => done = 1 .. len
    BY DEF DoneInv
  <2> QED
    BY <1>1, <1>2, <2>1, <2>3, <2>4 DEF DoneInv
<1>5. DstBytes'
  BY <1>1, <1>2 DEF DstBytes
<1>6. RangeInv'
  <2>1. prog = "mmap_simple" /\ at' \in {"map", "hex_dump", "munmap", "exit0"} =>
            at \in {"map", "hex_dump", "munmap", "exit0"}
    BY DEF ProgInv
  <2> QED
    BY <1>1, <1>2, <2>1 DEF RangeInv
<1>7. DumpInv'
  <2>1. prog = "mmap_simple" /\ at' \in {"start", "fstat", "map"} => at \in {"start", "fstat", "map"}
    BY DEF ProgInv
  <2>2. at' = "hex_dump" => at = "hex_dump"
    OBVIOUS
  <2>3. prog = "mmap_simple" /\ at' \in {"munmap", "exit0"} => at \in {"munmap", "exit0"}
    BY DEF ProgInv
  <2>4. UNCHANGED <<Offset, Ints, Overruns>>
    BY <1>1 DEF Offset, ToInt, Ints, Overruns
  <2>5. FullLines => FullLines'
    BY <1>1, <1>2, <2>4 DEF FullLines, Shows
  <2>6. DumpRight => DumpRight'
    BY <1>1, <1>2 DEF DumpRight
  <2>7. at' = "undefined" => at = "undefined"
    OBVIOUS
  <2> QED
    BY <1>1, <1>2, <2>1, <2>2, <2>3, <2>4, <2>5, <2>6, <2>7 DEF DumpInv, Shows
<1> QED
  BY <1>3, <1>4, <1>5, <1>6, <1>7 DEF FileInv

-----------------------------------------------------------------------------
(* mmap_fileio takes the size of the source, extends the target and copies *)

LEMMA StatStep ==
    ASSUME FCInv, stat PROVE FileInv'
<1> USE DEF FCInv, memory, Goto
<1>1. CASE GivesUp("stat")
  BY <1>1, QuietStep DEF GivesUp, stat, vars, peer, QuietMove
<1>2. CASE ~GivesUp("stat")
  <2>1. /\ at = "stat" /\ len' = arrived /\ at' \in {"extend", "exit1"}
        /\ UNCHANGED <<prog, old, dst, doff, done, i, j, line, out, extended, shrunk, arrived>>
    BY <1>2 DEF stat, vars, peer
  <2>2. prog = "mmap_fileio" /\ arrived \in Nat
    BY <2>1, ConstantsAssumption DEF ProgInv, MapPlaces, IInv, TypeOK
  <2>3. done = {} /\ dst = [k \in 1 .. old |-> Old]
    BY <2>1 DEF DoneInv, BeforeMapping
  <2>4. Length(dst) = old
    <3>1. DOMAIN dst = 1 .. old /\ old \in Nat
      BY <2>3 DEF LengthInv
    <3> QED
      BY <3>1, LengthIs
  <2>5. Length(dst)' = Length(dst)
    BY <2>1 DEF Length
  <2>6. LengthInv'
    BY <2>1, <2>2, <2>4, <2>5 DEF LengthInv, Mapping, BeforeMapping
  <2>7. DoneInv' /\ DstBytes'
    BY <2>1, <2>2, <2>3 DEF DoneInv, DstBytes, Mapping
  <2>8. RangeInv' /\ DumpInv'
    BY <2>1, <2>2 DEF RangeInv, DumpInv
  <2> QED
    BY <2>6, <2>7, <2>8 DEF FileInv
<1> QED
  BY <1>1, <1>2

LEMMA ExtendStep ==
    ASSUME FCInv, ExtendTarget PROVE FileInv'
<1> USE DEF FCInv, memory, Goto
<1>1. /\ at = "extend" /\ at' = "map_src"
      /\ UNCHANGED <<prog, old, len, doff, done, i, j, line, out, shrunk, arrived>>
  BY DEF ExtendTarget, vars, peer
<1>2. prog = "mmap_fileio" /\ old \in Nat /\ len \in Nat
  BY <1>1 DEF ProgInv, MapPlaces, LengthInv
<1>3. done = {} /\ dst = [k \in 1 .. old |-> Old] /\ (shrunk \/ len <= arrived)
  BY <1>1 DEF DoneInv, BeforeMapping
<1>7. extended /\ Length(dst) = old
  <2>1. DOMAIN dst = 1 .. old
    BY <1>3
  <2> QED
    BY <1>1, <1>2, <2>1, LengthIs DEF LengthInv, BeforeMapping
<1>4. RangeInv' /\ DumpInv'
  BY <1>1, <1>2 DEF RangeInv, DumpInv
<1>5. CASE extended' = FALSE /\ UNCHANGED dst
  <2>1. Length(dst)' = Length(dst)
    BY <1>5 DEF Length
  <2>2. LengthInv'
    BY <1>1, <1>2, <1>3, <1>5, <1>7, <2>1 DEF LengthInv, BeforeMapping
  <2>3. DoneInv' /\ DstBytes'
    BY <1>1, <1>2, <1>3, <1>5 DEF DoneInv, DstBytes
  <2> QED
    BY <1>4, <2>2, <2>3 DEF FileInv
<1>6. CASE ~(extended' = FALSE /\ UNCHANGED dst)
  <2> DEFINE L == IF len > old THEN len ELSE old
  <2>1. dst' = [k \in 1 .. L |-> IF k = len \/ k > old THEN 0 ELSE dst[k]]
    BY <1>6 DEF ExtendTarget
  <2>2. L \in Nat /\ len <= L
    BY <1>2
  <2>3. /\ DOMAIN dst' = 1 .. L
        /\ \A k \in 1 .. L : dst'[k] = IF k = len \/ k > old THEN 0 ELSE Old
    BY <1>2, <1>3, <2>1
  <2>4. Length(dst') = L /\ Length(dst)' = Length(dst')
    BY <2>2, <2>3, LengthIs DEF Length
  <2>5. dst' \in [1 .. L -> Int]
    BY <2>1, <2>2, <2>3 DEF Old
  <2>6. LengthInv'
    <3>1. extended'
      BY <1>6, <1>7 DEF ExtendTarget
    <3> QED
      BY <1>1, <1>2, <2>2, <2>4, <2>5, <3>1 DEF LengthInv, BeforeMapping
  <2>7. DoneInv'
    BY <1>1, <1>2, <1>3 DEF DoneInv, BeforeMapping
  <2>8. DstBytes'
    BY <1>1, <1>2, <1>3, <2>2, <2>3 DEF DstBytes
  <2> QED
    BY <1>4, <2>6, <2>7, <2>8 DEF FileInv
<1> QED
  BY <1>5, <1>6

\* memcpy copies a byte that lies in the pages of both files; a byte that it
\* puts behind the end of the target is lost.
LEMMA CopyStep ==
    ASSUME FCInv, NEW k \in (1 .. len) \ done, at = "memcpy", at' = "memcpy",
           dst' = [x \in DOMAIN dst |-> IF x = k THEN Mapped(k) ELSE dst[x]],
           done' = done \cup {k},
           UNCHANGED <<vars, prog, old, shrunk, len, doff, i, j, line, out, extended>>
    PROVE  FileInv'
<1> USE DEF FCInv
<1>1. prog = "mmap_fileio" /\ old \in Nat /\ len \in Nat /\ arrived' = arrived
  BY DEF ProgInv, MapPlaces, LengthInv, vars, peer
<1>2. Length(dst) \in Nat /\ dst \in [1 .. Length(dst) -> Int]
  BY DEF LengthInv
<1>3. DOMAIN dst' = 1 .. Length(dst) /\ DOMAIN dst = 1 .. Length(dst)
  BY <1>2
<1>4. Length(dst)' = Length(dst)
  <2>1. Length(dst)' = Length(dst')
    BY DEF Length
  <2>2. Length(dst') = Length(dst)
    BY <1>2, <1>3, LengthIs
  <2> QED
    BY <2>1, <2>2
<1>5. Mapped(k) = k \/ (shrunk /\ Mapped(k) = 0)
  <2>1. shrunk \/ len <= arrived
    BY DEF DoneInv, Mapping
  <2>2. arrived \in Int
    BY ConstantsAssumption DEF IInv, TypeOK
  <2> QED
    BY <1>1, <2>1, <2>2 DEF Mapped
<1>6. \A x \in DOMAIN dst : dst'[x] = IF x = k THEN Mapped(k) ELSE dst[x]
  OBVIOUS
<1>7. dst' \in [1 .. Length(dst) -> Int]
  BY <1>1, <1>2, <1>3, <1>5, <1>6
<1>8. LengthInv'
  BY <1>1, <1>4, <1>7 DEF LengthInv, Mapping, BeforeMapping
<1>9. DoneInv'
  <2>1. done' \subseteq 1 .. len
    BY DEF DoneInv
  <2>2. shrunk \/ len <= arrived
    BY DEF DoneInv, Mapping
  <2>3. \A x \in done' : x \in DOMAIN dst' => dst'[x] = x \/ (shrunk /\ dst'[x] = 0)
    BY <1>3, <1>5, <1>6 DEF DoneInv
  <2> QED
    BY <1>1, <2>1, <2>2, <2>3 DEF DoneInv, BeforeMapping
<1>10. DstBytes'
  <2> SUFFICES ASSUME NEW x \in DOMAIN dst
               PROVE  \/ dst'[x] = x /\ x \in done'
                      \/ dst'[x] = Old /\ x <= old /\ x \notin done'
                      \/ dst'[x] = 0 /\ x <= len /\ (x >= len \/ x > old \/ shrunk)
    BY <1>3 DEF DstBytes
  <2>1. CASE x = k
    BY <1>1, <1>5, <1>6, <2>1
  <2>2. CASE x # k
    BY <1>1, <1>6, <2>2 DEF DstBytes
  <2> QED
    BY <2>1, <2>2
<1>11. RangeInv' /\ DumpInv'
  BY <1>1 DEF RangeInv, DumpInv
<1> QED
  BY <1>8, <1>9, <1>10, <1>11 DEF FileInv

LEMMA MmapFileioStep ==
    ASSUME FCInv, mmap_fileio PROVE FileInv'
<1>1. CASE r_open2("mmap_fileio", "open_to") \/ r_open3("mmap_fileio", "stat") \/ MapFiles
  BY <1>1, QuietStep DEF r_open2, r_open3, MapFiles, GivesUp, Goto, QuietMove, vars, peer
<1>2. CASE stat
  BY <1>2, StatStep
<1>3. CASE ExtendTarget
  BY <1>3, ExtendStep
<1>4. CASE memcpy
  <2>1. CASE \E k \in (1 .. len) \ done :
                /\ dst' = [x \in DOMAIN dst |-> IF x = k THEN Mapped(k) ELSE dst[x]]
                /\ done' = done \cup {k}
                /\ Goto("memcpy")
    BY <1>4, <2>1, CopyStep DEF memcpy, Goto
  <2>2. CASE UNCHANGED <<dst, done>> /\ QuietMove
    BY <1>4, <2>2, QuietStep DEF memcpy, Goto, vars, peer, memory
  <2> QED
    BY <1>4, <2>1, <2>2 DEF memcpy, Goto, QuietMove
<1> QED
  BY <1>1, <1>2, <1>3, <1>4 DEF mmap_fileio

-----------------------------------------------------------------------------
(* mmap_simple checks its arguments, maps the file and dumps it *)

\* What mmap_simple does leaves the target and the bytes of memcpy alone.
LEMMA TargetUntouched ==
    ASSUME FCInv, prog = "mmap_simple", len' \in Int,
           UNCHANGED <<prog, old, dst, done, extended>>, at' \notin {"extend"} \cup Mapping
    PROVE  LengthInv' /\ DoneInv' /\ DstBytes'
<1> USE DEF FCInv
<1>1. Length(dst)' = Length(dst)
  BY DEF Length
<1>2. LengthInv'
  BY <1>1 DEF LengthInv
<1>3. done = {} /\ dst = [k \in 1 .. old |-> Old]
  BY DEF DoneInv
<1>4. DoneInv' /\ DstBytes'
  BY <1>3 DEF DoneInv, DstBytes, Mapping
<1> QED
  BY <1>2, <1>4

LEMMA FstatStep ==
    ASSUME FCInv, fstat PROVE FileInv'
<1> USE DEF FCInv, Goto
<1>1. CASE GivesUp("fstat")
  BY <1>1, QuietStep DEF GivesUp, fstat, vars, peer, QuietMove
<1>2. CASE ~GivesUp("fstat")
  <2>1. PICK o \in -1 .. Stream, n \in -1 .. Stream :
          /\ doff' = o /\ len' = n
          /\ at' = (IF arrived = 0 \/ n <= 0 \/ o < 0 \/ o + n > arrived THEN "exit1" ELSE "map")
          /\ UNCHANGED <<prog, old, shrunk, dst, done, i, j, line, out, extended>>
    BY <1>2 DEF fstat
  <2>2. at = "fstat" /\ prog = "mmap_simple" /\ arrived' = arrived
    BY DEF fstat, ProgInv, DumpPlaces, vars, peer
  <2>3. at' \in {"exit1", "map"} /\ (at' = "map" => n > 0 /\ o >= 0 /\ ~(o + n > arrived))
    BY <2>1
  <2>4. LengthInv' /\ DoneInv' /\ DstBytes'
    BY <2>1, <2>2, <2>3, TargetUntouched, ConstantsAssumption DEF Mapping
  <2>5. RangeInv'
    <3>1. arrived \in Nat /\ o \in Int /\ n \in Int
      BY ConstantsAssumption DEF IInv, TypeOK
    <3> QED
      BY <2>1, <2>2, <2>3, <3>1 DEF RangeInv
  <2>6. DumpInv'
    BY <2>1, <2>2, <2>3 DEF DumpInv
  <2> QED
    BY <2>4, <2>5, <2>6 DEF FileInv
<1> QED
  BY <1>1, <1>2

LEMMA EmptyLineIs ==
    ASSUME NEW label \in Int
    PROVE  /\ EmptyLine(label) \in Line /\ EmptyLine(label).label = label
           /\ \A c \in 0 .. LINE - 1 : EmptyLine(label).col[c] = Blank
  BY FileAssumption DEF EmptyLine, Line, Blank

\* hex_dump stops for good: at a byte that is not there, or at a label.
LEMMA DumpStops ==
    ASSUME FCInv, prog = "mmap_simple", at' \in {"sigbus", "undefined"},
           at' = "undefined" => Overruns,
           UNCHANGED <<prog, old, shrunk, dst, len, doff, done, extended>>
    PROVE  FileInv'
<1> USE DEF FCInv
<1>1. LengthInv' /\ DoneInv' /\ DstBytes'
  <2>1. len' \in Int
    BY DEF LengthInv
  <2> QED
    BY <2>1, TargetUntouched DEF Mapping
<1>2. RangeInv'
  BY DEF RangeInv
<1>3. DumpInv'
  <2>1. UNCHANGED Overruns
    BY DEF Overruns
  <2> QED
    BY <2>1 DEF DumpInv
<1> QED
  BY <1>1, <1>2, <1>3 DEF FileInv

LEMMA MapStep ==
    ASSUME FCInv, Map PROVE FileInv'
<1> USE DEF FCInv, Goto
<1>1. CASE GivesUp("map")
  BY <1>1, QuietStep DEF GivesUp, Map, vars, peer, QuietMove
<1>2. CASE ~GivesUp("map")
  <2>1. /\ at = "map"
        /\ UNCHANGED <<prog, old, shrunk, dst, len, doff, done, i, j, out, extended, arrived>>
    BY <1>2 DEF Map, vars, peer
  <2>2. prog = "mmap_simple" /\ len > 0 /\ len \in Int /\ doff \in Nat
    BY <2>1 DEF ProgInv, DumpPlaces, RangeInv, LengthInv
  <2>3. i = 0 /\ j = 0 /\ out = <<>>
    BY <2>1, <2>2 DEF DumpInv
  <2>4. CASE ~Fits(Offset) /\ at' = "undefined"
    <3>1. doff > INT_MAX \/ Offset = doff
      BY <2>2, ToIntIs, ConstantsAssumption DEF Offset
    <3>2. doff <= INT_MAX => doff >= LABELS
      BY <2>2, <2>4, <3>1, FileAssumption, ConstantsAssumption DEF Fits
    <3>3. 0 \in 0 .. len /\ 0 * LINE = 0
      BY <2>2, FileAssumption
    <3>4. Overruns
      BY <2>2, <3>2, <3>3, ConstantsAssumption DEF Overruns
    <3> QED
      BY <2>1, <2>2, <2>4, <3>4, DumpStops
  <2>5. CASE line' = EmptyLine(Offset) /\ at' = "hex_dump"
    <3>1. LengthInv' /\ DoneInv' /\ DstBytes'
      BY <2>1, <2>2, <2>5, TargetUntouched DEF Mapping
    <3>2. RangeInv'
      BY <2>1, <2>2 DEF RangeInv
    <3>3. FullLines'
      BY <2>1, <2>3 DEF FullLines
    <3>4. LINE \in Nat /\ Len(out) = 0 /\ Offset \in Int
      BY <2>2, <2>3, ToIntIs, FileAssumption, ConstantsAssumption DEF Offset
    <3>5. /\ line' \in Line /\ line'.label = Offset /\ UNCHANGED Offset
          /\ \A c \in 0 .. LINE - 1 : line'.col[c] = Blank
      BY <2>1, <2>5, <3>4, EmptyLineIs DEF Offset, ToInt
    <3>6. i' \in 0 .. len' /\ j' \in 0 .. LINE /\ i' = Len(out') * LINE + j'
      BY <2>1, <2>2, <2>3, <3>4
    <3>7. DumpInv'
      BY <2>1, <2>2, <2>3, <2>5, <3>3, <3>4, <3>5, <3>6 DEF DumpInv
    <3> QED
      BY <3>1, <3>2, <3>7 DEF FileInv
  <2> QED
    BY <1>2, <2>4, <2>5 DEF Map
<1> QED
  BY <1>1, <1>2

\* A line that is full joins the lines that were printed.
LEMMA LinePrinted ==
    ASSUME FCInv, at = "hex_dump", j = LINE, UNCHANGED <<doff, shrunk>>, out' = Append(out, line)
    PROVE  FullLines' /\ Len(out') = Len(out) + 1
<1> USE DEF FCInv
<1>1. /\ out \in Seq(Line) /\ line \in Line /\ line.label = Offset + Len(out) * LINE
      /\ \A c \in 0 .. LINE - 1 : Shows(line.col[c], doff + Len(out) * LINE + c + 1)
  BY DEF DumpInv, FullLines
<1>2. out' \in Seq(Line) /\ Len(out') = Len(out) + 1 /\ Len(out) \in Nat
  BY <1>1
<1>3. /\ \A m \in 1 .. Len(out) : out'[m] = out[m]
      /\ out'[Len(out) + 1] = line
  BY <1>1
<1>4. SUFFICES ASSUME NEW m \in 1 .. Len(out) + 1
               PROVE  /\ out'[m].label = Offset + (m - 1) * LINE
                      /\ \A c \in 0 .. LINE - 1 : Shows(out'[m].col[c], doff + (m - 1) * LINE + c + 1)
  <2>1. UNCHANGED Offset
    BY DEF Offset, ToInt
  <2> QED
    BY <1>2, <2>1 DEF FullLines, Shows
<1>5. CASE m = Len(out) + 1
  <2>1. m - 1 = Len(out)
    BY <1>2, <1>5
  <2> QED
    BY <1>1, <1>3, <1>5, <2>1
<1>6. CASE m # Len(out) + 1
  <2>1. m \in 1 .. Len(out)
    BY <1>2, <1>6
  <2> QED
    BY <1>3, <2>1 DEF DumpInv, FullLines
<1> QED
  BY <1>5, <1>6

\* The bytes on the lines that have been printed
Printed == Len(out) * LINE

LEMMA ByteRead ==
    ASSUME FCInv, at = "hex_dump", i < len
    PROVE  /\ prog = "mmap_simple"
           /\ len \in Nat /\ doff \in Nat /\ LINE \in Nat \ {0} /\ i \in 0 .. len
           /\ Mapped(doff + i + 1) \in Int /\ Shows(Mapped(doff + i + 1), doff + i + 1)
<1> USE DEF FCInv
<1>1. /\ len \in Nat /\ doff \in Nat /\ LINE \in Nat \ {0} /\ i \in 0 .. len
      /\ shrunk \/ doff + len <= arrived
      /\ arrived \in Nat /\ prog = "mmap_simple"
  BY FileAssumption, ConstantsAssumption DEF RangeInv, DumpInv, LengthInv, IInv, TypeOK, ProgInv, DumpPlaces
<1> QED
  BY <1>1 DEF Mapped, Shows

\* A byte goes into column c of the line that hex_dump is at.
LEMMA ColumnStored ==
    ASSUME FCInv, at = "hex_dump", at' = "hex_dump", i < len,
           UNCHANGED <<prog, old, shrunk, dst, len, doff, done, extended, arrived>>,
           NEW to \in Line, NEW c \in 0 .. LINE - 1,
           line' = [to EXCEPT !.col[c] = Mapped(doff + i + 1)], i' = i + 1, j' = c + 1,
           FullLines', NEW b \in Int, b = Printed', i = b + c,
           to.label = Offset + b,
           \A d \in 0 .. LINE - 1 :
              IF d < c THEN Shows(to.col[d], doff + b + d + 1) ELSE to.col[d] = Blank
    PROVE  FileInv'
<1> USE DEF FCInv
<1> DEFINE v == Mapped(doff + i + 1)
<1>0. prog = "mmap_simple" /\ UNCHANGED Offset
  BY ByteRead DEF Offset, ToInt
<1>1. /\ len \in Nat /\ doff \in Nat /\ LINE \in Nat \ {0} /\ i \in 0 .. len
  BY ByteRead
<1>2. v \in Int /\ Shows(v, doff + i + 1)
  BY ByteRead
<1> HIDE DEF v
<1>3. /\ line' \in Line /\ line'.label = to.label
      /\ \A d \in 0 .. LINE - 1 : line'.col[d] = IF d = c THEN v ELSE to.col[d]
  BY <1>2 DEF Line, v
<1>4. \A d \in 0 .. LINE - 1 :
        IF d < c + 1 THEN Shows(line'.col[d], doff + b + d + 1)
        ELSE line'.col[d] = Blank
  <2> SUFFICES ASSUME NEW d \in 0 .. LINE - 1
               PROVE  IF d < c + 1 THEN Shows(line'.col[d], doff + b + d + 1)
                      ELSE line'.col[d] = Blank
    OBVIOUS
  <2>1. CASE d = c
    <3>1. doff + b + d + 1 = doff + i + 1
      BY <1>1, <2>1
    <3> QED
      BY <1>1, <1>2, <1>3, <2>1, <3>1
  <2>2. CASE d # c
    <3>1. d < c + 1 <=> d < c
      BY <1>1, <2>2
    <3> QED
      BY <1>3, <2>2, <3>1
  <2> QED
    BY <2>1, <2>2
<1>5. i' \in 0 .. len' /\ j' \in 0 .. LINE /\ i' = b + j' /\ j' > 0
  <2>2. c \in Int /\ i \in Int /\ i + 1 = b + (c + 1) /\ c + 1 \in 0 .. LINE /\ c + 1 > 0 /\ i + 1 \in 0 .. len
    BY <1>1
  <2>3. i' = b + j'
    BY <2>2
  <2> QED
    BY <2>2, <2>3
<1>6. DumpInv'
  <2>1. b = Len(out') * LINE
    BY DEF Printed
  <2> QED
    BY <1>0, <1>3, <1>4, <1>5, <2>1 DEF DumpInv, Shows
<1>7. LengthInv' /\ DoneInv' /\ DstBytes'
  BY <1>0, <1>1, TargetUntouched DEF Mapping
<1>8. RangeInv'
  BY DEF RangeInv
<1> QED
  BY <1>6, <1>7, <1>8 DEF FileInv

LEMMA DumpByteStep ==
    ASSUME FCInv, DumpByte PROVE FileInv'
<1> USE DEF FCInv, Goto
<1>1. /\ at = "hex_dump" /\ prog = "mmap_simple" /\ i < Size
      /\ UNCHANGED <<prog, old, shrunk, dst, len, doff, done, extended, arrived>>
  BY DEF DumpByte, DumpColumn, ProgInv, DumpPlaces, vars, peer
<1>2. /\ len \in Nat /\ doff \in Nat /\ LINE \in Nat \ {0} /\ i \in 0 .. len /\ j \in 0 .. LINE
      /\ FullLines /\ i = Len(out) * LINE + j /\ Len(out) \in Nat /\ INT_MAX \in Nat
  BY <1>1, FileAssumption, ConstantsAssumption DEF RangeInv, DumpInv, LengthInv, FullLines
<1>3. i < len /\ Offset \in Int /\ (doff <= INT_MAX => Offset = doff)
  <2>1. Size <= len /\ Size \in Int
    BY <1>2, ToIntIs DEF Size
  <2>2. Offset \in Int /\ (doff <= INT_MAX => Offset = doff)
    BY <1>2, ToIntIs DEF Offset
  <2> QED
    BY <1>1, <1>2, <2>1, <2>2
<1>4. CASE at' = "sigbus"
  BY <1>1, <1>4, DumpStops
<1>5. CASE at' # "sigbus" /\ j < LINE
  <2>1. DumpColumn(line, j) /\ out' = out
    BY <1>2, <1>5 DEF DumpByte
  <2>2. /\ line' = [line EXCEPT !.col[j] = Mapped(doff + i + 1)]
        /\ i' = i + 1 /\ j' = j + 1 /\ at' = "hex_dump"
    BY <1>5, <2>1 DEF DumpColumn
  <2>3. FullLines'
    BY <1>1, <1>2, <2>1 DEF FullLines, Shows, Offset, ToInt
  <2>4. /\ line \in Line /\ line.label = Offset + Len(out') * LINE
        /\ \A d \in 0 .. LINE - 1 :
             IF d < j THEN Shows(line.col[d], doff + Len(out') * LINE + d + 1) ELSE line.col[d] = Blank
    BY <1>1, <2>1 DEF DumpInv
  <2>5. j \in 0 .. LINE - 1 /\ Len(out') * LINE \in Int
    BY <1>2, <1>5, <2>1
  <2> QED
    BY <1>1, <1>2, <1>3, <2>1, <2>2, <2>3, <2>4, <2>5, ColumnStored DEF Printed
<1>6. CASE at' # "sigbus" /\ j = LINE
  <2>1. out' = Append(out, line)
    BY <1>6, <1>2 DEF DumpByte
  <2>2. FullLines' /\ Len(out') = Len(out) + 1
    BY <1>1, <1>6, <2>1, LinePrinted
  <2>3. i = Len(out') * LINE /\ Len(out') \in Nat
    <3>1. (Len(out) + 1) * LINE = Len(out) * LINE + LINE
      BY <1>2
    <3> QED
      BY <1>2, <1>6, <2>2, <3>1
  <2>4. CASE Fits(i + Offset) /\ DumpColumn(EmptyLine(i + Offset), 0)
    <3>1. /\ line' = [EmptyLine(i + Offset) EXCEPT !.col[0] = Mapped(doff + i + 1)]
          /\ i' = i + 1 /\ j' = 0 + 1 /\ at' = "hex_dump"
      BY <1>6, <2>4 DEF DumpColumn
    <3>2. i + Offset \in Int /\ i + Offset = Offset + Len(out') * LINE /\ i = Len(out') * LINE + 0
      BY <1>2, <1>3, <2>3
    <3>3. /\ EmptyLine(i + Offset) \in Line /\ EmptyLine(i + Offset).label = Offset + Len(out') * LINE
          /\ \A d \in 0 .. LINE - 1 : EmptyLine(i + Offset).col[d] = Blank
      BY <3>2, EmptyLineIs
    <3>4. 0 \in 0 .. LINE - 1 /\ Len(out') * LINE \in Int /\ \A d \in 0 .. LINE - 1 : ~(d < 0)
      BY <1>2, <2>3
    <3> QED
      BY <1>1, <1>2, <1>3, <2>2, <2>3, <3>1, <3>2, <3>3, <3>4, ColumnStored DEF Printed
  <2>5. CASE ~Fits(i + Offset) /\ at' = "undefined"
    <3>1. doff <= INT_MAX => doff + i >= LABELS
      BY <1>2, <1>3, <2>5, FileAssumption DEF Fits
    <3>2. Len(out') <= Len(out') * LINE
      BY <1>2, <2>3
    <3>3. Len(out') \in 0 .. len /\ Len(out') * LINE < len
      BY <1>2, <1>3, <2>3, <3>2
    <3>5. doff <= INT_MAX => doff + Len(out') * LINE >= LABELS
      BY <2>3, <3>1
    <3>6. doff <= INT_MAX \/ doff > INT_MAX
      BY <1>2
    <3>4. Overruns
      BY <3>3, <3>5, <3>6 DEF Overruns
    <3> QED
      BY <1>1, <2>5, <3>4, DumpStops
  <2> QED
    BY <1>2, <1>6, <2>4, <2>5 DEF DumpByte
<1> QED
  BY <1>2, <1>4, <1>5, <1>6

\* The line that was begun is printed last; it holds the bytes that are left.
LEMMA DumpRestStep ==
    ASSUME FCInv, DumpRest PROVE FileInv'
<1> USE DEF FCInv, Goto
<1>1. /\ at = "hex_dump" /\ prog = "mmap_simple" /\ i >= Size /\ at' = "munmap"
      /\ UNCHANGED <<prog, old, shrunk, dst, len, doff, done, i, j, line, extended, arrived>>
      /\ out' = IF j # 0 THEN Append(out, line) ELSE out
  BY DEF DumpRest, ProgInv, DumpPlaces, vars, peer
<1>a. len > 0 /\ len \in Nat /\ doff \in Nat /\ LINE \in Nat \ {0} /\ INT_MAX \in Nat
  BY <1>1, FileAssumption, ConstantsAssumption DEF RangeInv, LengthInv
<1>b. ASSUME Ints PROVE DumpRight'
  <2>0. Offset = doff /\ Size = len
    BY <1>a, <1>b, ToIntIs DEF Ints, Offset, Size
  <2>i. i = len
    BY <1>1, <1>a, <2>0 DEF DumpInv
  <2>2. len > 0 /\ len \in Nat /\ doff \in Nat /\ LINE \in Nat \ {0} /\ j \in 1 .. LINE
    BY <1>1, <1>a, <2>i DEF DumpInv
  <2>3. /\ out \in Seq(Line) /\ line \in Line
        /\ len = Len(out) * LINE + j
        /\ line.label = doff + Len(out) * LINE
        /\ \A c \in 0 .. LINE - 1 :
             IF c < j THEN Shows(line.col[c], doff + Len(out) * LINE + c + 1)
             ELSE line.col[c] = Blank
    BY <1>1, <2>0, <2>i DEF DumpInv, FullLines
  <2>4. out' = Append(out, line)
    BY <1>1, <2>2
  <2>5. Len(out) \in Nat /\ Len(out') = Len(out) + 1 /\ out' [Len(out) + 1] = line
    BY <2>3, <2>4
  <2>6. \A m \in 1 .. Len(out) : out'[m] = out[m]
    BY <2>3, <2>4
  <2>7. Len(out') = (len + LINE - 1) \div LINE
    <3>1. len + LINE - 1 = (Len(out) + 1) * LINE + (j - 1) /\ j - 1 \in 0 .. LINE - 1
      BY <2>2, <2>3, <2>5
    <3>2. (len + LINE - 1) \div LINE = Len(out) + 1
      BY <2>2, <2>5, <3>1, DivIs
    <3> QED
      BY <2>5, <3>2
  <2>8. ASSUME NEW m \in 1 .. Len(out')
        PROVE  /\ out'[m].label = doff + (m - 1) * LINE
               /\ \A c \in 0 .. LINE - 1 :
                    LET n == (m - 1) * LINE + c
                    IN IF n >= len THEN out'[m].col[c] = Blank
                       ELSE out'[m].col[c] = doff + n + 1 \/ (shrunk /\ out'[m].col[c] = 0)
    <3>1. CASE m = Len(out) + 1
      <4>1. m - 1 = Len(out) /\ Len(out) * LINE \in Int
        BY <2>2, <2>5, <3>1
      <4>2. \A c \in 0 .. LINE - 1 : (Len(out) * LINE + c >= len <=> ~(c < j))
        BY <2>2, <2>3, <4>1
      <4>3. \A c \in 0 .. LINE - 1 : doff + (Len(out) * LINE + c) + 1 = doff + Len(out) * LINE + c + 1
        BY <2>2, <4>1
      <4> QED
        BY <2>3, <2>5, <3>1, <4>1, <4>2, <4>3 DEF Shows
    <3>2. CASE m # Len(out) + 1
      <4>1. m \in 1 .. Len(out) /\ m - 1 \in Nat /\ m - 1 < Len(out)
        BY <2>5, <3>2
      <4>2. \A c \in 0 .. LINE - 1 : (m - 1) * LINE + c < Len(out) * LINE
        BY <2>5, <4>1, LinesInOrder
      <4>3. Len(out) * LINE \in Int /\ (m - 1) * LINE \in Int
        BY <2>2, <2>5, <4>1
      <4>4. ASSUME NEW c \in 0 .. LINE - 1 PROVE ~((m - 1) * LINE + c >= len)
        <5> DEFINE a == (m - 1) * LINE
                   b == Len(out) * LINE
        <5>1. a \in Int /\ b \in Int /\ a + c < b /\ len = b + j
          BY <2>3, <4>2, <4>3
        <5> HIDE DEF a, b
        <5>2. ~(a + c >= len)
          BY <2>2, <5>1
        <5> QED
          BY <5>2 DEF a
      <4>5. /\ out'[m].label = doff + (m - 1) * LINE
            /\ \A c \in 0 .. LINE - 1 : Shows(out'[m].col[c], doff + (m - 1) * LINE + c + 1)
        BY <1>1, <2>0, <2>6, <4>1 DEF DumpInv, FullLines
      <4>6. \A c \in 0 .. LINE - 1 : doff + ((m - 1) * LINE + c) + 1 = doff + (m - 1) * LINE + c + 1
        BY <2>2, <4>3
      <4> QED
        BY <4>4, <4>5, <4>6 DEF Shows
    <3> QED
      BY <3>1, <3>2
  <2> QED
    BY <1>1, <2>7, <2>8 DEF DumpRight
<1>2. DumpInv'
  <2>1. Ints' => Ints
    BY <1>1 DEF Ints
  <2> QED
    BY <1>1, <1>b, <2>1 DEF DumpInv
<1>3. LengthInv' /\ DoneInv' /\ DstBytes'
  BY <1>1, <1>a, TargetUntouched DEF Mapping
<1>4. RangeInv'
  BY <1>1 DEF RangeInv
<1> QED
  BY <1>2, <1>3, <1>4 DEF FileInv

LEMMA MmapSimpleStep ==
    ASSUME FCInv, mmap_simple PROVE FileInv'
<1>1. CASE r_open2("mmap_simple", "fstat") \/ munmap
  BY <1>1, QuietStep DEF r_open2, munmap, GivesUp, Goto, QuietMove, vars, peer
<1> QED
  BY <1>1, FstatStep, MapStep, DumpByteStep, DumpRestStep DEF mmap_simple, hex_dump

-----------------------------------------------------------------------------
(* SIGBUS, and the invariant *)

LEMMA FileInvKept ==
    ASSUME FCInv, [FCNext]_allvars PROVE FileInv'
<1>1. CASE Finished \/ UNCHANGED allvars \/ Killed
  BY <1>1, QuietStep DEF Finished, Killed, Goto, QuietMove, allvars, fvars, vars, peer
<1>5. CASE SourceShrinks
  BY <1>5, QuietStep DEF SourceShrinks, QuietMove
<1>2. CASE WriteSource
  BY <1>2, QuietStep DEF WriteSource, QuietMove, fvars
<1>3. CASE Library
  <2>1. UNCHANGED fvars
    BY <1>3 DEF Library
  <2>2. CASE prog = "library"
    BY <2>1, <2>2, QuietStep DEF QuietMove, fvars, FCInv, ProgInv
  <2>3. CASE prog # "library"
    <3>1. arrived' = arrived
      BY <1>3, <2>3 DEF Library, Step, Interrupted, r_read, r_write, readblock, readline, vars, peer
    <3> QED
      BY <2>1, <3>1, QuietStep DEF QuietMove, fvars
  <2> QED
    BY <2>2, <2>3
<1>4. CASE reg_fileio
  BY <1>4, QuietStep DEF reg_fileio, r_open2, r_open3, CallCopyfile, CopyfileDone, Call, Goto,
     QuietMove, fvars, vars, peer
<1> QED
  BY <1>1, <1>2, <1>3, <1>4, <1>5, MmapFileioStep, MmapSimpleStep DEF FCNext, Program

\* The bytes that memcpy and hex_dump touch lie in a page of a file that did
\* not shrink, and of a target that was made long enough.
LEMMA BusErrorKept ==
    ASSUME FCInv, [FCNext]_allvars PROVE BusErrorOnlyIfShrunk'
<1> USE DEF FCInv, BusErrorOnlyIfShrunk, Goto
<1>0. arrived \in Nat /\ len \in Int /\ Length(dst) \in Nat
  BY ConstantsAssumption DEF IInv, TypeOK, LengthInv
<1>1. CASE memcpy
  <2>1. CASE at' = "sigbus"
    <3>1. PICK k \in 1 .. len : k > PageEnd(arrived) \/ k > PageEnd(Length(dst))
      BY <1>1, <2>1 DEF memcpy
    <3>2. at = "memcpy" /\ prog = "mmap_fileio" /\ UNCHANGED <<prog, shrunk, extended, old, len>>
      BY <1>1, <2>1 DEF memcpy, ProgInv, MapPlaces
    <3>3. CASE k > PageEnd(arrived)
      <4>1. arrived < len
        BY <1>0, <3>3, PageEndCovers
      <4> QED
        BY <1>0, <3>2, <4>1 DEF DoneInv, Mapping
    <3>4. CASE k > PageEnd(Length(dst))
      <4>1. Length(dst) < len
        BY <1>0, <3>4, PageEndCovers
      <4> QED
        BY <1>0, <3>2, <4>1 DEF LengthInv, Mapping
    <3> QED
      BY <3>1, <3>3, <3>4
  <2> QED
    BY <1>1, <2>1 DEF memcpy
<1>2. CASE DumpByte
  <2>1. CASE at' = "sigbus"
    <3>1. /\ doff + i + 1 > PageEnd(arrived) /\ i < Size
          /\ at = "hex_dump" /\ prog = "mmap_simple" /\ UNCHANGED shrunk
      BY <1>2, <2>1 DEF DumpByte, DumpColumn, ProgInv, DumpPlaces
    <3>2. doff \in Nat /\ i \in Nat /\ len > 0
      BY <1>0, <3>1 DEF RangeInv, DumpInv
    <3>4. Size <= len /\ Size \in Int
      BY <1>0, <3>2, ToIntIs, ConstantsAssumption DEF Size
    <3>3. doff + len > arrived
      BY <1>0, <3>1, <3>2, <3>4, PageEndCovers
    <3> QED
      BY <1>0, <3>1, <3>2, <3>3 DEF RangeInv
  <2> QED
    BY <1>2, <2>1 DEF DumpByte, DumpColumn
<1>3. CASE Killed \/ SourceShrinks \/ Finished \/ UNCHANGED allvars
  BY <1>3 DEF Killed, SourceShrinks, Finished, allvars, fvars, memory, Ended
<1>4. CASE Library \/ WriteSource
  BY <1>4 DEF Library, WriteSource, fvars, memory
<1>5. CASE reg_fileio
  BY <1>5 DEF reg_fileio, r_open2, r_open3, CallCopyfile, CopyfileDone, fvars, memory
<1>6. CASE mmap_fileio /\ ~memcpy
  BY <1>6 DEF mmap_fileio, r_open2, r_open3, stat, ExtendTarget, MapFiles, GivesUp
<1>7. CASE mmap_simple /\ ~DumpByte
  BY <1>7 DEF mmap_simple, r_open2, fstat, Map, hex_dump, DumpRest, munmap, GivesUp
<1> QED
  BY <1>1, <1>2, <1>3, <1>4, <1>5, <1>6, <1>7 DEF FCNext, Program

LEMMA InitFCInv == FCInit => FCInv
<1> SUFFICES ASSUME FCInit PROVE FCInv
  OBVIOUS
<1> USE DEF FCInit
<1>1. IInv
  BY InitIInv
<1>2. ProgInv /\ BusErrorOnlyIfShrunk
  BY FileAssumption DEF ProgInv, BusErrorOnlyIfShrunk, MapPlaces, DumpPlaces, Ended
<1>3. CallInv
  BY DEF CallInv, Init
<1>4. old \in Nat /\ dst \in [1 .. old -> Int] /\ DOMAIN dst = 1 .. old
  BY FileAssumption DEF Old
<1>5. Length(dst) = old
  BY <1>4, LengthIs
<1>6. LengthInv
  BY <1>4, <1>5 DEF LengthInv, Mapping
<1>7. DoneInv
  BY <1>4 DEF DoneInv, Mapping
<1>8. DstBytes
  BY <1>4 DEF DstBytes
<1>9. RangeInv /\ DumpInv
  BY DEF RangeInv, DumpInv
<1> QED
  BY <1>1, <1>2, <1>3, <1>6, <1>7, <1>8, <1>9 DEF FCInv

LEMMA NextFCInv == FCInv /\ [FCNext]_allvars => FCInv'
  BY LibraryInv, PlacesKept, CallsKept, FileInvKept, BusErrorKept DEF FCInv, FileInv

LEMMA FCInvariance == FCSpec => []FCInv
  BY InitFCInv, NextFCInv, PTL DEF FCSpec

-----------------------------------------------------------------------------
(* The theorems *)

\* What copyfile has written is the beginning of the source.
LEMMA RegFileioTarget ==
    ASSUME FCInv, prog = "reg_fileio"
    PROVE  /\ nsent \in Nat /\ pos \in Nat /\ old \in Nat /\ nsent <= pos
           /\ \A k \in 1 .. nsent : sent[k] = k
           /\ DOMAIN Target = 1 .. (IF nsent > old THEN nsent ELSE old)
           /\ Length(Target) = IF nsent > old THEN nsent ELSE old
           /\ \A k \in DOMAIN Target : Target[k] = IF k <= nsent THEN k ELSE Old
<1> USE DEF FCInv
<1>1. nsent \in Nat /\ pos \in Nat /\ old \in Nat
  BY ConstantsAssumption DEF IInv, TypeOK, LengthInv
<1>2. start = 0 /\ ostart = 0 /\ fn \in {"none", "copyfile"} /\ (fn = "none" => nsent = 0)
  BY DEF CallInv
<1>3. nsent <= pos
  BY <1>1, <1>2 DEF IInv, OrderInv
<1>4. \A k \in 1 .. nsent : sent[k] = k
  <2> SUFFICES ASSUME NEW k \in 1 .. nsent PROVE sent[k] = k
    OBVIOUS
  <2>1. fn \in TransferFns
    BY <1>1, <1>2 DEF TransferFns, CopyFns
  <2>2. k \in 1 .. nsent - ostart /\ ostart + k = k /\ start + k = k
    BY <1>1, <1>2
  <2>3. sent[ostart + k] = start + k
    BY <2>1, <2>2 DEF IInv, OrderInv
  <2> QED
    BY <2>2, <2>3
<1> DEFINE L == IF nsent > old THEN nsent ELSE old
<1>5. Target = [k \in 1 .. L |-> IF k <= nsent THEN sent[k] ELSE Old]
  BY DEF Target
<1>6. DOMAIN Target = 1 .. L /\ L \in Nat
  BY <1>1, <1>5
<1>7. Length(Target) = L
  BY <1>6, LengthIs
<1>8. \A k \in 1 .. L : Target[k] = IF k <= nsent THEN k ELSE Old
  BY <1>1, <1>4, <1>5
<1> QED
  BY <1>1, <1>3, <1>4, <1>6, <1>7, <1>8

\* Wherever a copy is or stops, every byte of the target is the source's byte
\* at that place, what it was before, or a zero with a reason.
THEOREM TargetNeverGarbled == FCSpec => []TargetBytes
<1>1. FCInv => TargetBytes
  <2> SUFFICES ASSUME FCInv, prog \in Copiers PROVE TargetBytes
    BY DEF TargetBytes
  <2>1. CASE prog = "mmap_fileio"
    BY <2>1 DEF TargetBytes, Target, FCInv, DstBytes
  <2>2. CASE prog = "reg_fileio"
    <3>1. done = {}
      BY <2>2 DEF FCInv, DoneInv
    <3> QED
      BY <2>2, <3>1, RegFileioTarget DEF TargetBytes
  <2> QED
    BY <2>1, <2>2 DEF Copiers
<1> QED
  BY <1>1, FCInvariance, PTL

\* The count that reg_fileio prints tells how much of the target is the
\* source's, and whether that is all of it, as long as an int holds it: under
\* short counts, interruptions, failures and a source that shrinks.
\* mmap_fileio's target has the length of the source or the one it had, and no
\* copy makes it longer than the source.
THEOREM CopiesAreCounted == FCSpec => []CopyExtent
<1>1. FCInv => CopyExtent
  <2> SUFFICES ASSUME FCInv PROVE CopyExtent
    OBVIOUS
  <2> USE DEF FCInv
  <2>1. ASSUME prog = "reg_fileio", at = "exit0", arrived <= INT_MAX
        PROVE  /\ \A k \in 1 .. ret : k \in DOMAIN Target /\ Target[k] = k
               /\ ret = arrived <=> \A k \in 1 .. arrived : k \in DOMAIN Target /\ Target[k] = k
    <3>1. fn = "copyfile" /\ pc = "idle" /\ start = 0 /\ ostart = 0
      BY <2>1 DEF CallInv
    <3>2. /\ ret \in Int /\ nsent \in Nat /\ pos \in Nat /\ arrived \in Nat /\ old \in Nat
          /\ nsent <= pos /\ pos <= arrived /\ INT_MAX \in Nat
      BY <2>1, RegFileioTarget, ConstantsAssumption DEF IInv, TypeOK, OrderInv
    <3>3. ret <= nsent /\ (ret = nsent \/ nsent < pos)
      BY <2>1, <3>1, <3>2 DEF IInv, ReturnsExact, CopyfileCounts
    <3>4. /\ DOMAIN Target = 1 .. (IF nsent > old THEN nsent ELSE old)
          /\ \A k \in DOMAIN Target : Target[k] = IF k <= nsent THEN k ELSE Old
      BY <2>1, RegFileioTarget
    <3>5. \A k \in 1 .. nsent : k \in DOMAIN Target /\ Target[k] = k
      BY <3>2, <3>4
    <3>6. nsent < arrived => ~(nsent + 1 \in DOMAIN Target /\ Target[nsent + 1] = nsent + 1)
      BY <3>2, <3>4 DEF Old
    <3>7. nsent < arrived => nsent + 1 \in 1 .. arrived
      BY <3>2
    <3> QED
      BY <3>2, <3>3, <3>5, <3>6, <3>7
  <2>2. ASSUME prog = "mmap_fileio", at = "pause"
        PROVE  /\ Length(Target) = IF extended /\ len > old THEN len ELSE old
               /\ \A k \in 1 .. len : k \in DOMAIN Target =>
                     Target[k] = k \/ (shrunk /\ Target[k] = 0)
    <3>1. Target = dst
      BY <2>2 DEF Target
    <3>2. \A k \in 1 .. len : k \in DOMAIN dst => dst[k] = k \/ (shrunk /\ dst[k] = 0)
      BY <2>2 DEF DoneInv
    <3>3. Length(dst) = IF extended /\ len > old THEN len ELSE old
      BY <2>2 DEF LengthInv, Mapping
    <3> QED
      BY <3>1, <3>2, <3>3
  <2>3. Length(Target) > old => Length(Target) <= IF prog = "reg_fileio" THEN pos ELSE len
    <3>1. CASE prog = "reg_fileio"
      BY <3>1, RegFileioTarget
    <3>2. CASE prog # "reg_fileio"
      <4>1. Target = dst
        BY <3>2 DEF Target
      <4> QED
        BY <3>2, <4>1 DEF LengthInv
    <3> QED
      BY <3>1, <3>2
  <2> QED
    BY <2>1, <2>2, <2>3 DEF CopyExtent
<1> QED
  BY <1>1, FCInvariance, PTL

\* Only a source that shrank, or a target that could not be made long enough,
\* ends mmap_fileio or mmap_simple with SIGBUS.
THEOREM SigbusHasACause == FCSpec => []BusErrorOnlyIfShrunk
<1>1. FCInv => BusErrorOnlyIfShrunk
  BY DEF FCInv
<1> QED
  BY <1>1, FCInvariance, PTL

\* hex_dump prints the bytes it was asked for, for every width of its lines and
\* every offset and length that are ints and whose labels fit into temp; it
\* overruns temp only if a line begins at a number of seven digits, or the
\* offset is no int.
THEOREM DumpIsExact == FCSpec => []HexDumpExact
<1>1. FCInv => HexDumpExact
  BY DEF FCInv, DumpInv, DumpRight, HexDumpExact, Ints, Overruns
<1> QED
  BY <1>1, FCInvariance, PTL

\* What restart_lib.h promises holds in reg_fileio too, whose source another
\* process can shrink under copyfile.
THEOREM LibraryInPrograms == FCSpec => [](WrittenInOrder /\ BufferBounds /\ ReturnsExact)
<1>1. FCInv => WrittenInOrder /\ BufferBounds /\ ReturnsExact
  BY IInvImplies DEF FCInv
<1> QED
  BY <1>1, FCInvariance, PTL
=============================================================================
