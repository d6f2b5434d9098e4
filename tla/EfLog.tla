-------------------------------- MODULE EfLog --------------------------------
(***************************************************************************)
(* The log of libraries/DFRobot_EasyFlash: ef_log.c over ef_port.c.         *)
(*                                                                         *)
(* The log is a ring of sectors.  A sector has a header, whose words go     *)
(* from erased to EMPTY, USING and FULL, and words of data.  The next       *)
(* sector is erased when one is full.  RAM holds the start and the end      *)
(* address; after a power failure they are found again from the headers and *)
(* from the erased words at the end of the USING sector.                    *)
(*                                                                         *)
(* A step is one write or one erase of the flash.  Addresses are offsets in *)
(* the area, in words, the header counted as one word.  A word is its       *)
(* number in the order of the writes, negative when its last byte is 0xFF,  *)
(* and 0 when all its bytes are, which is what an erased word reads.        *)
(***************************************************************************)
EXTENDS Integers, FiniteSets, Sequences

CONSTANTS
    N,              \* sectors of the area
    W,              \* words of data in a sector
    MaxLen,         \* bound: words of one write
    MaxWords,       \* bound: words written
    MaxCrashes,     \* bound: power failures
    MaxCleans       \* bound: calls of ef_log_clean

ASSUME LogAssumption ==
    /\ N \in Nat /\ N >= 2 /\ W \in Nat \ {0}
    /\ MaxLen \in Nat /\ MaxWords \in Nat
    /\ MaxCrashes \in Nat /\ MaxCleans \in Nat

Sectors == 0..(N - 1)
H == 1                      \* LOG_SECTOR_HEADER_SIZE
S == H + W                  \* EF_ERASE_MIN_SIZE
Area == N * S               \* LOG_AREA_SIZE
Erased == [i \in 1..W |-> 0]
Corrupt == MaxWords + 1     \* a word programmed twice

VARIABLES
    status,         \* what the header of a sector says
    data,           \* its words
    startAddr, endAddr, \* log_start_addr, log_end_addr
    pc,             \* the next write of the flash
    writeAddr, rest, \* write_addr, the words still to write
    fmt,            \* headers written by ef_log_clean
    next, crashes, cleans,
    \* history
    logged,         \* the words written since the last clean
    changing,       \* the last power failure came while sectors changed
    full,           \* one came between filling a sector and marking it FULL
    dirty,          \* used sectors ef_log_clean has not erased
    spoilt          \* a boot found the end before the last word, or a dirty sector

flash == <<status, data>>
ram == <<startAddr, endAddr>>
call == <<writeAddr, rest, next, cleans>>
boot == <<changing, full>>
vars == <<flash, ram, pc, call, fmt, crashes, logged, boot, dirty, spoilt>>

Init ==
    /\ status = [s \in Sectors |-> "erased"] /\ data = [s \in Sectors |-> Erased]
    /\ startAddr = 0 /\ endAddr = 0
    /\ pc = "off" /\ writeAddr = 0 /\ rest = <<>> /\ fmt = 0
    /\ next = 0 /\ crashes = 0 /\ cleans = 0
    /\ logged = <<>> /\ changing = TRUE /\ full = FALSE
    /\ dirty = {} /\ spoilt = FALSE

-----------------------------------------------------------------------------
(* The flash.  Programming an erased word stores it, programming any other  *)
(* spoils it; programming over a header makes it invalid.                   *)
SectorOf(a) == a \div S
Room(a) == S - (a % S)

Programmed(old, new) ==
    IF old = 0 THEN new ELSE IF new = 0 THEN old ELSE Corrupt

Put(a, ws) ==
    LET s == SectorOf(a)
        first == (a % S) - H + 1        \* 1 for the first word of data
    IN /\ data' = [data EXCEPT ![s] = [d \in 1..W |->
                      LET i == d - first + 1
                      IN IF i \in DOMAIN ws THEN Programmed(@[d], ws[i]) ELSE @[d]]]
       /\ status' = IF ws # <<>> /\ first < 1
                    THEN [status EXCEPT ![s] = "invalid"] ELSE status

\* write_sector_status
AfterMark(old, new) ==
    IF <<old, new>> \in {<<"erased", "empty">>, <<"empty", "using">>, <<"using", "full">>}
    THEN new
    ELSE IF <<old, new>> = <<"empty", "full">> THEN "invalid" ELSE old

Mark(s, new) == status' = [status EXCEPT ![s] = AfterMark(@, new)]

\* get_next_flash_sec_addr
NextSector(a) == ((SectorOf(a) + 1) % N) * S

-----------------------------------------------------------------------------
(* find_start_and_end_addr                                                  *)

Using == {s \in Sectors : status[s] = "using"}

\* The neighbours the scan takes for an error.
Disorder ==
    \/ \E s \in Sectors \ {N - 1} :
          <<status[s], status[s + 1]>> \in
              {<<"empty", "using">>, <<"empty", "full">>, <<"using", "using">>}
    \/ \E r, s \in Sectors \ {N - 1} :
          /\ r < s
          /\ status[r] = "using" /\ status[r + 1] = "full"
          /\ status[s] = "full" /\ status[s + 1] = "empty"

MustClean ==
    \/ \E s \in Sectors : status[s] \in {"erased", "invalid"}
    \/ Disorder
    \/ Cardinality(Using) # 1

\* find_sec_using_end_addr counts the 0xFF bytes at the end of the sector and
\* rounds them up to words, so the word before the erased ones counts as erased
\* when its last byte is 0xFF.
LastUsed(s) ==
    LET used == {i \in 1..W : data[s][i] # 0}
    IN CHOOSE i \in used \cup {0} : \A j \in used : j <= i

\* a bug: the last word is taken for erased
FindEndMutant(s) == s * S + H + LastUsed(s) - (IF LastUsed(s) > 0 THEN 1 ELSE 0)

FindEnd(s) ==
    LET l == LastUsed(s)
        cut == IF l \in 1..(W - 1) THEN data[s][l] < 0 ELSE FALSE
    IN s * S + H + (IF cut THEN l - 1 ELSE l)

FindStart(u) ==
    IF u < N - 1 THEN IF status[u + 1] = "full" THEN (u + 1) * S ELSE 0 ELSE 0

\* a bug: a USING sector before an EMPTY one is taken for an error
BootMutant ==
    /\ pc = "off"
    /\ IF MustClean \/ \E s \in Sectors \ {N - 1} : status[s] = "using" /\ status[s + 1] = "empty"
       THEN pc' = "clean" /\ UNCHANGED <<ram, spoilt>>
       ELSE \E u \in Using :
              /\ startAddr' = FindStart(u) /\ endAddr' = FindEnd(u)
              /\ spoilt' = (spoilt \/ dirty # {} \/ (logged # <<>> /\ logged[Len(logged)] <= 0))
              /\ pc' = "idle"
    /\ UNCHANGED <<flash, call, fmt, crashes, logged, boot, dirty>>

\* ef_log_init
Boot ==
    /\ pc = "off"
    /\ IF MustClean
       THEN pc' = "clean" /\ UNCHANGED <<ram, spoilt>>
       ELSE \E u \in Using :
              /\ startAddr' = FindStart(u) /\ endAddr' = FindEnd(u)
              /\ spoilt' = (spoilt \/ dirty # {} \/ (logged # <<>> /\ logged[Len(logged)] <= 0))
              /\ pc' = "idle"
    /\ UNCHANGED <<flash, call, fmt, crashes, logged, boot, dirty>>

-----------------------------------------------------------------------------
(* ef_log_clean.  ef_port_erase erases one sector whatever size it is given *)
(* (ef_port.c 114-130), so only the first one is erased.                    *)

Clean ==
    /\ pc = "idle" /\ cleans < MaxCleans
    /\ cleans' = cleans + 1 /\ pc' = "clean"
    /\ UNCHANGED <<flash, ram, writeAddr, rest, next, fmt, crashes, logged, boot,
                   dirty, spoilt>>

CleanErase ==
    /\ pc = "clean"
    /\ startAddr' = 0 /\ endAddr' = H
    /\ status' = [status EXCEPT ![0] = "erased"]
    /\ data' = [data EXCEPT ![0] = Erased]
    /\ logged' = <<>> /\ full' = FALSE /\ spoilt' = FALSE
    /\ dirty' = {s \in Sectors \ {0} : status[s] \notin {"erased", "empty"}}
    /\ pc' = "format" /\ fmt' = 0
    /\ UNCHANGED <<call, crashes, changing>>

\* The headers: EMPTY and USING of the first sector, EMPTY of every other one.
Format ==
    /\ pc = "format"
    /\ IF fmt = 0 THEN Mark(0, "empty")
       ELSE IF fmt = 1 THEN Mark(0, "using")
       ELSE Mark(fmt - 1, "empty")
    /\ fmt' = IF fmt = N THEN 0 ELSE fmt + 1
    /\ pc' = IF fmt = N THEN "idle" ELSE "format"
    /\ UNCHANGED <<data, ram, call, crashes, logged, boot, dirty, spoilt>>

-----------------------------------------------------------------------------
(* ef_log_write                                                             *)

\* The words of a write of n words: what the last one's bytes end in matters.
Words(n, last) ==
    [i \in 1..n |-> IF i < n \/ last = "plain" THEN next + i
                    ELSE IF last = "tail" THEN -(next + i) ELSE 0]

\* A write to a sector with a bad header is refused and changes nothing; the
\* status is read behind the area when the last sector is full.  Bound: one
\* word of a log ends in 0xFF.
Write(n, last) ==
    /\ pc = "idle" /\ next + n <= MaxWords
    /\ last = "plain" \/ \A i \in DOMAIN logged : logged[i] > 0
    /\ endAddr < Area /\ status[SectorOf(endAddr)] \in {"empty", "using", "full"}
    /\ rest' = Words(n, last) /\ next' = next + n
    /\ writeAddr' = endAddr
    /\ pc' = IF status[SectorOf(endAddr)] = "full" THEN "erase"
             ELSE IF n >= Room(endAddr) THEN "fillOld" ELSE "part"
    /\ UNCHANGED <<flash, ram, fmt, cleans, crashes, logged, boot, dirty, spoilt>>

Fill ==
    /\ pc \in {"fillOld", "fillNew"}
    /\ LET n == Room(writeAddr) IN
       /\ Put(writeAddr, SubSeq(rest, 1, n))
       /\ logged' = logged \o SubSeq(rest, 1, n)
       /\ rest' = SubSeq(rest, n + 1, Len(rest))
    /\ pc' = IF pc = "fillOld" THEN "fullOld" ELSE "fullNew"
    /\ UNCHANGED <<ram, writeAddr, next, cleans, fmt, crashes, boot, dirty, spoilt>>

MarkFull ==
    /\ pc \in {"fullOld", "fullNew"}
    /\ Mark(SectorOf(writeAddr), "full")
    /\ endAddr' = IF pc = "fullNew" THEN writeAddr + W ELSE endAddr
    /\ pc' = "erase"
    /\ UNCHANGED <<data, startAddr, call, fmt, crashes, logged, boot, dirty, spoilt>>

Erase ==
    /\ pc = "erase"
    /\ LET a == NextSector(writeAddr - 1) IN
       /\ startAddr' = IF startAddr = a THEN NextSector(startAddr) ELSE startAddr
       /\ status' = [status EXCEPT ![SectorOf(a)] = "erased"]
       /\ data' = [data EXCEPT ![SectorOf(a)] = Erased]
       /\ writeAddr' = a
       /\ dirty' = dirty \ {SectorOf(a)}
    /\ pc' = "empty"
    /\ UNCHANGED <<endAddr, rest, next, cleans, fmt, crashes, logged, boot, spoilt>>

MarkEmpty ==
    /\ pc = "empty"
    /\ Mark(SectorOf(writeAddr), "empty")
    /\ pc' = "using"
    /\ UNCHANGED <<data, ram, call, fmt, crashes, logged, boot, dirty, spoilt>>

MarkUsing ==
    /\ pc = "using"
    /\ Mark(SectorOf(writeAddr), "using")
    /\ writeAddr' = writeAddr + H
    /\ pc' = IF Len(rest) >= W THEN "fillNew" ELSE "part"
    /\ UNCHANGED <<data, ram, rest, next, cleans, fmt, crashes, logged, boot, dirty,
                   spoilt>>

Part ==
    /\ pc = "part"
    /\ Put(writeAddr, rest)
    /\ logged' = logged \o rest
    /\ endAddr' = writeAddr + Len(rest)
    /\ rest' = <<>> /\ pc' = "idle"
    /\ UNCHANGED <<startAddr, writeAddr, next, cleans, fmt, crashes, boot, dirty, spoilt>>

-----------------------------------------------------------------------------
(* The power fails, or the board is reset: before any write of the flash,   *)
(* or after k words of one.                                                 *)
PowerFails(k) ==
    /\ pc # "off" /\ crashes < MaxCrashes
    /\ crashes' = crashes + 1
    /\ LET ws == SubSeq(rest, 1, k) IN
       IF k = 0 THEN UNCHANGED <<flash, logged>>
       ELSE /\ pc \in {"fillOld", "fillNew", "part"} /\ k < Len(rest) /\ k < Room(writeAddr)
            /\ Put(writeAddr, ws) /\ logged' = logged \o ws
    /\ startAddr' = 0 /\ endAddr' = 0 /\ writeAddr' = 0 /\ rest' = <<>> /\ fmt' = 0
    /\ changing' = (pc \notin {"idle", "fillOld", "fillNew", "part"})
    /\ full' = (full \/ pc \in {"fullOld", "fullNew"})
    /\ pc' = "off"
    /\ UNCHANGED <<next, cleans, dirty, spoilt>>

WriteStep == Fill \/ MarkFull \/ Erase \/ MarkEmpty \/ MarkUsing \/ Part
Step == Boot \/ CleanErase \/ Format \/ WriteStep

Next ==
    \/ \E n \in 1..MaxLen, last \in {"plain", "tail", "blank"} : Write(n, last)
    \/ Clean
    \/ Step
    \/ \E k \in 0..W : PowerFails(k)

(* A call goes on to its end unless the power fails. *)
Spec == Init /\ [][Next]_vars /\ WF_vars(Step)

-----------------------------------------------------------------------------
(* ef_log_get_used_size, ef_log_read                                        *)

UsedSize ==
    LET physical == IF startAddr < endAddr THEN endAddr - startAddr
                    ELSE Area - (startAddr - endAddr)
    IN physical - (physical \div S + 1) * H

\* a bug: the header of the first sector is not counted
IndexToAddrMutant(i) ==
    LET a == startAddr + i + (i \div W) * H
    IN IF startAddr < endAddr \/ a < Area THEN a ELSE a - Area

\* log_index2addr
IndexToAddr(i) ==
    LET a == startAddr + i + (i \div W + 1) * H
    IN IF startAddr < endAddr \/ a < Area THEN a ELSE a - Area

Header == -Corrupt          \* what a word of a header, or behind the area, reads
Cell(a) ==
    IF a >= Area \/ (a % S) < H THEN Header ELSE data[SectorOf(a)][(a % S) - H + 1]
Cells(a, n) == [i \in 1..n |-> Cell(a + i - 1)]

\* log_seq_read: addr moves over the headers, and the room in the sector is taken
\* from addr without what has been read (line 432).
Loop == [addr : Nat, read_size : Nat, size : Nat]
DataAddr(l) == IF (l.addr + l.read_size) % S = 0 THEN l.addr + H ELSE l.addr
TempSize(l) == LET room == Room(DataAddr(l)) IN IF l.size < room THEN l.size ELSE room
Turn(l) == [addr |-> DataAddr(l), read_size |-> l.read_size + TempSize(l),
            size |-> l.size - TempSize(l)]

LoopReads[l \in Loop] ==
    IF l.size = 0 THEN <<>>
    ELSE Cells(DataAddr(l) + l.read_size, TempSize(l)) \o LoopReads[Turn(l)]

SeqRead(a, size) == LoopReads[[addr |-> a, read_size |-> 0, size |-> size]]

\* ef_log_read of a size the log has.  The last of its branches needs an address
\* behind the area and is never taken.
Read(i, size) ==
    LET a == IndexToAddr(i)
        toEnd == (Area - a) - ((Area - a) \div S) * H
    IN IF startAddr < endAddr \/ a + size <= Area THEN SeqRead(a, size)
       ELSE SeqRead(a, toEnd) \o SeqRead(0, size - toEnd)

-----------------------------------------------------------------------------
(* The log as its addresses delimit it: the data of the sectors from the    *)
(* start to the one before the end, then the words before the end.          *)
First == SectorOf(startAddr)
Current == SectorOf(endAddr - 1)
Size == ((Current - First) % N) * W + endAddr - Current * S - H
Contents ==
    [i \in 1..Size |-> data[(First + ((i - 1) \div W)) % N][((i - 1) % W) + 1]]

Sound == pc = "idle" /\ ~full /\ ~spoilt

(* The log is the newest of the words written since it was cleaned, in      *)
(* order, and at least N - 1 sectors of them, also after a power failure in *)
(* the middle of a write (find_start_and_end_addr): only whole sectors, the *)
(* oldest, are given up.  Not covered: a boot after a word that ends in     *)
(* 0xFF or after a clean, and a failure just before FULL is written.        *)
KeepsNewest ==
    Sound => LET n == Len(Contents) IN
        /\ n <= Len(logged)
        /\ Contents = SubSeq(logged, Len(logged) - n + 1, Len(logged))
        /\ n = Len(logged) \/ n >= (N - 1) * W

(* ef_log_read returns the words at an index of the log, and                *)
(* ef_log_get_used_size their number.  Only reads within two sectors: over  *)
(* a third one log_seq_read loses count, and answers a header for a word.   *)
ReadBack ==
    Sound =>
        /\ UsedSize = Len(Contents)
        /\ \A i \in 0..(UsedSize - 1), n \in 1..UsedSize :
              i + n <= UsedSize /\ (i + n - 1) \div W <= i \div W + 1
              => Read(i, n) = SubSeq(Contents, i + 1, i + n)

(* "Clean all log which in flash." (ef_log.c 692): a cleaned log is empty,  *)
(* and stays so until something is written.                                 *)
CleanForgets == pc = "idle" /\ logged = <<>> => UsedSize = 0

(* Loading gives the whole log up only after a failure between filling one  *)
(* sector and opening the next (or while cleaning), or when a clean left    *)
(* used sectors behind; comment at line 380: "this state is almost          *)
(* impossible".                                                             *)
WipedForReason ==
    [][pc = "off" /\ pc' = "clean" => changing \/ full \/ dirty # {}]_vars

=============================================================================
