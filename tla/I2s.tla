--------------------------------- MODULE I2s ---------------------------------
(***************************************************************************)
(* The I2S library: I2S.cpp and I2SDoubleBuffer.cpp over the DMA channel of *)
(* utility/DMA.cpp.                                                         *)
(*                                                                         *)
(* The sketch fills (or reads) one of two buffers while the DMA channel     *)
(* sends (or fills) the other; the transfer-complete interrupt swaps them.  *)
(* The calls of the library run with interrupts masked and are one step.    *)
(* The DMA interrupt has the lowest priority: with Preempt, handlers above  *)
(* it use the library too, between the steps of onTransferComplete.         *)
(*                                                                         *)
(* Bytes are numbered in the order of the writes, or of their arrival.      *)
(***************************************************************************)
EXTENDS Integers, Sequences, SequencesExt

CONSTANTS
    Width,          \* _bitsPerSample / 8, the bytes of a DMA beat
    Beats,          \* beats in a buffer
    Preempt,        \* handlers of higher priority call the library
    MaxLen,         \* bound: bytes of one call
    MaxTx, MaxRx,   \* bound: bytes written, bytes that arrive
    MaxEnds         \* bound: calls of end

ASSUME I2sAssumption ==
    /\ Width \in Nat \ {0} /\ Beats \in Nat \ {0}
    /\ Preempt \in BOOLEAN /\ MaxLen \in Nat
    /\ MaxTx \in Nat /\ MaxRx \in Nat /\ MaxEnds \in Nat

Size == Width * Beats       \* _size
Buffers == {0, 1}

VARIABLES
    mode,           \* _state: "idle", "tx" (transmitter), "rx" (receiver)
    index, length, readOffset, buffer,  \* _doubleBuffer
    progress,       \* _dmaTransferInProgress
    \* the DMA channel: descriptor and flags
    valid, on, at, left,    \* VALID, the buffer, next byte, beats to go
    tcmpl, terr,
    isr,            \* the next step of onTransferComplete
    written, out,   \* bytes accepted, bytes sent
    arrived, got,   \* bytes that arrived, bytes the sketch read
    ends,
    \* history
    skipped,        \* accepted bytes that are not sent: an odd rest, or end
    failed,         \* a transfer ended with an error
    preempted,      \* a handler called the library within onTransferComplete
    reread          \* it read from a buffer whose offset is about to be reset

double == <<index, length, readOffset, buffer>>
dma == <<valid, on, at, left, tcmpl, terr>>
tx == <<written, out, skipped>>
rx == <<arrived, got>>
history == <<failed, preempted, reread>>
vars == <<mode, double, progress, dma, isr, tx, rx, ends, history>>

Emptied == [b \in Buffers |-> [i \in 1..Size |-> 0]]

\* after begin
Init ==
    /\ mode = "idle" /\ progress = FALSE
    /\ index = 0 /\ buffer = Emptied
    /\ length = [b \in Buffers |-> 0] /\ readOffset = [b \in Buffers |-> 0]
    /\ valid = FALSE /\ on = 0 /\ at = 0 /\ left = 0 /\ tcmpl = FALSE /\ terr = FALSE
    /\ isr = "idle" /\ written = 0 /\ out = <<>> /\ arrived = 0 /\ got = <<>>
    /\ ends = 0 /\ skipped = {} /\ failed = FALSE
    /\ preempted = FALSE /\ reread = FALSE

-----------------------------------------------------------------------------
(* I2SDoubleBuffer *)
availableIn(len, off, b) == len[b] - off[b]
available == length[index] - readOffset[index]
availableForWrite == Size - available

\* a bug: the buffer in use stays in use
SwappedMutant(len, off, n) ==
    /\ index' = index
    /\ length' = [len EXCEPT ![index] = n]
    /\ readOffset' = [off EXCEPT ![index] = 0]

\* swap(n), after the buffers' lengths and offsets have become len and off
Swapped(len, off, n) ==
    /\ index' = 1 - index
    /\ length' = [len EXCEPT ![1 - index] = n]
    /\ readOffset' = [off EXCEPT ![1 - index] = 0]

-----------------------------------------------------------------------------
(* DMAClass::transfer, refused while VALID is set.  The addresses it is     *)
(* given are those of the end, so a size that is no multiple of the width   *)
(* starts behind the odd bytes.                                             *)
Transfer(b, n) ==
    IF valid THEN UNCHANGED dma
    ELSE /\ valid' = TRUE /\ on' = b
         /\ at' = n % Width /\ left' = n \div Width
         /\ UNCHANGED <<tcmpl, terr>>

OddBytes(buf, b, n) == {buf[b][i] : i \in 1..(n % Width)}

Moving == valid /\ left > 0

\* One beat of a transmission.
SendBeat ==
    /\ mode = "tx" /\ Moving
    /\ out' = out \o SubSeq(buffer[on], at + 1, at + Width)
    /\ at' = at + Width /\ left' = left - 1
    /\ tcmpl' = (left = 1)
    /\ UNCHANGED <<mode, double, progress, valid, on, terr, isr, written, skipped, rx,
                   ends, history>>

\* A sample arrives: the channel stores it, or it is lost.
ReceiveBeat ==
    /\ mode = "rx" /\ arrived + Width <= MaxRx
    /\ arrived' = arrived + Width
    /\ IF Moving
       THEN /\ buffer' = [buffer EXCEPT ![on] = [i \in 1..Size |->
                             IF i \in (at + 1)..(at + Width) THEN arrived + i - at ELSE @[i]]]
            /\ at' = at + Width /\ left' = left - 1
            /\ tcmpl' = (left = 1)
       ELSE UNCHANGED <<buffer, at, left, tcmpl>>
    /\ UNCHANGED <<mode, index, length, readOffset, progress, valid, on, terr, isr, tx,
                   got, ends, history>>

\* A bus error ends the transfer.
Error ==
    /\ Moving /\ ~terr
    /\ terr' = TRUE /\ left' = 0 /\ failed' = TRUE
    /\ UNCHANGED <<mode, double, progress, valid, on, at, tcmpl, isr, tx, rx, ends,
                   preempted, reread>>

-----------------------------------------------------------------------------
(* Calls of the sketch, or of a handler of higher priority, with interrupts *)
(* masked; the swap in them is one step.                                    *)
MayCall == isr = "idle" \/ Preempt
Called == preempted' = (preempted \/ isr # "idle") /\ UNCHANGED failed

\* write(buffer, n); fewer bytes than a beat are never transferred alone
Write(n) ==
    /\ MayCall /\ mode \in {"idle", "tx"} /\ written + n <= MaxTx
    /\ mode' = "tx"
    /\ LET w == IF n > availableForWrite THEN availableForWrite ELSE n
           l == length[index]
           len == [length EXCEPT ![index] = @ + w]
           buf == [buffer EXCEPT ![index] = [i \in 1..Size |->
                      IF i \in (l + 1)..(l + w) THEN written + i - l ELSE @[i]]]
           n1 == availableIn(len, readOffset, index)
       IN /\ written' = written + w
          /\ buffer' = buf
          /\ IF ~progress /\ n1 > 0
             THEN /\ progress' = TRUE
                  /\ Transfer(index, n1)
                  /\ skipped' = skipped \cup OddBytes(buf, index, n1)
                  /\ Swapped(len, readOffset, 0)
             ELSE /\ length' = len
                  /\ UNCHANGED <<progress, dma, skipped, index, readOffset>>
    /\ Called
    /\ UNCHANGED <<isr, out, rx, ends, reread>>

\* a bug: a drained buffer is not handed to the channel
ReadMutant(n) ==
    /\ MayCall /\ mode \in {"idle", "rx"}
    /\ mode' = "rx"
    /\ LET r == IF n > available THEN available ELSE n
           o == readOffset[index]
       IN /\ got' = got \o SubSeq(buffer[index], o + 1, o + r)
          /\ readOffset' = [readOffset EXCEPT ![index] = @ + r]
          /\ reread' = (reread \/ (isr = "setOffset" /\ r > 0))
          /\ UNCHANGED <<progress, dma, index, length>>
    /\ Called
    /\ UNCHANGED <<buffer, isr, tx, arrived, ends>>

\* read(buffer, n), available() as n = 0
Read(n) ==
    /\ MayCall /\ mode \in {"idle", "rx"}
    /\ mode' = "rx"
    /\ LET r == IF n > available THEN available ELSE n
           o == readOffset[index]
           off == [readOffset EXCEPT ![index] = @ + r]
       IN /\ got' = got \o SubSeq(buffer[index], o + 1, o + r)
          /\ reread' = (reread \/ (isr = "setOffset" /\ r > 0))
          /\ IF ~progress /\ availableIn(length, off, index) = 0
             THEN /\ progress' = TRUE
                  /\ Transfer(index, Size)
                  /\ Swapped(length, off, 0)
             ELSE /\ readOffset' = off
                  /\ UNCHANGED <<progress, dma, index, length>>
    /\ Called
    /\ UNCHANGED <<buffer, isr, tx, arrived, ends>>

\* end, and a begin after it: what was not sent is given up
EndBegin ==
    /\ isr = "idle" /\ ~tcmpl /\ ~terr /\ mode # "idle" /\ ends < MaxEnds
    /\ ends' = ends + 1 /\ failed' = FALSE
    /\ mode' = "idle" /\ progress' = FALSE
    /\ index' = 0 /\ buffer' = Emptied
    /\ length' = [b \in Buffers |-> 0] /\ readOffset' = [b \in Buffers |-> 0]
    /\ valid' = FALSE /\ on' = 0 /\ at' = 0 /\ left' = 0
    /\ skipped' = skipped \cup (1..written \ ToSet(out))
    /\ UNCHANGED <<tcmpl, terr, isr, written, out, rx, preempted,
                   reread>>

-----------------------------------------------------------------------------
(* DMAClass::onService, and I2SClass::onTransferComplete                    *)

\* There is no callback for errors.
ServiceError ==
    /\ isr = "idle" /\ terr
    /\ valid' = FALSE /\ terr' = FALSE
    /\ UNCHANGED <<mode, double, progress, on, at, left, tcmpl, isr, tx, rx, ends,
                   history>>

Service ==
    /\ isr = "idle" /\ tcmpl
    /\ valid' = FALSE /\ tcmpl' = FALSE
    /\ isr' = "test"
    /\ UNCHANGED <<mode, double, progress, on, at, left, terr, tx, rx, ends, history>>

Test ==
    /\ isr = "test"
    /\ isr' = IF (mode = "tx") = (available > 0) THEN "start" ELSE "stop"
    /\ UNCHANGED <<mode, double, progress, dma, tx, rx, ends, history>>

Start ==
    /\ isr = "start"
    /\ LET n == IF mode = "tx" THEN available ELSE availableForWrite IN
       /\ Transfer(index, n)
       /\ skipped' = IF mode = "tx" THEN skipped \cup OddBytes(buffer, index, n) ELSE skipped
    /\ isr' = "swap"
    /\ UNCHANGED <<mode, double, progress, written, out, rx, ends, history>>

(* I2SDoubleBuffer::swap, store by store.  Its argument was computed before, *)
(* of the buffer now left, which no call touches in between.                 *)
SwapIndex ==
    /\ isr = "swap"
    /\ index' = 1 - index
    /\ isr' = "setLength"
    /\ UNCHANGED <<mode, length, readOffset, buffer, progress, dma, tx, rx, ends, history>>

SetLength ==
    /\ isr = "setLength"
    /\ length' = [length EXCEPT ![index] =
                     IF mode = "tx" THEN 0
                     ELSE Size - availableIn(length, readOffset, 1 - index)]
    /\ isr' = "setOffset"
    /\ UNCHANGED <<mode, index, readOffset, buffer, progress, dma, tx, rx, ends, history>>

ResetOffset ==
    /\ isr = "setOffset"
    /\ readOffset' = [readOffset EXCEPT ![index] = 0]
    /\ isr' = "idle"
    /\ UNCHANGED <<mode, index, length, buffer, progress, dma, tx, rx, ends, history>>

\* a bug: the transfer counts as still in progress
StopMutant ==
    /\ isr = "stop"
    /\ isr' = "idle"
    /\ UNCHANGED <<mode, double, progress, dma, tx, rx, ends, history>>

Stop ==
    /\ isr = "stop"
    /\ progress' = FALSE /\ isr' = "idle"
    /\ UNCHANGED <<mode, double, dma, tx, rx, ends, history>>

Handler ==
    \/ ServiceError \/ Service \/ Test \/ Start \/ Stop
    \/ SwapIndex \/ SetLength \/ ResetOffset

Next ==
    \/ \E n \in Width..MaxLen : Write(n)
    \/ \E n \in 0..MaxLen : Read(n)
    \/ EndBegin
    \/ SendBeat \/ ReceiveBeat \/ Error
    \/ Handler

(* The clock runs and the interrupt is taken. *)
Spec == Init /\ [][Next]_vars /\ WF_vars(SendBeat) /\ WF_vars(Handler)

-----------------------------------------------------------------------------
Increasing(s) == \A i, j \in DOMAIN s : i < j => s[i] < s[j]
InDma == IF Moving THEN {buffer[on][i] : i \in (at + 1)..(at + Width * left)} ELSE {}
Buffered == {buffer[index][i] : i \in (readOffset[index] + 1)..length[index]}

(* The state keeps its types: neither the sketch nor the channel leaves its *)
(* buffer.                                                                  *)
TypeOK ==
    /\ mode \in {"idle", "tx", "rx"} /\ index \in Buffers /\ on \in Buffers
    /\ length \in [Buffers -> 0..Size] /\ readOffset \in [Buffers -> 0..Size]
    /\ buffer \in [Buffers -> [1..Size -> Nat]]
    /\ progress \in BOOLEAN /\ valid \in BOOLEAN
    /\ tcmpl \in BOOLEAN /\ terr \in BOOLEAN
    /\ failed \in BOOLEAN /\ preempted \in BOOLEAN /\ reread \in BOOLEAN
    /\ left \in 0..Beats /\ at \in 0..Size /\ at + Width * left <= Size
    /\ isr \in {"idle", "test", "start", "swap", "setLength", "setOffset", "stop"}
    /\ written \in 0..MaxTx /\ arrived \in 0..MaxRx /\ ends \in 0..MaxEnds
    /\ out \in Seq(Nat) /\ got \in Seq(Nat) /\ skipped \subseteq Nat

(* The library never starts a transfer the channel refuses (DMA.cpp         *)
(* 176-179, a result I2S.cpp ignores): between transfers it knows the       *)
(* channel is free.                                                         *)
NeverRefused == valid => progress /\ isr \notin {"test", "start", "stop"}

(* The channel and the sketch work on different buffers, but for the time   *)
(* between the start of a transfer and the first store of the swap.         *)
Apart == Moving /\ isr # "swap" => on # index

(* Samples go out in the order they were written (I2S.cpp 357-387,         *)
(* 480-497), also when handlers write, and are read in the order they      *)
(* arrived, each once; what the sketch does not fetch in time is missing    *)
(* in whole buffers (498-512).  Bytes a handler reads between the last two  *)
(* stores of a swap, when the new length is there and the offset is not     *)
(* reset yet, are read once more.                                           *)
InOrder ==
    /\ Increasing(out)
    /\ ~reread =>
         /\ Increasing(got)
         /\ ends = 0 =>
              \A i \in DOMAIN got : i > 1 /\ got[i] # got[i - 1] + 1 => (i - 1) % Size = 0

(* An accepted byte is sent, on its way, or an odd byte of a transfer, and  *)
(* a transfer that fails loses its rest.  A handler that writes between the *)
(* start of a transfer and the swap is not covered: its bytes are lost.     *)
NothingLost ==
    mode = "tx" /\ isr = "idle" /\ ~preempted /\ ~failed
    => 1..written \subseteq ToSet(out) \cup InDma \cup Buffered \cup skipped

(* A receiver without a transfer has data to read, so the call that reads   *)
(* the last of it starts the next transfer (I2S.cpp 321-329).               *)
Restarts ==
    mode = "rx" /\ isr = "idle" /\ ~progress /\ ~preempted => available > 0

(* Everything accepted is sent in the end without another call, unless a    *)
(* transfer failed, which stops the transmitter for good (DMA.cpp 255-262), *)
(* or a handler wrote between the last look at the buffer and the end of    *)
(* the transfer.                                                            *)
AllSent ==
    (mode = "tx") ~> \/ 1..written \subseteq ToSet(out) \cup skipped
                     \/ preempted \/ failed
=============================================================================
