-------------------------------- MODULE Uart --------------------------------
(***************************************************************************)
(* The buffered serial port: cores/arduino/Uart.cpp over the USART half of  *)
(* SERCOM.cpp and two RingBuffers.                                          *)
(*                                                                         *)
(* Four actors share the rings and the registers; each access to a volatile *)
(* is a step.  The sketch ("thread") runs write, read and flush.  The UART  *)
(* interrupt runs IrqHandler, at the lowest priority there is.  The "isr"   *)
(* context is code the UART interrupt cannot preempt, but which may preempt *)
(* it: an exception handler of the user, or a section with interrupts       *)
(* masked.  The shift registers are the hardware side.                      *)
(*                                                                         *)
(* Bytes are numbered in the order they were handed to write, or in the     *)
(* order they arrived, so that order and loss are visible.                  *)
(***************************************************************************)
EXTENDS RingBuffer, Sequences, FiniteSets

CONSTANTS
    RtsThreshold,   \* RTS_RX_THRESHOLD
    HasRts,         \* uc_pinRTS # NO_RTS_PIN
    Slack,          \* bytes the peer may still send once it sees RTS go up
    FrameErrors,    \* the received bytes that arrive with a framing error
    NestedWrites,   \* the isr context may write in the middle of a write
    MaxTx, MaxRx    \* bounds: bytes written, bytes received

ASSUME UartAssumption ==
    /\ RtsThreshold \in Nat /\ Slack \in Nat
    /\ MaxTx \in Nat /\ MaxRx \in Nat
    /\ HasRts \in BOOLEAN /\ NestedWrites \in BOOLEAN
    /\ FrameErrors \subseteq Nat

HwFifo == 2         \* receive FIFO of the USART, in bytes
Ctx == {"thread", "isr"}

VARIABLES
    tx, rx,         \* txBuffer, rxBuffer
    dataReg,        \* transmit DATA register; DRE is dataReg = NoChar
    shiftReg,       \* transmit shift register
    txc,            \* INTFLAG.TXC
    dreIrq,         \* INTENSET.DRE
    wire,           \* the bytes that left the pin
    rxHw,           \* received bytes waiting in the USART
    rts,            \* TRUE while the RTS pin lets the peer send
    peer,           \* bytes the peer may send with RTS withdrawn
    err,            \* INTFLAG.ERROR
    pc, arg, slot,  \* per context: next access, byte to write, new head
    irq,            \* next access of the UART interrupt's IrqHandler
    held, newHead,  \* in it: the byte in a register, store_char's new head
    nested,         \* a writer broke into another one's write, or put a byte
                    \* in DATA while the interrupt held the one before
    cut,            \* DRE was last enabled just before an interrupt that had
                    \* seen the ring empty disables it
    crossed,        \* a nested handler took a received byte out of turn
    rdVal, rdWrap,  \* read(): the byte read, the test of availableForStore
    written,        \* number of bytes handed to write
    arrived, lost, got  \* bytes received, those dropped, those returned

txVars == <<tx, dataReg, shiftReg, txc, dreIrq, wire>>
rxVars == <<rx, rxHw, rts, peer, err, arrived, lost, crossed>>
rdVars == <<rdVal, rdWrap, got>>
wrVars == <<arg, slot, written, nested, cut>>
irqVars == <<irq, held, newHead>>
vars == <<txVars, rxVars, rdVars, wrVars, irqVars, pc>>

DRE == dataReg = NoChar

Init ==
    /\ tx = EmptyRing /\ rx = EmptyRing
    /\ dataReg = NoChar /\ shiftReg = NoChar
    /\ txc = FALSE /\ dreIrq = FALSE /\ wire = <<>>
    /\ rxHw = <<>> /\ rts = TRUE /\ peer = Slack /\ err = FALSE
    /\ pc = [c \in Ctx |-> "idle"]
    /\ arg = [c \in Ctx |-> 0] /\ slot = [c \in Ctx |-> 0]
    /\ irq = "idle" /\ held = NoChar /\ newHead = 0
    /\ rdVal = NoChar /\ rdWrap = FALSE
    /\ nested = FALSE /\ cut = FALSE /\ crossed = FALSE
    /\ written = 0 /\ arrived = 0 /\ lost = {} /\ got = <<>>

(* The isr context preempts the UART interrupt, and both the thread.        *)
Runs(c) == c = "thread" => pc["isr"] = "idle" /\ irq = "idle"
Step(c, from, to) ==
    /\ Runs(c) /\ pc[c] = from
    /\ pc' = [pc EXCEPT ![c] = to]

-----------------------------------------------------------------------------
(* Uart::IrqHandler.  At most one received byte, after one discarded for a  *)
(* framing error, and at most one byte to send.  Here in one step: as the   *)
(* isr context calls it.                                                    *)
Ferr == rxHw # <<>> /\ rxHw[1] \in FrameErrors

IrqHandler ==
    LET waiting == IF Ferr THEN Tail(rxHw) ELSE rxHw
        stores == waiting # <<>>
        drops == stores /\ IsFull(rx)
    IN  /\ rxHw' = IF stores THEN Tail(waiting) ELSE waiting
        /\ rx' = IF stores THEN StoreChar(rx, waiting[1]) ELSE rx
        /\ rts' = (rts /\ ~(/\ stores /\ HasRts
                            /\ AvailableForStore(rx') < RtsThreshold))
        /\ lost' = lost \cup (IF Ferr THEN {rxHw[1]} ELSE {})
                        \cup (IF drops THEN {waiting[1]} ELSE {})
        /\ IF DRE /\ Available(tx) # 0
           THEN /\ dataReg' = Peek(tx)
                /\ tx' = DropFirst(tx)
                /\ txc' = FALSE
                /\ UNCHANGED dreIrq
           ELSE /\ dreIrq' = (dreIrq /\ ~DRE)
                /\ UNCHANGED <<dataReg, tx, txc>>
        /\ err' = FALSE
        /\ UNCHANGED <<shiftReg, wire, peer, arrived>>

(* The same, access by access, as the UART interrupt runs it.  Its decision *)
(* to withdraw RTS is one step: a nested handler that adds to the ring in   *)
(* between withdraws RTS itself.                                            *)
IrqPending == rxHw # <<>> \/ (DRE /\ dreIrq) \/ err

IrqGoes(from, to) == pc["isr"] = "idle" /\ irq = from /\ irq' = to
IrqOnly == UNCHANGED <<pc, rdVars, wrVars, wire, shiftReg, peer, arrived, crossed>>
NoSend == UNCHANGED <<tx, dataReg, txc, dreIrq>>
NoReceive == UNCHANGED <<rx, rxHw, rts, lost, newHead>>

UartIrq ==
    /\ IrqPending
    /\ IrqGoes("idle", "ferr")
    /\ UNCHANGED <<held, err>> /\ NoSend /\ NoReceive /\ IrqOnly

FrameErrorTest ==
    /\ IrqGoes("ferr", IF Ferr THEN "discard" ELSE "rxc")
    /\ UNCHANGED <<held, err>> /\ NoSend /\ NoReceive /\ IrqOnly

Discard ==
    /\ IrqGoes("discard", "rxc")
    /\ rxHw' = IF rxHw = <<>> THEN rxHw ELSE Tail(rxHw)
    /\ lost' = IF rxHw = <<>> THEN lost ELSE lost \cup {rxHw[1]}
    /\ UNCHANGED <<held, err, rx, rts, newHead>> /\ NoSend /\ IrqOnly

RxcTest ==
    /\ IrqGoes("rxc", IF rxHw = <<>> THEN "dre" ELSE "take")
    /\ UNCHANGED <<held, err>> /\ NoSend /\ NoReceive /\ IrqOnly

(* DATA of an empty FIFO holds nothing the peer has sent now: byte 0.       *)
TakeByte ==
    /\ IrqGoes("take", "keep")
    /\ held' = IF rxHw = <<>> THEN 0 ELSE rxHw[1]
    /\ rxHw' = IF rxHw = <<>> THEN rxHw ELSE Tail(rxHw)
    /\ UNCHANGED <<err, rx, rts, lost, newHead>> /\ NoSend /\ IrqOnly

KeepByte ==
    /\ IrqGoes("keep", IF IsFull(rx) THEN "rts" ELSE "keepAdv")
    /\ rx' = IF IsFull(rx) THEN rx ELSE [rx EXCEPT !.buf[rx.head] = held]
    /\ lost' = IF IsFull(rx) THEN lost \cup {held} ELSE lost
    /\ newHead' = NextIndex(rx.head)
    /\ UNCHANGED <<held, err, rxHw, rts>> /\ NoSend /\ IrqOnly

KeepAdvance ==
    /\ IrqGoes("keepAdv", "rts")
    /\ rx' = [rx EXCEPT !.head = newHead]
    /\ UNCHANGED <<held, err, rxHw, rts, lost, newHead>> /\ NoSend /\ IrqOnly

RtsWithdraw ==
    /\ IrqGoes("rts", "dre")
    /\ rts' = (rts /\ ~(HasRts /\ AvailableForStore(rx) < RtsThreshold))
    /\ UNCHANGED <<held, err, rx, rxHw, lost, newHead>> /\ NoSend /\ IrqOnly

DreTest ==
    /\ IrqGoes("dre", IF DRE THEN "avail" ELSE "errors")
    /\ UNCHANGED <<held, err>> /\ NoSend /\ NoReceive /\ IrqOnly

AvailTest ==
    /\ IrqGoes("avail", IF Available(tx) = 0 THEN "off" ELSE "fetch")
    /\ UNCHANGED <<held, err>> /\ NoSend /\ NoReceive /\ IrqOnly

FetchByte ==
    /\ IrqGoes("fetch", IF Available(tx) = 0 THEN "send" ELSE "advance")
    /\ held' = Peek(tx)
    /\ UNCHANGED err /\ NoSend /\ NoReceive /\ IrqOnly

AdvanceTail ==
    /\ IrqGoes("advance", "send")
    /\ tx' = DropFirst(tx)
    /\ UNCHANGED <<held, err, dataReg, txc, dreIrq>> /\ NoReceive /\ IrqOnly

SendByte ==
    /\ DRE
    /\ IrqGoes("send", "errors")
    /\ dataReg' = held /\ txc' = FALSE
    /\ UNCHANGED <<held, err, tx, dreIrq>> /\ NoReceive /\ IrqOnly

DisableDreIrq ==
    /\ IrqGoes("off", "errors")
    /\ dreIrq' = FALSE
    /\ UNCHANGED <<held, err, tx, dataReg, txc>> /\ NoReceive /\ IrqOnly

ClearErrors ==
    /\ IrqGoes("errors", "idle")
    /\ err' = FALSE
    /\ UNCHANGED held /\ NoSend /\ NoReceive /\ IrqOnly

IrqStep ==
    \/ FrameErrorTest \/ Discard \/ RxcTest \/ TakeByte \/ KeepByte
    \/ KeepAdvance \/ RtsWithdraw \/ DreTest \/ AvailTest \/ FetchByte
    \/ AdvanceTail \/ SendByte \/ DisableDreIrq \/ ClearErrors

-----------------------------------------------------------------------------
(* Uart::write.                                                             *)
WriteSteps == {"testDre", "testEmpty", "direct", "spin",
               "store", "advance", "enable"}
Quiet == UNCHANGED <<rxVars, rdVars, irqVars>>

WriteCall(c) ==
    /\ written < MaxTx
    /\ c = "isr" => NestedWrites \/ pc["thread"] \notin WriteSteps
    /\ Step(c, "idle", "testDre")
    /\ written' = written + 1
    /\ arg' = [arg EXCEPT ![c] = written + 1]
    /\ nested' = (nested \/ (c = "isr" /\ pc["thread"] \in WriteSteps))
    /\ UNCHANGED <<txVars, slot, cut>> /\ Quiet

TestDre(c) ==
    /\ Step(c, "testDre", IF DRE THEN "testEmpty" ELSE "spin")
    /\ UNCHANGED <<txVars, wrVars>> /\ Quiet

TestEmptyMutant(c) ==   \* a bug: a free DATA register taken for an empty ring
    /\ Step(c, "testEmpty", "direct")
    /\ UNCHANGED <<txVars, wrVars>> /\ Quiet

TestEmpty(c) ==
    /\ Step(c, "testEmpty", IF Available(tx) = 0 THEN "direct" ELSE "spin")
    /\ UNCHANGED <<txVars, wrVars>> /\ Quiet

(* The interrupt has fetched a byte and not yet written it to DATA.         *)
Fetched == irq \in {"advance", "send"}

(* writeDataUART waits for DRE again before it writes.                      *)
WriteDirect(c) ==
    /\ DRE
    /\ Step(c, "direct", "idle")
    /\ dataReg' = arg[c] /\ txc' = FALSE
    /\ nested' = (nested \/ Fetched)
    /\ UNCHANGED <<tx, shiftReg, dreIrq, wire, arg, slot, written, cut>> /\ Quiet

SpinDone(c) ==
    /\ ~IsFull(tx)
    /\ Step(c, "spin", "store")
    /\ UNCHANGED <<txVars, wrVars>> /\ Quiet

SpinServeMutant == FALSE    \* a bug: the writer waits for the interrupt

(* No interrupt can make room, so the writer calls the handler itself.      *)
SpinServe ==
    /\ pc["isr"] = "spin" /\ IsFull(tx) /\ DRE
    /\ IrqHandler
    /\ nested' = (nested \/ Fetched)
    /\ crossed' = (crossed \/ (rxHw # <<>> /\ irq \in {"take", "keep", "keepAdv"}))
    /\ UNCHANGED <<pc, rdVars, irqVars, arg, slot, written, cut>>

(* store_char, first the byte, then the index computed beforehand.          *)
StoreByte(c) ==
    /\ Step(c, "store", IF IsFull(tx) THEN "enable" ELSE "advance")
    /\ tx' = IF IsFull(tx) THEN tx ELSE [tx EXCEPT !.buf[tx.head] = arg[c]]
    /\ slot' = [slot EXCEPT ![c] = NextIndex(tx.head)]
    /\ UNCHANGED <<dataReg, shiftReg, txc, dreIrq, wire, arg, written, nested, cut>>
    /\ Quiet

AdvanceHead(c) ==
    /\ Step(c, "advance", "enable")
    /\ tx' = [tx EXCEPT !.head = slot[c]]
    /\ UNCHANGED <<dataReg, shiftReg, txc, dreIrq, wire, wrVars>> /\ Quiet

EnableDreIrqMutant(c) ==    \* a bug: the DRE interrupt left as it is
    /\ Step(c, "enable", "idle")
    /\ UNCHANGED <<txVars, wrVars>> /\ Quiet

EnableDreIrq(c) ==
    /\ Step(c, "enable", "idle")
    /\ dreIrq' = TRUE
    /\ cut' = (irq = "off")
    /\ UNCHANGED <<tx, dataReg, shiftReg, txc, wire, arg, slot, written, nested>>
    /\ Quiet

WriteStep(c) ==
    \/ TestDre(c) \/ TestEmpty(c) \/ WriteDirect(c) \/ SpinDone(c)
    \/ StoreByte(c) \/ AdvanceHead(c) \/ EnableDreIrq(c)
    \/ c = "isr" /\ SpinServe

-----------------------------------------------------------------------------
(* Uart::flush and SERCOM::flushUART, by the thread.                        *)
FlushCall == /\ Step("thread", "idle", "flush")
             /\ UNCHANGED <<txVars, wrVars>> /\ Quiet

FlushEmpty == /\ Available(tx) = 0
              /\ Step("thread", "flush", "flushDre")
              /\ UNCHANGED <<txVars, wrVars>> /\ Quiet

FlushDre == /\ Step("thread", "flushDre", IF DRE THEN "idle" ELSE "flushTxc")
            /\ UNCHANGED <<txVars, wrVars>> /\ Quiet

FlushTxc == /\ txc
            /\ Step("thread", "flushTxc", "idle")
            /\ UNCHANGED <<txVars, wrVars>> /\ Quiet

FlushStep == FlushEmpty \/ FlushDre \/ FlushTxc

-----------------------------------------------------------------------------
(* Uart::read, by the thread: the byte, the tail, then the RTS decision.    *)
NoWrite == UNCHANGED <<txVars, wrVars, irqVars>>
AfterRead == IF HasRts THEN "rtsTest" ELSE "idle"

ReadCall == /\ Step("thread", "idle", "read")
            /\ UNCHANGED <<rxVars, rdVars>> /\ NoWrite

ReadByte ==
    /\ Step("thread", "read",
            IF rx.head = rx.tail THEN AfterRead ELSE "readAdv")
    /\ rdVal' = Peek(rx)
    /\ UNCHANGED <<rxVars, rdWrap, got>> /\ NoWrite

ReadAdvance ==
    /\ Step("thread", "readAdv", AfterRead)
    /\ rx' = DropFirst(rx)
    /\ got' = Append(got, rdVal)
    /\ UNCHANGED <<rdVal, rdWrap, rxHw, rts, peer, err, arrived, lost, crossed>>
    /\ NoWrite

RtsTest ==
    /\ Step("thread", "rtsTest", "rtsSpace")
    /\ rdWrap' = (rx.head >= rx.tail)
    /\ UNCHANGED <<rxVars, rdVal, got>> /\ NoWrite

RtsSpace ==
    /\ Step("thread", "rtsSpace",
            IF SpaceFrom(rdWrap, rx.head, rx.tail) > RtsThreshold
            THEN "rtsAssert" ELSE "idle")
    /\ UNCHANGED <<rxVars, rdVars>> /\ NoWrite

RtsAssert ==
    /\ Step("thread", "rtsAssert", "idle")
    /\ rts' = TRUE
    /\ UNCHANGED <<rdVars, rx, rxHw, peer, err, arrived, lost, crossed>>
    /\ NoWrite

ReadStep == ReadByte \/ ReadAdvance \/ RtsTest \/ RtsSpace \/ RtsAssert

-----------------------------------------------------------------------------
(* The hardware.  DATA moves to the shift register, the shift register      *)
(* empties onto the wire; TXC rises when nothing follows.                   *)
HwLoad ==
    /\ dataReg # NoChar /\ shiftReg = NoChar
    /\ shiftReg' = dataReg /\ dataReg' = NoChar
    /\ UNCHANGED <<tx, txc, dreIrq, wire, wrVars, pc>> /\ Quiet

HwSent ==
    /\ shiftReg # NoChar
    /\ wire' = Append(wire, shiftReg)
    /\ shiftReg' = NoChar
    /\ txc' = DRE
    /\ UNCHANGED <<tx, dataReg, dreIrq, wrVars, pc>> /\ Quiet

(* A byte from the peer, who obeys RTS but may overshoot by Slack bytes.    *)
(* The USART drops it when its FIFO is full.                                *)
HwReceive ==
    /\ arrived < MaxRx
    /\ HasRts => rts \/ peer > 0
    /\ peer' = IF rts \/ ~HasRts THEN Slack ELSE peer - 1
    /\ arrived' = arrived + 1
    /\ IF Len(rxHw) < HwFifo
       THEN rxHw' = Append(rxHw, arrived + 1) /\ UNCHANGED <<lost, err>>
       ELSE lost' = lost \cup {arrived + 1} /\ err' = TRUE /\ UNCHANGED rxHw
    /\ UNCHANGED <<rdVars, pc, rx, rts, crossed>> /\ NoWrite

-----------------------------------------------------------------------------
Next ==
    \/ UartIrq \/ IrqStep \/ HwLoad \/ HwSent \/ HwReceive
    \/ \E c \in Ctx : WriteCall(c) \/ WriteStep(c)
    \/ FlushCall \/ FlushStep
    \/ ReadCall \/ ReadStep

Spec == Init /\ [][Next]_vars

(* The core executes, the USART shifts, and a pending interrupt is served.  *)
(* Nothing obliges a sketch to call anything.                               *)
Fairness ==
    /\ WF_vars(UartIrq) /\ WF_vars(IrqStep) /\ WF_vars(HwLoad) /\ WF_vars(HwSent)
    /\ \A c \in Ctx : WF_vars(WriteStep(c))
    /\ WF_vars(FlushStep) /\ WF_vars(ReadStep)

FairSpec == Spec /\ Fairness

-----------------------------------------------------------------------------
Byte == Nat \cup {NoChar}
ThreadSteps == WriteSteps \cup {"idle", "flush", "flushDre", "flushTxc", "read",
                               "readAdv", "rtsTest", "rtsSpace", "rtsAssert"}
IrqSteps == {"idle", "ferr", "discard", "rxc", "take", "keep", "keepAdv", "rts",
             "dre", "avail", "fetch", "advance", "send", "off", "errors"}

(* Every variable keeps its type, and the indices stay inside the rings.    *)
TypeOK ==
    /\ tx \in Ring(Nat) /\ rx \in Ring(Nat)
    /\ dataReg \in Byte /\ shiftReg \in Byte
    /\ txc \in BOOLEAN /\ dreIrq \in BOOLEAN /\ wire \in Seq(Nat)
    /\ rxHw \in Seq(Nat) /\ rts \in BOOLEAN /\ peer \in Nat
    /\ err \in BOOLEAN
    /\ pc \in [Ctx -> ThreadSteps]
    /\ pc["isr"] \in WriteSteps \cup {"idle"}
    /\ arg \in [Ctx -> Nat] /\ slot \in [Ctx -> 0 .. N-1]
    /\ irq \in IrqSteps /\ held \in Byte /\ newHead \in 0 .. N-1
    /\ rdVal \in Byte /\ rdWrap \in BOOLEAN
    /\ written \in Nat /\ arrived \in Nat
    /\ lost \subseteq Nat /\ got \in Seq(Nat)
    /\ nested \in BOOLEAN /\ cut \in BOOLEAN /\ crossed \in BOOLEAN

(* Bytes left in txBuffer always have someone who will send them: the DRE   *)
(* interrupt is on, or a writer is about to turn it on (Uart.cpp 111-119    *)
(* against 185-187).  Otherwise a writer would spin on a full buffer for    *)
(* ever.  It fails in one window: a handler of higher priority writes while *)
(* the UART interrupt stands between its look at the empty ring (112) and   *)
(* the disabling of DRE (117), which undoes the writer's enabling.          *)
NoLostWakeup ==
    tx.head # tx.tail => \/ dreIrq \/ cut
                         \/ \E c \in Ctx : pc[c] = "enable"

One(reg) == IF reg = NoChar THEN <<>> ELSE <<reg>>
Sending == IF irq = "send" THEN <<held>> ELSE <<>>
TxStream == wire \o One(shiftReg) \o One(dataReg) \o Sending \o Contents(tx)
InHand(c) == pc[c] \in WriteSteps \ {"enable"}
Taken == written - Cardinality({c \in Ctx : InHand(c)})

(* As long as no writer breaks into another one's write, or puts a byte in  *)
(* DATA while the interrupt it preempts holds one it has fetched, no byte   *)
(* is lost, doubled or overtaken on its way through ring, DATA and shift    *)
(* register, although write decides between DATA and ring from two reads an *)
(* interrupt can separate, and the interrupt between two of its own.  (A    *)
(* nested writer can take the slot the first one waited for; one that       *)
(* serves a full ring after buf[tail] was read sends that byte once more.)  *)
TxFifo == ~nested => TxStream = [k \in 1 .. Taken |-> k]

InHands == IF irq \in {"keep", "keepAdv"} THEN <<held>> ELSE <<>>
RxStream == got \o Contents(rx) \o InHands \o rxHw

(* The sketch reads what arrived, in that order and once each, except for   *)
(* the bytes known to be dropped, and unless a writer that serves a full    *)
(* ring itself took a byte while the interrupt it preempts was storing one. *)
RxOrder ==
    ~crossed =>
    /\ \A i, j \in DOMAIN RxStream : i < j => RxStream[i] < RxStream[j]
    /\ {RxStream[i] : i \in DOMAIN RxStream} = (1 .. arrived) \ lost

(* RTS is withdrawn in time: a received byte always finds room in rxBuffer, *)
(* even when read asserts RTS from a count an interrupt has made stale, and *)
(* with the exception of RxOrder.                                           *)
FlowControl == ~crossed => (rxHw # <<>> \/ irq = "keep" => ~IsFull(rx))

(* write and flush come back, also for code the UART interrupt cannot       *)
(* preempt ("Fixed lock ups when outputting to UART during ISR"), unless    *)
(* the disabling of DRE fell in the window of NoLostWakeup.                 *)
CallsReturn == \A c \in Ctx : pc[c] # "idle" ~> (pc[c] = "idle" \/ cut)

(* Whatever was accepted reaches the wire, unless writers were nested or    *)
(* cut off in the window of NoLostWakeup.                                   *)
AllSent == \A k \in 1 .. MaxTx :
              (written >= k) ~> (Len(wire) >= k \/ nested \/ cut)

(* A sketch that keeps reading is never left with RTS withdrawn.            *)
PollingSpec == FairSpec /\ SF_vars(ReadCall)
RtsRecovers == []<>rts
=============================================================================
