---------------------------- MODULE Uart_proofs ----------------------------
(***************************************************************************)
(* Proofs about Uart for every ring size, threshold and option, with the    *)
(* interrupt handler in single steps that a writer of higher priority may   *)
(* preempt: its types are kept, bytes in txBuffer keep their sender, bytes  *)
(* are sent and read in order, and a byte received finds room.  What the    *)
(* preempting writer can break is named by cut, nested and crossed.         *)
(***************************************************************************)
EXTENDS Uart, RingBuffer_proofs, FiniteSetTheorems, TLAPS

-----------------------------------------------------------------------------
(* The invariant proved by induction: bytes on their way are bytes; what    *)
(* the isr context has tested stays true, as nobody preempts it; the        *)
(* interrupt finds the byte it goes to fetch, as a writer that serves the   *)
(* full ring leaves it one; and the wakeup property.                        *)
HeldByte ==
    /\ pc["thread"] = "readAdv" => rdVal \in Nat
    /\ irq \in {"keep", "keepAdv"} => held \in Nat

IsrTested ==
    /\ pc["isr"] = "direct" => tx.head = tx.tail
    /\ pc["isr"] \in {"store", "advance"} => ~IsFull(tx)
    /\ pc["isr"] = "advance" => slot["isr"] = NextIndex(tx.head)

Draining ==
    /\ irq \in {"fetch", "advance"} =>
           tx.head # tx.tail \/ pc["isr"] \in {"spin", "store", "advance"}
    /\ irq = "off" => tx.head = tx.tail \/ pc["isr"] = "enable" \/ cut

IInv == TypeOK /\ HeldByte /\ IsrTested /\ Draining /\ NoLostWakeup

LEMMA InitIInv == Init => IInv
  <1> SUFFICES ASSUME Init PROVE IInv
    OBVIOUS
  <1>1. EmptyRing \in Ring(Nat) /\ EmptyRing.head = EmptyRing.tail
    BY RingAssumption DEF EmptyRing, Ring
  <1>2. /\ arg \in [Ctx -> Nat] /\ slot \in [Ctx -> 0 .. N-1]
        /\ pc \in [Ctx -> ThreadSteps]
        /\ pc["isr"] \in WriteSteps \cup {"idle"}
        /\ pc["thread"] = "idle" /\ pc["isr"] = "idle"
        /\ newHead \in 0 .. N-1 /\ irq = "idle" /\ irq \in IrqSteps
    BY RingAssumption DEF Init, Ctx, ThreadSteps, IrqSteps
  <1>3. wire \in Seq(Nat) /\ rxHw \in Seq(Nat) /\ got \in Seq(Nat)
    BY DEF Init
  <1>4. TypeOK
    BY <1>1, <1>2, <1>3, UartAssumption DEF Init, TypeOK, Byte
  <1>5. QED
    BY <1>1, <1>2, <1>4 DEF Init, IInv, HeldByte, IsrTested, Draining, NoLostWakeup

(* The handler in one step, as a writer runs it while the ring is full.     *)
LEMMA SpinServeIInv ==
    ASSUME IInv, SpinServe
    PROVE  IInv'
  <1> USE DEF IInv
  <1> DEFINE waiting == IF Ferr THEN Tail(rxHw) ELSE rxHw
  <1>0. /\ IrqHandler /\ pc["isr"] = "spin" /\ pc' = pc
        /\ UNCHANGED <<arg, slot, written, cut, irq, held, newHead, rdVal, rdWrap, got>>
        /\ nested' \in BOOLEAN /\ crossed' \in BOOLEAN
    BY DEF SpinServe, TypeOK, irqVars, rdVars
  <1>1. waiting \in Seq(Nat)
    BY DEF TypeOK, Ferr
  <1>2. rx' \in Ring(Nat) /\ rxHw' \in Seq(Nat)
    <2>1. CASE waiting # <<>>
      <3>1. waiting[1] \in Nat /\ Tail(waiting) \in Seq(Nat)
        BY <1>1, <2>1
      <3>2. QED
        BY <1>0, <2>1, <3>1, StoreCharType DEF TypeOK, IrqHandler
    <2>2. CASE waiting = <<>>
      BY <1>0, <1>1, <2>2 DEF TypeOK, IrqHandler
    <2>3. QED
      BY <2>1, <2>2
  <1>3. lost' \subseteq Nat
    <2>1. Ferr => rxHw[1] \in Nat
      BY DEF TypeOK, Ferr
    <2>2. waiting # <<>> => waiting[1] \in Nat
      BY <1>1
    <2>3. QED
      BY <1>0, <2>1, <2>2 DEF TypeOK, IrqHandler
  <1>4. tx' \in Ring(Nat) /\ dataReg' \in Byte
    BY <1>0, PeekType, DropFirstType DEF TypeOK, IrqHandler, Byte
  <1>5. TypeOK'
    BY <1>0, <1>2, <1>3, <1>4 DEF TypeOK, IrqHandler
  <1>6. HeldByte' /\ IsrTested'
    BY <1>0 DEF HeldByte, IsrTested
  <1>7. tx.head # tx.tail /\ Available(tx) # 0 /\ DRE
    <2>1. tx \in Ring(Nat) /\ IsFull(tx) /\ DRE
      BY DEF SpinServe, TypeOK
    <2>2. tx.head # tx.tail
      BY <2>1, RingAccount, RingAssumption DEF Available, AvailableForStore, SpaceFrom, Ring
    <2>3. QED
      BY <2>1, <2>2, AvailableZero
  <1>8. dreIrq' = dreIrq
    BY <1>0, <1>7 DEF IrqHandler
  <1>9. Draining'
    BY <1>0, <1>7 DEF Draining
  <1>10. NoLostWakeup'
    BY <1>0, <1>7, <1>8 DEF NoLostWakeup
  <1>11. QED
    BY <1>5, <1>6, <1>9, <1>10

(* The interrupt's accesses.                                                *)
LEMMA IrqIInv ==
    ASSUME IInv, UartIrq \/ IrqStep
    PROVE  IInv'
  <1> USE DEF IInv, IrqGoes, IrqOnly, NoSend, NoReceive, rdVars, wrVars, IrqSteps
  <1>0. pc["isr"] = "idle" /\ pc' = pc
    BY DEF UartIrq, IrqStep, FrameErrorTest, Discard, RxcTest, TakeByte, KeepByte,
           KeepAdvance, RtsWithdraw, DreTest, AvailTest, FetchByte, AdvanceTail,
           SendByte, DisableDreIrq, ClearErrors
  <1>1. IsrTested'
    BY <1>0 DEF IsrTested
  <1>2. CASE UartIrq
    BY <1>0, <1>1, <1>2 DEF UartIrq, TypeOK, HeldByte, Draining, NoLostWakeup
  <1>3. CASE FrameErrorTest
    BY <1>0, <1>1, <1>3 DEF FrameErrorTest, TypeOK, HeldByte, Draining, NoLostWakeup
  <1>4. CASE Discard
    <2>1. rxHw' \in Seq(Nat) /\ lost' \subseteq Nat
      <3>1. CASE rxHw = <<>>
        BY <1>4, <3>1 DEF Discard, TypeOK
      <3>2. CASE rxHw # <<>>
        <4>1. rxHw[1] \in Nat /\ Tail(rxHw) \in Seq(Nat)
          BY <3>2 DEF TypeOK
        <4>2. QED
          BY <1>4, <3>2, <4>1 DEF Discard, TypeOK
      <3>3. QED
        BY <3>1, <3>2
    <2>2. QED
      BY <1>0, <1>1, <1>4, <2>1 DEF Discard, TypeOK, HeldByte, Draining, NoLostWakeup
  <1>5. CASE RxcTest
    BY <1>0, <1>1, <1>5 DEF RxcTest, TypeOK, HeldByte, Draining, NoLostWakeup
  <1>6. CASE TakeByte
    <2>1. rxHw' \in Seq(Nat) /\ held' \in Nat
      <3>1. CASE rxHw = <<>>
        BY <1>6, <3>1 DEF TakeByte, TypeOK
      <3>2. CASE rxHw # <<>>
        <4>1. rxHw[1] \in Nat /\ Tail(rxHw) \in Seq(Nat)
          BY <3>2 DEF TypeOK
        <4>2. QED
          BY <1>6, <3>2, <4>1 DEF TakeByte
      <3>3. QED
        BY <3>1, <3>2
    <2>2. QED
      BY <1>0, <1>1, <1>6, <2>1
         DEF TakeByte, TypeOK, HeldByte, Draining, NoLostWakeup, Byte
  <1>7. CASE KeepByte
    <2>1. irq = "keep" /\ held \in Nat
      BY <1>7 DEF KeepByte, HeldByte
    <2>2. rx' \in Ring(Nat)
      BY <1>7, <2>1, RingAssumption DEF KeepByte, TypeOK, Ring
    <2>3. newHead' \in 0 .. N-1
      BY <1>7, NextIndexType DEF KeepByte, TypeOK, Ring
    <2>4. QED
      BY <1>0, <1>1, <1>7, <2>1, <2>2, <2>3
         DEF KeepByte, TypeOK, HeldByte, Draining, NoLostWakeup
  <1>8. CASE KeepAdvance
    <2>1. rx' \in Ring(Nat)
      BY <1>8 DEF KeepAdvance, TypeOK, Ring
    <2>2. QED
      BY <1>0, <1>1, <1>8, <2>1 DEF KeepAdvance, TypeOK, HeldByte, Draining, NoLostWakeup
  <1>9. CASE RtsWithdraw
    BY <1>0, <1>1, <1>9 DEF RtsWithdraw, TypeOK, HeldByte, Draining, NoLostWakeup
  <1>10. CASE DreTest
    BY <1>0, <1>1, <1>10 DEF DreTest, TypeOK, HeldByte, Draining, NoLostWakeup
  <1>11. CASE AvailTest
    <2>1. (Available(tx) = 0) <=> tx.head = tx.tail
      BY AvailableZero DEF TypeOK
    <2>2. QED
      BY <1>0, <1>1, <1>11, <2>1 DEF AvailTest, TypeOK, HeldByte, Draining, NoLostWakeup
  <1>12. CASE FetchByte
    <2>1. Peek(tx) \in Byte
      BY PeekType DEF TypeOK, Byte
    <2>2. tx.head # tx.tail
      BY <1>0, <1>12 DEF FetchByte, Draining
    <2>3. QED
      BY <1>0, <1>1, <1>12, <2>1, <2>2
         DEF FetchByte, TypeOK, HeldByte, Draining, NoLostWakeup
  <1>13. CASE AdvanceTail
    <2>1. tx' \in Ring(Nat)
      BY <1>13, DropFirstType DEF AdvanceTail, TypeOK
    <2>2. tx.head # tx.tail
      BY <1>0, <1>13 DEF AdvanceTail, Draining
    <2>3. QED
      BY <1>0, <1>1, <1>13, <2>1, <2>2
         DEF AdvanceTail, TypeOK, HeldByte, Draining, NoLostWakeup
  <1>14. CASE SendByte
    BY <1>0, <1>1, <1>14 DEF SendByte, TypeOK, HeldByte, Draining, NoLostWakeup
  <1>15. CASE DisableDreIrq
    <2>1. tx.head = tx.tail \/ cut
      BY <1>0, <1>15 DEF DisableDreIrq, Draining
    <2>2. QED
      BY <1>0, <1>1, <1>15, <2>1
         DEF DisableDreIrq, TypeOK, HeldByte, Draining, NoLostWakeup
  <1>16. CASE ClearErrors
    BY <1>0, <1>1, <1>16 DEF ClearErrors, TypeOK, HeldByte, Draining, NoLostWakeup
  <1>17. QED
    BY <1>2, <1>3, <1>4, <1>5, <1>6, <1>7, <1>8, <1>9, <1>10, <1>11, <1>12, <1>13,
       <1>14, <1>15, <1>16 DEF IrqStep

(* The steps of write, in either context.                                   *)
LEMMA WriteIInv ==
    ASSUME IInv, NEW c \in Ctx, WriteCall(c) \/ WriteStep(c)
    PROVE  IInv'
  <1> USE DEF IInv
  <1>0. c \in {"thread", "isr"} /\ pc \in [Ctx -> ThreadSteps] /\ tx \in Ring(Nat)
    BY DEF Ctx, TypeOK
  <1>1. CASE SpinServe
    BY <1>1, SpinServeIInv
  <1>2. CASE ~SpinServe
    <2>0. PICK from, to : pc[c] = from /\ pc' = [pc EXCEPT ![c] = to]
      BY <1>2 DEF WriteCall, WriteStep, TestDre, TestEmpty, WriteDirect, SpinDone,
                  StoreByte, AdvanceHead, EnableDreIrq, Step
    <2>1. UNCHANGED <<irq, held, newHead, rdVal, rdWrap, got>>
      BY <1>2 DEF WriteCall, WriteStep, TestDre, TestEmpty, WriteDirect, SpinDone,
                  StoreByte, AdvanceHead, EnableDreIrq, Quiet, irqVars, rdVars
    <2>2. c = "thread" => pc["isr"] = "idle" /\ irq = "idle" /\ pc'["isr"] = "idle"
      BY <1>0, <1>2, <2>0 DEF WriteCall, WriteStep, TestDre, TestEmpty, WriteDirect,
                  SpinDone, StoreByte, AdvanceHead, EnableDreIrq, Step, Runs, Ctx
    <2>3. c = "isr" => pc'["isr"] = to /\ pc'["thread"] = pc["thread"]
      BY <1>0, <2>0 DEF Ctx
    <2>4. TypeOK'
      <3> USE DEF Step, Quiet, txVars, rxVars, rdVars, wrVars, irqVars, Ctx,
                  WriteSteps, ThreadSteps
      <3>1. CASE WriteCall(c)
        BY <3>1 DEF WriteCall, TypeOK
      <3>2. CASE TestDre(c)
        BY <3>2 DEF TestDre, TypeOK
      <3>3. CASE TestEmpty(c)
        BY <3>3 DEF TestEmpty, TypeOK
      <3>4. CASE WriteDirect(c)
        BY <3>4 DEF WriteDirect, TypeOK, Byte
      <3>5. CASE SpinDone(c)
        BY <3>5 DEF SpinDone, TypeOK
      <3>6. CASE StoreByte(c)
        <4>1. tx' \in Ring(Nat)
          BY <3>6, RingAssumption DEF StoreByte, TypeOK, Ring
        <4>2. NextIndex(tx.head) \in 0 .. N-1
          BY NextIndexType DEF TypeOK, Ring
        <4>3. QED
          BY <3>6, <4>1, <4>2 DEF StoreByte, TypeOK
      <3>7. CASE AdvanceHead(c)
        <4>1. tx' \in Ring(Nat)
          BY <3>7 DEF AdvanceHead, TypeOK, Ring
        <4>2. QED
          BY <3>7, <4>1 DEF AdvanceHead, TypeOK
      <3>8. CASE EnableDreIrq(c)
        BY <3>8 DEF EnableDreIrq, TypeOK
      <3>9. QED
        BY <1>2, <3>1, <3>2, <3>3, <3>4, <3>5, <3>6, <3>7, <3>8 DEF WriteStep
    <2>5. HeldByte'
      <3>1. pc'["thread"] = "readAdv" => pc["thread"] = "readAdv"
        BY <1>0, <1>2, <2>3 DEF WriteCall, WriteStep, TestDre, TestEmpty, WriteDirect,
           SpinDone, StoreByte, AdvanceHead, EnableDreIrq, Step, Ctx
      <3>2. QED
        BY <2>1, <3>1 DEF HeldByte
    <2>6. IsrTested'
      <3>1. CASE c = "thread"
        BY <2>2, <3>1 DEF IsrTested
      <3>2. CASE c = "isr"
        <4>1. (Available(tx) = 0) <=> tx.head = tx.tail
          BY AvailableZero DEF TypeOK
        <4>2. CASE StoreByte(c)
          <5>1. tx'.head = tx.head /\ tx'.tail = tx.tail /\ ~IsFull(tx)
            BY <3>2, <4>2, <1>0 DEF StoreByte, Step, IsrTested, Ring
          <5>2. slot'["isr"] = NextIndex(tx.head)
            BY <3>2, <4>2 DEF StoreByte, TypeOK, Ctx
          <5>3. pc'["isr"] = "advance"
            BY <1>0, <3>2, <4>2, <5>1 DEF StoreByte, Step, Ctx
          <5>4. QED
            BY <5>1, <5>2, <5>3 DEF IsrTested, IsFull
        <4>3. CASE ~StoreByte(c)
          BY <1>0, <1>2, <2>3, <3>2, <4>1, <4>3
             DEF WriteCall, WriteStep, TestDre, TestEmpty, WriteDirect, SpinDone,
                 AdvanceHead, EnableDreIrq, Step, IsrTested, txVars, wrVars, Ctx
        <4>4. QED
          BY <4>2, <4>3
      <3>3. QED
        BY <1>0, <3>1, <3>2
    <2>7. Draining'
      <3>1. CASE c = "thread"
        BY <2>1, <2>2, <3>1 DEF Draining
      <3>2. CASE c = "isr" /\ AdvanceHead(c)
        <4>1. /\ pc["isr"] = "advance" /\ pc'["isr"] = "enable"
              /\ tx'.head = slot["isr"] /\ tx'.tail = tx.tail
          BY <1>0, <3>2 DEF AdvanceHead, Step, Ring, Ctx
        <4>2. tx'.head # tx'.tail
          BY <4>1 DEF IsrTested, IsFull
        <4>3. QED
          BY <4>1, <4>2 DEF Draining
      <3>3. CASE c = "isr" /\ ~AdvanceHead(c)
        <4>1. tx'.head = tx.head /\ tx'.tail = tx.tail
          BY <1>0, <1>2, <3>3 DEF WriteCall, WriteStep, TestDre, TestEmpty, WriteDirect,
             SpinDone, StoreByte, EnableDreIrq, txVars, Ring
        <4>2. /\ irq \in {"fetch", "advance"} =>
                   tx.head # tx.tail \/ pc'["isr"] \in {"spin", "store", "advance"}
          BY <1>0, <1>2, <2>3, <3>3 DEF Draining, IsrTested, WriteCall, WriteStep,
             TestDre, TestEmpty, WriteDirect, SpinDone, StoreByte, EnableDreIrq, Step, Ctx
        <4>3. irq = "off" => tx.head = tx.tail \/ pc'["isr"] = "enable" \/ cut'
          BY <1>0, <1>2, <2>3, <3>3 DEF Draining, WriteCall, WriteStep,
             TestDre, TestEmpty, WriteDirect, SpinDone, StoreByte, EnableDreIrq, Step,
             wrVars, Ctx
        <4>4. QED
          BY <2>1, <4>1, <4>2, <4>3 DEF Draining
      <3>4. QED
        BY <1>0, <3>1, <3>2, <3>3
    <2>8. NoLostWakeup'
      <3>1. CASE AdvanceHead(c)
        <4>1. pc'[c] = "enable"
          BY <1>0, <3>1 DEF AdvanceHead, Step, Ctx
        <4>2. QED
          BY <4>1 DEF NoLostWakeup
      <3>2. CASE EnableDreIrq(c)
        BY <3>2 DEF EnableDreIrq, NoLostWakeup
      <3>3. CASE ~AdvanceHead(c) /\ ~EnableDreIrq(c)
        <4>1. tx'.head = tx.head /\ tx'.tail = tx.tail /\ UNCHANGED <<dreIrq, cut>>
          BY <1>0, <1>2, <3>3 DEF WriteCall, WriteStep, TestDre, TestEmpty, WriteDirect,
             SpinDone, StoreByte, txVars, wrVars, Ring
        <4>2. \A d \in Ctx : pc[d] = "enable" => pc'[d] = "enable"
          BY <1>0, <1>2, <3>3 DEF WriteCall, WriteStep, TestDre, TestEmpty, WriteDirect,
             SpinDone, StoreByte, Step, Ctx
        <4>3. QED
          BY <4>1, <4>2 DEF NoLostWakeup
      <3>4. QED
        BY <3>1, <3>2, <3>3
    <2>9. QED
      BY <2>4, <2>5, <2>6, <2>7, <2>8
  <1>3. QED
    BY <1>1, <1>2

(* flush changes nothing but where the thread is.                           *)
LEMMA FlushIInv ==
    ASSUME IInv, FlushCall \/ FlushStep
    PROVE  IInv'
  <1> USE DEF IInv, Step, Quiet, txVars, rxVars, rdVars, wrVars, irqVars, Ctx,
              WriteSteps, ThreadSteps, TypeOK, HeldByte, IsrTested, Draining, NoLostWakeup
  <1>1. CASE FlushCall
    BY <1>1 DEF FlushCall
  <1>2. CASE FlushEmpty
    BY <1>2 DEF FlushEmpty
  <1>3. CASE FlushDre
    BY <1>3 DEF FlushDre
  <1>4. CASE FlushTxc
    BY <1>4 DEF FlushTxc
  <1>5. QED
    BY <1>1, <1>2, <1>3, <1>4 DEF FlushStep

LEMMA ReadIInv ==
    ASSUME IInv, ReadCall \/ ReadStep
    PROVE  IInv'
  <1> USE DEF IInv, Step, NoWrite, txVars, rxVars, rdVars, wrVars, irqVars, Ctx,
              WriteSteps, ThreadSteps, IsrTested, Draining
  <1>1. CASE ReadCall
    BY <1>1 DEF ReadCall, TypeOK, HeldByte, NoLostWakeup
  <1>2. CASE ReadByte
    <2>1. Peek(rx) \in Byte /\ (rx.head # rx.tail => Peek(rx) \in Nat)
      BY PeekType DEF TypeOK, Byte
    <2>2. QED
      BY <1>2, <2>1 DEF ReadByte, AfterRead, TypeOK, HeldByte, NoLostWakeup
  <1>3. CASE ReadAdvance
    <2>1. DropFirst(rx) \in Ring(Nat)
      BY DropFirstType DEF TypeOK
    <2>2. got' \in Seq(Nat)
      BY <1>3 DEF ReadAdvance, TypeOK, HeldByte
    <2>3. QED
      BY <1>3, <2>1, <2>2
         DEF ReadAdvance, AfterRead, TypeOK, HeldByte, NoLostWakeup
  <1>4. CASE RtsTest
    BY <1>4 DEF RtsTest, TypeOK, HeldByte, NoLostWakeup
  <1>5. CASE RtsSpace
    BY <1>5 DEF RtsSpace, TypeOK, HeldByte, NoLostWakeup
  <1>6. CASE RtsAssert
    BY <1>6 DEF RtsAssert, TypeOK, HeldByte, NoLostWakeup
  <1>7. QED
    BY <1>1, <1>2, <1>3, <1>4, <1>5, <1>6 DEF ReadStep

LEMMA HardwareIInv ==
    ASSUME IInv, HwLoad \/ HwSent \/ HwReceive
    PROVE  IInv'
  <1> USE DEF IInv, Quiet, NoWrite, txVars, rxVars, rdVars, wrVars, irqVars, IsrTested, Draining
  <1>1. CASE HwLoad
    BY <1>1 DEF HwLoad, TypeOK, HeldByte, NoLostWakeup, Byte
  <1>2. CASE HwSent
    BY <1>2 DEF HwSent, TypeOK, HeldByte, NoLostWakeup, Byte, DRE
  <1>3. CASE HwReceive
    <2>1. peer' \in Nat
      BY <1>3, UartAssumption DEF HwReceive, TypeOK
    <2>2. arrived + 1 \in Nat
      BY DEF TypeOK
    <2>3. rxHw' \in Seq(Nat) /\ lost' \subseteq Nat /\ err' \in BOOLEAN
      <3>1. CASE Len(rxHw) < HwFifo
        <4>1. rxHw' = Append(rxHw, arrived + 1) /\ lost' = lost /\ err' = err
          BY <1>3, <3>1 DEF HwReceive
        <4>2. QED
          BY <2>2, <4>1 DEF TypeOK
      <3>2. CASE ~(Len(rxHw) < HwFifo)
        <4>1. rxHw' = rxHw /\ lost' = lost \cup {arrived + 1} /\ err' = TRUE
          BY <1>3, <3>2 DEF HwReceive
        <4>2. QED
          BY <2>2, <4>1 DEF TypeOK
      <3>3. QED
        BY <3>1, <3>2
    <2>4. TypeOK'
      BY <1>3, <2>1, <2>2, <2>3 DEF HwReceive, TypeOK
    <2>5. HeldByte' /\ IsrTested' /\ Draining' /\ NoLostWakeup'
      BY <1>3 DEF HwReceive, HeldByte, NoLostWakeup
    <2>6. QED
      BY <2>4, <2>5
  <1>4. QED
    BY <1>1, <1>2, <1>3

LEMMA NextIInv == IInv /\ [Next]_vars => IInv'
  <1> SUFFICES ASSUME IInv, [Next]_vars PROVE IInv'
    OBVIOUS
  <1>1. CASE UartIrq \/ IrqStep
    BY <1>1, IrqIInv
  <1>2. ASSUME NEW c \in Ctx, WriteCall(c) \/ WriteStep(c) PROVE IInv'
    BY <1>2, WriteIInv
  <1>3. CASE FlushCall \/ FlushStep
    BY <1>3, FlushIInv
  <1>4. CASE ReadCall \/ ReadStep
    BY <1>4, ReadIInv
  <1>5. CASE HwLoad \/ HwSent \/ HwReceive
    BY <1>5, HardwareIInv
  <1>6. CASE UNCHANGED vars
    BY <1>6 DEF IInv, vars, txVars, rxVars, rdVars, wrVars, irqVars, TypeOK,
                HeldByte, IsrTested, Draining, NoLostWakeup
  <1>7. QED
    BY <1>1, <1>2, <1>3, <1>4, <1>5, <1>6 DEF Next

(* The variables of Uart keep their types whatever the sizes and options.   *)
THEOREM TypeCorrect == Spec => []TypeOK
  <1>1. IInv => TypeOK
    BY DEF IInv
  <1>2. QED
    BY InitIInv, NextIInv, <1>1, PTL DEF Spec

(* Bytes in txBuffer always have a sender, whatever the nesting of writers, *)
(* in each other and in the interrupt, until one of them enables the DRE    *)
(* interrupt between IrqHandler's look at the empty ring and its disabling  *)
(* (Uart.cpp 112-118): no other place of a write, in either context, makes  *)
(* a state where the buffer waits and nobody drains it.                     *)
THEOREM WakeupNeverLost == Spec => []NoLostWakeup
  <1>1. IInv => NoLostWakeup
    BY DEF IInv
  <1>2. QED
    BY InitIInv, NextIInv, <1>1, PTL DEF Spec

-----------------------------------------------------------------------------
(* The order of the bytes sent.  Outside nested writes at most one context  *)
(* writes, its byte is the last one handed over, and what write has tested  *)
(* stays true until it acts on it: an empty ring stays empty, the slot at   *)
(* the head stays free, and the byte stored there is the writer's.  The     *)
(* byte the interrupt has fetched stays the first of the ring.              *)
OneWriter ==
    /\ pc["thread"] \notin WriteSteps \/ pc["isr"] \notin WriteSteps
    /\ \A c \in Ctx :
        /\ InHand(c) => arg[c] = written
        /\ pc[c] = "direct" => tx.head = tx.tail
        /\ pc[c] \in {"store", "advance"} => ~IsFull(tx)
        /\ pc[c] = "advance" => /\ slot[c] = NextIndex(tx.head)
                                /\ tx.buf[tx.head] = arg[c]
    /\ irq = "advance" => tx.head # tx.tail /\ held = Peek(tx)

(* The byte a register holds has the number after those before it.          *)
Used(reg) == IF reg = NoChar THEN 0 ELSE 1
OnIrq == IF irq = "send" THEN 1 ELSE 0
Ahead == Len(wire) + Used(shiftReg) + Used(dataReg) + OnIrq

Numbered ==
    /\ \A i \in 1 .. Len(wire) : wire[i] = i
    /\ shiftReg # NoChar => shiftReg = Len(wire) + 1
    /\ dataReg # NoChar => dataReg = Len(wire) + Used(shiftReg) + 1
    /\ irq = "send" => held = Len(wire) + Used(shiftReg) + Used(dataReg) + 1
    /\ \A k \in 1 .. Available(tx) : Contents(tx)[k] = Ahead + k

Counted ==
    Ahead + Available(tx) = IF \E c \in Ctx : InHand(c) THEN written - 1 ELSE written

TInv == IInv /\ (~nested => OneWriter /\ Numbered /\ Counted)

LEMMA InitTInv == Init => TInv
  <1> SUFFICES ASSUME Init PROVE TInv
    OBVIOUS
  <1>1. IInv
    BY InitIInv
  <1>2. \A c \in Ctx : pc[c] = "idle" /\ ~InHand(c)
    BY DEF Init, InHand, WriteSteps
  <1>3. Available(tx) = 0 /\ Ahead = 0
    BY RingAssumption DEF Init, Available, EmptyRing, Ahead, Used, OnIrq, NoChar
  <1>4. OneWriter
    BY <1>2 DEF OneWriter, Ctx, WriteSteps, Init
  <1>5. Numbered
    BY <1>3 DEF Numbered, Init
  <1>6. Counted
    BY <1>2, <1>3 DEF Counted, Init
  <1>7. QED
    BY <1>1, <1>4, <1>5, <1>6 DEF TInv

LEMMA TTypes ==
    ASSUME TInv
    PROVE  /\ tx \in Ring(Nat) /\ Available(tx) \in 0 .. N-1 /\ Available(tx) \in Nat
           /\ wire \in Seq(Nat) /\ Len(wire) \in Nat /\ written \in Nat
           /\ dataReg \in Nat \cup {NoChar} /\ shiftReg \in Nat \cup {NoChar}
           /\ Used(dataReg) \in 0 .. 1 /\ Used(shiftReg) \in 0 .. 1 /\ Ahead \in Nat
           /\ OnIrq \in 0 .. 1 /\ irq \in IrqSteps /\ held \in Byte
  <1>1. /\ tx \in Ring(Nat) /\ wire \in Seq(Nat) /\ written \in Nat
        /\ dataReg \in Nat \cup {NoChar} /\ shiftReg \in Nat \cup {NoChar}
        /\ irq \in IrqSteps /\ held \in Byte
    BY DEF TInv, IInv, TypeOK, Byte
  <1>2. Available(tx) \in 0 .. N-1 /\ Available(tx) \in Nat
    BY <1>1, RingAccount, RingAssumption
  <1>3. /\ Used(dataReg) \in 0 .. 1 /\ Used(shiftReg) \in 0 .. 1 /\ Len(wire) \in Nat
        /\ OnIrq \in 0 .. 1
    BY <1>1 DEF Used, OnIrq
  <1>4. Ahead \in Nat
    BY <1>3 DEF Ahead
  <1>5. QED
    BY <1>1, <1>2, <1>3, <1>4

(* A step that leaves the bytes on their way alone.                         *)
LEMMA BytesStand ==
    ASSUME TInv, UNCHANGED <<dataReg, shiftReg, wire>>,
           irq' = "send" <=> irq = "send", irq = "send" => held' = held,
           Available(tx') = Available(tx), Contents(tx') = Contents(tx)
    PROVE  /\ Ahead' = Ahead /\ Available(tx)' = Available(tx)
           /\ Numbered => Numbered'
  <1>1. Ahead' = Ahead
    BY DEF Ahead, OnIrq
  <1>2. Available(tx)' = Available(tx) /\ Contents(tx)' = Contents(tx)
    OBVIOUS
  <1>3. Numbered => Numbered'
    BY <1>1, <1>2 DEF Numbered
  <1>4. QED
    BY <1>1, <1>2, <1>3

(* The first byte of the ring leaves it, into DATA or into the hands of the *)
(* interrupt; from there it goes to DATA.                                   *)
LEMMA FirstOnItsWay ==
    ASSUME TInv, Numbered, tx.head # tx.tail, tx' = DropFirst(tx), UNCHANGED <<shiftReg, wire>>,
           irq # "send",
           \/ /\ Used(dataReg) = 0 /\ dataReg' = Peek(tx) /\ irq' = irq
           \/ /\ dataReg' = dataReg /\ irq' = "send" /\ held' = Peek(tx)
    PROVE  /\ Numbered' /\ Ahead' + Available(tx)' = Ahead + Available(tx)
           /\ tx'.head = tx.head /\ tx'.buf = tx.buf /\ ~IsFull(tx')
  <1>1. tx \in Ring(Nat)
    BY TTypes
  <1>2. /\ Available(tx') = Available(tx) - 1 /\ Peek(tx) = Contents(tx)[1]
        /\ \A k \in 1 .. (Available(tx) - 1) : Contents(tx')[k] = Contents(tx)[k + 1]
        /\ ~IsFull(tx') /\ tx'.head = tx.head /\ tx'.buf = tx.buf
    BY <1>1, FirstLeaves
  <1>3. 1 \in 1 .. Available(tx) /\ OnIrq = 0
    BY <1>1, AvailableZero, TTypes DEF OnIrq
  <1>4. Peek(tx) = Ahead + 1 /\ Peek(tx) \in Nat
    BY <1>2, <1>3, TTypes DEF Numbered
  <1>5. Ahead = Len(wire) + Used(shiftReg) + Used(dataReg)
    BY <1>3, TTypes DEF Ahead
  <1>6. /\ Ahead' = Ahead + 1
        /\ dataReg' # NoChar => dataReg' = Len(wire') + Used(shiftReg') + 1
        /\ irq' = "send" => held' = Len(wire') + Used(shiftReg') + Used(dataReg') + 1
    <2>1. Ahead' = Len(wire) + Used(shiftReg) + Used(dataReg') + OnIrq'
      BY DEF Ahead
    <2>2. CASE Used(dataReg) = 0 /\ dataReg' = Peek(tx) /\ irq' = irq
      <3>1. Used(dataReg') = 1 /\ OnIrq' = 0
        BY <1>4, <2>2 DEF Used, OnIrq, NoChar
      <3>2. Ahead' = Ahead + 1
        BY <1>5, <2>1, <2>2, <3>1, TTypes
      <3>3. dataReg' = Len(wire') + Used(shiftReg') + 1
        BY <1>4, <1>5, <2>2, TTypes
      <3>4. QED
        BY <2>2, <3>2, <3>3
    <2>3. CASE dataReg' = dataReg /\ irq' = "send" /\ held' = Peek(tx)
      <3>1. OnIrq' = 1
        BY <2>3 DEF OnIrq
      <3>2. Ahead' = Ahead + 1
        BY <1>5, <2>1, <2>3, <3>1, TTypes
      <3>3. held' = Len(wire') + Used(shiftReg') + Used(dataReg') + 1
        BY <1>4, <1>5, <2>3
      <3>4. QED
        BY <2>3, <3>2, <3>3 DEF Numbered
    <2>4. QED
      BY <2>2, <2>3
  <1>7. ASSUME NEW k \in 1 .. Available(tx') PROVE Contents(tx')[k] = Ahead' + k
    <2>1. k \in 1 .. (Available(tx) - 1) /\ k + 1 \in 1 .. Available(tx)
      BY <1>2, TTypes
    <2>2. Contents(tx)[k + 1] = Ahead + (k + 1)
      BY <2>1 DEF Numbered
    <2>3. Ahead + (k + 1) = Ahead' + k
      BY <1>6, <2>1, TTypes
    <2>4. QED
      BY <1>2, <2>1, <2>2, <2>3
  <1>8. Numbered'
    BY <1>6, <1>7 DEF Numbered
  <1>9. Ahead' + Available(tx)' = Ahead + Available(tx)
    BY <1>2, <1>6, TTypes
  <1>10. QED
    BY <1>2, <1>8, <1>9

(* A writer that serves the full ring itself sends its first byte.          *)
LEMMA SpinServeTInv ==
    ASSUME TInv, SpinServe
    PROVE  TInv'
  <1>1. IInv'
    BY SpinServeIInv DEF TInv
  <1>2. UNCHANGED <<pc, arg, slot, written, shiftReg, wire, irq, held>>
    BY DEF SpinServe, IrqHandler, irqVars
  <1> SUFFICES ASSUME ~nested' PROVE OneWriter' /\ Numbered' /\ Counted'
    BY <1>1 DEF TInv
  <1>3. OneWriter /\ Numbered /\ Counted /\ irq \notin {"advance", "send"}
    BY DEF TInv, SpinServe, Fetched
  <1>4. \A c \in Ctx : InHand(c)' <=> InHand(c)
    BY <1>2 DEF InHand
  <1>5. tx \in Ring(Nat) /\ IsFull(tx) /\ DRE
    BY TTypes DEF SpinServe
  <1>6. tx.head # tx.tail /\ Available(tx) # 0
    <2>1. tx.head # tx.tail
      BY <1>5, RingAccount, RingAssumption
         DEF Available, AvailableForStore, SpaceFrom, Ring
    <2>2. QED
      BY <1>5, <2>1, AvailableZero
  <1>7. dataReg' = Peek(tx) /\ tx' = DropFirst(tx) /\ Used(dataReg) = 0
    BY <1>5, <1>6 DEF SpinServe, IrqHandler, DRE, Used
  <1>8. /\ Numbered' /\ Ahead' + Available(tx)' = Ahead + Available(tx)
        /\ tx'.head = tx.head /\ tx'.buf = tx.buf /\ ~IsFull(tx')
    BY <1>2, <1>3, <1>6, <1>7, FirstOnItsWay
  <1>9. OneWriter'
    <2>1. ~(\E c \in Ctx : pc[c] = "direct")
      BY <1>3, <1>6 DEF OneWriter
    <2>2. QED
      BY <1>2, <1>3, <1>4, <1>8, <2>1 DEF OneWriter
  <1>10. Counted'
    BY <1>2, <1>3, <1>4, <1>8 DEF Counted
  <1>11. QED
    BY <1>8, <1>9, <1>10

(* The interrupt fetches the first byte, drops it from the ring, writes it  *)
(* to DATA; its other accesses leave the bytes to be sent alone.            *)
LEMMA IrqTInv ==
    ASSUME TInv, UartIrq \/ IrqStep
    PROVE  TInv'
  <1> USE DEF IrqGoes, IrqOnly, NoSend, NoReceive, wrVars
  <1>1. IInv'
    BY IrqIInv DEF TInv
  <1>2. UNCHANGED <<pc, arg, slot, written, nested, shiftReg, wire>> /\ pc["isr"] = "idle"
    BY DEF UartIrq, IrqStep, FrameErrorTest, Discard, RxcTest, TakeByte, KeepByte,
           KeepAdvance, RtsWithdraw, DreTest, AvailTest, FetchByte, AdvanceTail,
           SendByte, DisableDreIrq, ClearErrors
  <1> SUFFICES ASSUME ~nested PROVE OneWriter' /\ Numbered' /\ Counted'
    BY <1>1, <1>2 DEF TInv
  <1>3. OneWriter /\ Numbered /\ Counted /\ tx \in Ring(Nat)
    BY TTypes DEF TInv
  <1>4. \A c \in Ctx : InHand(c)' <=> InHand(c)
    BY <1>2 DEF InHand
  <1>5. CASE AdvanceTail
    <2>1. /\ irq = "advance" /\ irq' = "send" /\ tx' = DropFirst(tx)
          /\ UNCHANGED <<dataReg, held>>
      BY <1>5 DEF AdvanceTail
    <2>2. tx.head # tx.tail /\ held = Peek(tx)
      BY <1>3, <2>1 DEF OneWriter
    <2>3. /\ Numbered' /\ Ahead' + Available(tx)' = Ahead + Available(tx)
          /\ tx'.head = tx.head /\ tx'.buf = tx.buf /\ ~IsFull(tx')
      BY <1>2, <1>3, <2>1, <2>2, FirstOnItsWay
    <2>4. ~(\E c \in Ctx : pc[c] = "direct")
      BY <1>3, <2>2 DEF OneWriter
    <2>5. OneWriter'
      BY <1>2, <1>3, <1>4, <2>1, <2>3, <2>4 DEF OneWriter
    <2>6. Counted'
      BY <1>2, <1>3, <1>4, <2>3 DEF Counted
    <2>7. QED
      BY <2>3, <2>5, <2>6
  <1>6. CASE SendByte
    <2>1. /\ DRE /\ irq = "send" /\ irq' = "errors" /\ dataReg' = held /\ tx' = tx
      BY <1>6 DEF SendByte
    <2>2. Used(dataReg) = 0 /\ OnIrq = 1 /\ OnIrq' = 0
      BY <2>1 DEF Used, DRE, OnIrq
    <2>3. held = Len(wire) + Used(shiftReg) + 1
      BY <1>3, <2>1, <2>2, TTypes DEF Numbered
    <2>4. Used(dataReg') = 1
      BY <2>1, <2>3, TTypes DEF Used, NoChar
    <2>5. Ahead' = Ahead
      <3>1. Ahead' = Len(wire) + Used(shiftReg) + Used(dataReg') + OnIrq'
        BY <1>2 DEF Ahead
      <3>2. Ahead = Len(wire) + Used(shiftReg) + Used(dataReg) + OnIrq
        BY DEF Ahead
      <3>3. QED
        BY <2>2, <2>4, <3>1, <3>2, TTypes
    <2>6. Numbered'
      BY <1>2, <1>3, <2>1, <2>3, <2>5 DEF Numbered
    <2>7. OneWriter'
      BY <1>2, <1>3, <1>4, <2>1 DEF OneWriter
    <2>8. Counted'
      BY <1>2, <1>3, <1>4, <2>1, <2>5 DEF Counted
    <2>9. QED
      BY <2>6, <2>7, <2>8
  <1>7. CASE ~AdvanceTail /\ ~SendByte
    <2>1. /\ UNCHANGED <<tx, dataReg>> /\ irq # "send"
          /\ irq' = "send" => FetchByte /\ Available(tx) = 0
          /\ irq' = "advance" => FetchByte
      BY <1>7, TTypes DEF UartIrq, IrqStep, FrameErrorTest, Discard, RxcTest, TakeByte,
         KeepByte, KeepAdvance, RtsWithdraw, DreTest, AvailTest, FetchByte,
         DisableDreIrq, ClearErrors, IrqSteps
    <2>2. FetchByte => tx.head # tx.tail /\ Available(tx) # 0 /\ held' = Peek(tx)
      BY <1>2, <1>3, AvailableZero DEF FetchByte, TInv, IInv, Draining
    <2>3. irq' # "send" /\ (irq' = "advance" => tx.head # tx.tail /\ held' = Peek(tx))
      BY <2>1, <2>2
    <2>4. Ahead' = Ahead /\ Available(tx)' = Available(tx) /\ Numbered'
      BY <1>2, <1>3, <2>1, <2>3, BytesStand
    <2>5. OneWriter'
      BY <1>2, <1>3, <1>4, <2>1, <2>3 DEF OneWriter
    <2>6. Counted'
      BY <1>2, <1>3, <1>4, <2>4 DEF Counted
    <2>7. QED
      BY <2>4, <2>5, <2>6
  <1>8. QED
    BY <1>5, <1>6, <1>7

(* Every step of write but the interrupt it serves itself.                  *)
LEMMA WriteTInv ==
    ASSUME TInv, NEW c \in Ctx, WriteCall(c) \/ WriteStep(c)
    PROVE  TInv'
  <1>1. IInv'
    BY WriteIInv DEF TInv
  <1>2. CASE SpinServe
    BY <1>2, SpinServeTInv
  <1>3. CASE ~SpinServe
    <2> SUFFICES ASSUME ~nested' PROVE OneWriter' /\ Numbered' /\ Counted'
      BY <1>1 DEF TInv
    <2>1. ~nested
      BY <1>3 DEF WriteCall, WriteStep, TestDre, TestEmpty, WriteDirect, SpinDone, StoreByte,
                  AdvanceHead, EnableDreIrq, wrVars
    <2>2. OneWriter /\ Numbered /\ Counted
      BY <2>1 DEF TInv
    <2>0. UNCHANGED <<irq, held>>
      BY <1>3 DEF WriteCall, WriteStep, TestDre, TestEmpty, WriteDirect, SpinDone, StoreByte,
                  AdvanceHead, EnableDreIrq, Quiet, irqVars
    <2>3. pc \in [Ctx -> ThreadSteps]
      BY DEF TInv, IInv, TypeOK
    <2>4. /\ arg \in [Ctx -> Nat] /\ slot \in [Ctx -> 0 .. N-1]
          /\ pc["isr"] \in WriteSteps \cup {"idle"}
      BY DEF TInv, IInv, TypeOK
    <2> DEFINE o == IF c = "thread" THEN "isr" ELSE "thread"
    <2>5. o \in Ctx /\ o # c /\ Ctx = {c, o}
      BY DEF Ctx
    <2>6. pc[c] \in WriteSteps => pc[o] \notin WriteSteps
      BY <2>2 DEF OneWriter, Ctx
    <2> HIDE DEF o
    <2>7. CASE WriteCall(c)
      <3>1. /\ pc[c] = "idle" /\ pc' = [pc EXCEPT ![c] = "testDre"]
            /\ written' = written + 1 /\ arg' = [arg EXCEPT ![c] = written + 1]
            /\ UNCHANGED <<tx, dataReg, shiftReg, wire, slot>>
        BY <2>7 DEF WriteCall, Step, txVars
      <3>2. pc[o] \notin WriteSteps
        <4>1. CASE c = "thread"
          <5>1. o = "isr" /\ pc["isr"] = "idle"
            BY <2>7, <4>1 DEF WriteCall, Step, Runs, o
          <5>2. QED
            BY <5>1 DEF WriteSteps
        <4>2. CASE c = "isr"
          BY <2>7, <4>2 DEF WriteCall, o
        <4>3. QED
          BY <4>1, <4>2 DEF Ctx
      <3>3. pc'[c] = "testDre" /\ pc'[o] = pc[o]
        BY <2>3, <2>5, <3>1
      <3>4. InHand(c)' /\ ~InHand(o)' /\ ~InHand(c) /\ ~InHand(o)
        BY <3>1, <3>2, <3>3 DEF InHand, WriteSteps
      <3>5. OneWriter'
        BY <2>0, <2>2, <2>4, <2>5, <3>1, <3>2, <3>3, <3>4 DEF OneWriter, Ctx, WriteSteps
      <3>6. Ahead' = Ahead /\ Available(tx)' = Available(tx) /\ Numbered'
        BY <2>0, <2>2, <3>1, BytesStand
      <3>7. Counted'
        BY <2>2, <2>5, <3>1, <3>4, <3>6, TTypes DEF Counted
      <3>8. QED
        BY <3>5, <3>6, <3>7
    <2>8. ASSUME NEW from, NEW to, pc[c] = from, pc' = [pc EXCEPT ![c] = to],
                 from \in WriteSteps \ {"enable"}, to \in WriteSteps \ {"enable"},
                 UNCHANGED <<dataReg, shiftReg, wire, written, arg>>,
                 Available(tx') = Available(tx), Contents(tx') = Contents(tx),
                 to = "direct" => tx'.head = tx'.tail,
                 to \in {"store", "advance"} => ~IsFull(tx'),
                 to = "advance" => slot'[c] = NextIndex(tx'.head) /\ tx'.buf[tx'.head] = arg[c],
                 irq = "advance" => tx'.head # tx'.tail /\ held = Peek(tx')
          PROVE  OneWriter' /\ Numbered' /\ Counted'
      <3>1. pc'[c] = to /\ pc'[o] = pc[o]
        BY <2>3, <2>5, <2>8
      <3>2. pc[o] \notin WriteSteps
        BY <2>6, <2>8
      <3>3. InHand(c) /\ InHand(c)' /\ ~InHand(o) /\ ~InHand(o)'
        BY <2>8, <3>1, <3>2 DEF InHand
      <3>4. OneWriter'
        <4>1. arg'[c] = written'
          BY <2>2, <2>8, <3>3 DEF OneWriter
        <4>2. pc'[o] \notin WriteSteps
          BY <3>1, <3>2
        <4>3. ASSUME NEW d \in Ctx
              PROVE  /\ InHand(d)' => arg'[d] = written'
                     /\ pc'[d] = "direct" => tx'.head = tx'.tail
                     /\ pc'[d] \in {"store", "advance"} => ~IsFull(tx')
                     /\ pc'[d] = "advance" => /\ slot'[d] = NextIndex(tx'.head)
                                              /\ tx'.buf[tx'.head] = arg'[d]
          <5>1. CASE d = c
            BY <2>8, <3>1, <4>1, <5>1
          <5>2. CASE d = o
            BY <3>3, <4>2, <5>2 DEF WriteSteps
          <5>3. QED
            BY <2>5, <5>1, <5>2
        <4>4. pc'["thread"] \notin WriteSteps \/ pc'["isr"] \notin WriteSteps
          BY <2>5, <4>2 DEF Ctx
        <4>5. QED
          BY <2>0, <2>8, <4>3, <4>4 DEF OneWriter
      <3>5. Ahead' = Ahead /\ Available(tx)' = Available(tx) /\ Numbered'
        BY <2>0, <2>2, <2>8, BytesStand
      <3>6. Counted'
        BY <2>2, <2>8, <3>3, <3>5 DEF Counted
      <3>7. QED
        BY <3>4, <3>5, <3>6
    <2>9. CASE TestDre(c)
      <3>1. PICK to \in {"testEmpty", "spin"} :
               /\ pc[c] = "testDre" /\ pc' = [pc EXCEPT ![c] = to]
               /\ UNCHANGED <<tx, dataReg, shiftReg, wire, arg, slot, written>>
        BY <2>9 DEF TestDre, Step, txVars, wrVars
      <3>2. irq = "advance" => tx'.head # tx'.tail /\ held = Peek(tx')
        BY <2>2, <3>1 DEF OneWriter
      <3>3. QED
        BY <2>8, <3>1, <3>2 DEF WriteSteps
    <2>10. CASE TestEmpty(c)
      <3>1. PICK to \in {"direct", "spin"} :
               /\ pc[c] = "testEmpty" /\ pc' = [pc EXCEPT ![c] = to]
               /\ to = "direct" => Available(tx) = 0
               /\ UNCHANGED <<tx, dataReg, shiftReg, wire, arg, slot, written>>
        BY <2>10 DEF TestEmpty, Step, txVars, wrVars
      <3>2. to = "direct" => tx.head = tx.tail
        BY <3>1, TTypes, AvailableZero
      <3>3. irq = "advance" => tx'.head # tx'.tail /\ held = Peek(tx')
        BY <2>2, <3>1 DEF OneWriter
      <3>4. QED
        BY <2>8, <3>1, <3>2, <3>3 DEF WriteSteps
    <2>11. CASE SpinDone(c)
      <3>1. /\ pc[c] = "spin" /\ pc' = [pc EXCEPT ![c] = "store"] /\ ~IsFull(tx)
            /\ UNCHANGED <<tx, dataReg, shiftReg, wire, arg, slot, written>>
        BY <2>11 DEF SpinDone, Step, txVars, wrVars
      <3>2. irq = "advance" => tx'.head # tx'.tail /\ held = Peek(tx')
        BY <2>2, <3>1 DEF OneWriter
      <3>3. QED
        BY <2>8, <3>1, <3>2 DEF WriteSteps
    <2>12. CASE StoreByte(c)
      <3>1. pc[c] = "store" /\ UNCHANGED <<dataReg, shiftReg, wire, arg, written>>
        BY <2>12 DEF StoreByte, Step
      <3>2. ~IsFull(tx)
        BY <2>2, <3>1 DEF OneWriter
      <3>3. /\ pc' = [pc EXCEPT ![c] = "advance"]
            /\ tx' = [tx EXCEPT !.buf[tx.head] = arg[c]]
            /\ slot' = [slot EXCEPT ![c] = NextIndex(tx.head)]
        BY <2>12, <3>2 DEF StoreByte, Step
      <3>4. tx \in Ring(Nat) /\ tx' \in Ring(Nat)
        BY <1>1, TTypes DEF IInv, TypeOK
      <3>5. /\ tx'.head = tx.head /\ tx'.tail = tx.tail /\ tx'.buf[tx.head] = arg[c]
            /\ \A i \in 0 .. N-1 : i # tx.head => tx'.buf[i] = tx.buf[i]
        BY <3>3, <3>4 DEF Ring
      <3>6. Contents(tx') = Contents(tx) /\ Available(tx') = Available(tx)
        BY <3>4, <3>5, HeadSlot DEF Available
      <3>7. ~IsFull(tx') /\ slot'[c] = NextIndex(tx'.head) /\ tx'.buf[tx'.head] = arg[c]
        BY <2>4, <3>2, <3>3, <3>5 DEF IsFull
      <3>8. irq = "advance" => tx'.head # tx'.tail /\ held = Peek(tx')
        BY <2>2, <3>4, <3>5 DEF OneWriter, Peek, Ring
      <3>9. QED
        BY <2>8, <3>1, <3>3, <3>6, <3>7, <3>8 DEF WriteSteps
    <2>13. CASE AdvanceHead(c)
      <3>1. /\ pc[c] = "advance" /\ pc' = [pc EXCEPT ![c] = "enable"]
            /\ tx' = [tx EXCEPT !.head = slot[c]]
            /\ UNCHANGED <<dataReg, shiftReg, wire, arg, slot, written>>
        BY <2>13 DEF AdvanceHead, Step, wrVars
      <3>2. ~IsFull(tx) /\ slot[c] = NextIndex(tx.head) /\ tx.buf[tx.head] = arg[c]
        BY <2>2, <3>1 DEF OneWriter
      <3>3. tx \in Ring(Nat) /\ tx' \in Ring(Nat)
        BY <1>1, TTypes DEF IInv, TypeOK
      <3>4. tx'.head = NextIndex(tx.head) /\ tx'.tail = tx.tail /\ tx'.buf = tx.buf
        BY <3>1, <3>2, <3>3 DEF Ring
      <3>5. /\ Available(tx') = Available(tx) + 1
            /\ \A k \in 1 .. Available(tx) : Contents(tx')[k] = Contents(tx)[k]
            /\ Contents(tx')[Available(tx) + 1] = arg[c]
        BY <3>2, <3>3, <3>4, HeadMoves
      <3>6. pc'[c] = "enable" /\ pc'[o] = pc[o] /\ pc[o] \notin WriteSteps
        BY <2>3, <2>5, <2>6, <3>1 DEF WriteSteps
      <3>7. InHand(c) /\ ~InHand(c)' /\ ~InHand(o)'
        BY <3>1, <3>6 DEF InHand, WriteSteps
      <3>8. Ahead' = Ahead
        BY <2>0, <3>1 DEF Ahead, OnIrq
      <3>9. arg[c] = written /\ Ahead + Available(tx) = written - 1
        BY <2>2, <3>7 DEF OneWriter, Counted
      <3>10. arg[c] = Ahead + (Available(tx) + 1) /\ Ahead + (Available(tx) + 1) = written
        BY <3>9, TTypes
      <3>11. OneWriter'
        <4>1. irq = "advance" => tx'.head # tx'.tail /\ held = Peek(tx')
          BY <2>2, <3>2, <3>4 DEF OneWriter, Peek, IsFull
        <4>2. QED
          BY <2>0, <2>5, <3>6, <3>7, <4>1 DEF OneWriter, Ctx, WriteSteps
      <3>12. Numbered'
        <4>1. ASSUME NEW k \in 1 .. Available(tx') PROVE Contents(tx')[k] = Ahead + k
          <5>1. k \in 1 .. Available(tx) \/ k = Available(tx) + 1
            BY <3>5, TTypes
          <5>2. QED
            BY <2>2, <3>5, <3>10, <5>1 DEF Numbered
        <4>2. QED
          BY <2>0, <2>2, <3>1, <3>8, <4>1 DEF Numbered
      <3>13. Counted'
        BY <2>5, <3>1, <3>5, <3>7, <3>8, <3>10 DEF Counted
      <3>14. QED
        BY <3>11, <3>12, <3>13
    <2>14. CASE WriteDirect(c)
      <3>1. /\ DRE /\ pc[c] = "direct" /\ pc' = [pc EXCEPT ![c] = "idle"]
            /\ dataReg' = arg[c] /\ UNCHANGED <<tx, shiftReg, wire, arg, slot, written>>
            /\ irq \notin {"advance", "send"} /\ OnIrq = 0 /\ OnIrq' = 0
        BY <2>0, <2>14 DEF WriteDirect, Step, Fetched, OnIrq
      <3>2. tx \in Ring(Nat) /\ tx.head = tx.tail /\ Available(tx) = 0
        BY <2>2, <3>1, TTypes, AvailableZero DEF OneWriter
      <3>3. pc'[c] = "idle" /\ pc'[o] = pc[o] /\ pc[o] \notin WriteSteps
        BY <2>3, <2>5, <2>6, <3>1 DEF WriteSteps
      <3>4. InHand(c) /\ ~InHand(c)' /\ ~InHand(o)'
        BY <3>1, <3>3 DEF InHand, WriteSteps
      <3>5. arg[c] = written /\ Ahead = written - 1
        BY <2>2, <3>2, <3>4, TTypes DEF OneWriter, Counted
      <3>6. Used(dataReg) = 0 /\ Used(dataReg') = 1
        BY <2>4, <3>1 DEF Used, DRE, NoChar
      <3>7. Ahead' = written /\ dataReg' = Len(wire) + Used(shiftReg) + 1
        <4>1. Ahead' = Len(wire) + Used(shiftReg) + Used(dataReg')
          BY <3>1, <3>6, TTypes DEF Ahead
        <4>2. Ahead = Len(wire) + Used(shiftReg) + Used(dataReg)
          BY <3>1, TTypes DEF Ahead
        <4>3. QED
          BY <3>1, <3>5, <3>6, <4>1, <4>2, TTypes
      <3>8. OneWriter'
        BY <2>0, <2>5, <3>1, <3>3, <3>4 DEF OneWriter, Ctx, WriteSteps
      <3>9. Numbered'
        BY <2>0, <2>2, <3>1, <3>2, <3>7 DEF Numbered
      <3>10. Counted'
        BY <2>5, <3>1, <3>2, <3>4, <3>7, TTypes DEF Counted
      <3>11. QED
        BY <3>8, <3>9, <3>10
    <2>15. CASE EnableDreIrq(c)
      <3>1. /\ pc[c] = "enable" /\ pc' = [pc EXCEPT ![c] = "idle"]
            /\ UNCHANGED <<tx, dataReg, shiftReg, wire, arg, slot, written>>
        BY <2>15 DEF EnableDreIrq, Step, wrVars
      <3>2. pc'[c] = "idle" /\ pc'[o] = pc[o] /\ pc[o] \notin WriteSteps
        BY <2>3, <2>5, <2>6, <3>1 DEF WriteSteps
      <3>3. ~InHand(c) /\ ~InHand(o) /\ ~InHand(c)' /\ ~InHand(o)'
        BY <3>1, <3>2 DEF InHand, WriteSteps
      <3>4. OneWriter'
        BY <2>0, <2>2, <2>5, <3>1, <3>2, <3>3 DEF OneWriter, Ctx, WriteSteps
      <3>5. Ahead' = Ahead /\ Available(tx)' = Available(tx) /\ Numbered'
        BY <2>0, <2>2, <3>1, BytesStand
      <3>6. Counted'
        BY <2>2, <2>5, <3>1, <3>3, <3>5 DEF Counted
      <3>7. QED
        BY <3>4, <3>5, <3>6
    <2>16. QED
      BY <1>3, <2>7, <2>9, <2>10, <2>11, <2>12, <2>13, <2>14, <2>15 DEF WriteStep
  <1>4. QED
    BY <1>2, <1>3

(* DATA to the shift register, the shift register to the wire.              *)
LEMMA ShiftTInv ==
    ASSUME TInv, HwLoad \/ HwSent
    PROVE  TInv'
  <1>1. IInv'
    BY HardwareIInv DEF TInv
  <1>2. UNCHANGED <<tx, pc, arg, slot, written, nested, irq, held>> /\ OnIrq' = OnIrq
    BY DEF HwLoad, HwSent, wrVars, Quiet, irqVars, OnIrq
  <1> SUFFICES ASSUME ~nested PROVE OneWriter' /\ Numbered' /\ Counted'
    BY <1>1, <1>2 DEF TInv
  <1>3. OneWriter /\ Numbered /\ Counted
    BY DEF TInv
  <1>4. \A c \in Ctx : InHand(c)' <=> InHand(c)
    BY <1>2 DEF InHand
  <1>5. OneWriter'
    BY <1>2, <1>3, <1>4 DEF OneWriter
  <1>6. Ahead' = Ahead /\ Numbered'
    <2>1. CASE HwLoad
      <3>1. /\ dataReg # NoChar /\ shiftReg = NoChar
            /\ shiftReg' = dataReg /\ dataReg' = NoChar /\ wire' = wire
        BY <2>1 DEF HwLoad
      <3>2. Used(shiftReg') = 1 /\ Used(dataReg') = 0 /\ Used(shiftReg) = 0 /\ Used(dataReg) = 1
        BY <3>1 DEF Used
      <3>3. Ahead' = Ahead
        <4>1. Ahead' = Len(wire) + Used(shiftReg') + Used(dataReg') + OnIrq
          BY <1>2, <3>1 DEF Ahead
        <4>2. QED
          BY <3>2, <4>1, TTypes DEF Ahead
      <3>4. shiftReg' = Len(wire) + 1
        BY <1>3, <3>1, <3>2, TTypes DEF Numbered
      <3>5. irq = "send" => held = Len(wire') + Used(shiftReg') + Used(dataReg') + 1
        BY <1>3, <3>1, <3>2, TTypes DEF Numbered
      <3>6. QED
        BY <1>2, <1>3, <3>1, <3>3, <3>4, <3>5 DEF Numbered
    <2>2. CASE HwSent
      <3>1. /\ shiftReg # NoChar /\ wire' = Append(wire, shiftReg)
            /\ shiftReg' = NoChar /\ dataReg' = dataReg
        BY <2>2 DEF HwSent
      <3>2. Used(shiftReg) = 1 /\ Used(shiftReg') = 0 /\ shiftReg \in Nat /\ wire \in Seq(Nat)
        BY <3>1, TTypes DEF Used
      <3>3. /\ Len(wire') = Len(wire) + 1 /\ wire'[Len(wire) + 1] = shiftReg
            /\ \A i \in 1 .. Len(wire) : wire'[i] = wire[i]
        BY <3>1, <3>2, AppendProperties
      <3>4. Ahead' = Ahead
        <4>1. Ahead' = Len(wire') + Used(shiftReg') + Used(dataReg) + OnIrq
          BY <1>2, <3>1 DEF Ahead
        <4>2. QED
          BY <3>2, <3>3, <4>1, TTypes DEF Ahead
      <3>5. \A i \in 1 .. Len(wire') : wire'[i] = i
        <4> TAKE i \in 1 .. Len(wire')
        <4>1. i \in 1 .. Len(wire) \/ i = Len(wire) + 1
          BY <3>3, TTypes
        <4>2. QED
          BY <1>3, <3>1, <3>3, <4>1 DEF Numbered
      <3>6. dataReg # NoChar => dataReg = Len(wire') + Used(shiftReg') + 1
        BY <1>3, <3>2, <3>3, TTypes DEF Numbered
      <3>7. irq = "send" => held = Len(wire') + Used(shiftReg') + Used(dataReg') + 1
        BY <1>3, <3>1, <3>2, <3>3, TTypes DEF Numbered
      <3>8. QED
        BY <1>2, <1>3, <3>1, <3>4, <3>5, <3>6, <3>7 DEF Numbered
    <2>3. QED
      BY <2>1, <2>2
  <1>7. Counted'
    BY <1>2, <1>3, <1>4, <1>6 DEF Counted
  <1>8. QED
    BY <1>5, <1>6, <1>7

(* Reading, flushing and receiving leave the bytes to be sent alone.        *)
LEMMA OtherTInv ==
    ASSUME TInv, IInv', UNCHANGED <<tx, dataReg, shiftReg, wire, wrVars, irqVars>>,
           pc'["isr"] = pc["isr"],
           \/ pc'["thread"] = pc["thread"]
           \/ pc["thread"] \notin WriteSteps /\ pc'["thread"] \notin WriteSteps
    PROVE  TInv'
  <1>1. UNCHANGED <<tx, dataReg, shiftReg, wire, arg, slot, written, nested, irq, held>>
    BY DEF wrVars, irqVars
  <1> SUFFICES ASSUME ~nested PROVE OneWriter' /\ Numbered' /\ Counted'
    BY <1>1 DEF TInv
  <1>2. OneWriter /\ Numbered /\ Counted
    BY DEF TInv
  <1>3. \A c \in Ctx : pc'[c] = pc[c] \/ (pc[c] \notin WriteSteps /\ pc'[c] \notin WriteSteps)
    BY DEF Ctx
  <1>4. \A c \in Ctx : InHand(c)' <=> InHand(c)
    BY <1>3 DEF InHand
  <1>5. \A c \in Ctx : pc'[c] \in {"direct", "store", "advance"} => pc'[c] = pc[c]
    BY <1>3 DEF WriteSteps
  <1>6. OneWriter'
    <2>1. pc'["thread"] \notin WriteSteps \/ pc'["isr"] \notin WriteSteps
      BY <1>2 DEF OneWriter
    <2>2. QED
      BY <1>1, <1>2, <1>4, <1>5, <2>1 DEF OneWriter
  <1>7. Ahead' = Ahead /\ Available(tx)' = Available(tx) /\ Numbered'
    BY <1>1, <1>2, BytesStand
  <1>8. Counted'
    BY <1>1, <1>2, <1>4, <1>7 DEF Counted
  <1>9. QED
    BY <1>6, <1>7, <1>8

LEMMA NextTInv == TInv /\ [Next]_vars => TInv'
  <1> SUFFICES ASSUME TInv, [Next]_vars PROVE TInv'
    OBVIOUS
  <1>1. IInv' /\ pc \in [Ctx -> ThreadSteps]
    BY NextIInv DEF TInv, IInv, TypeOK
  <1>2. CASE UartIrq \/ IrqStep
    BY <1>2, IrqTInv
  <1>3. ASSUME NEW c \in Ctx, WriteCall(c) \/ WriteStep(c) PROVE TInv'
    BY <1>3, WriteTInv
  <1>4. CASE FlushCall \/ FlushStep
    BY <1>1, <1>4, OtherTInv DEF FlushCall, FlushStep, FlushEmpty, FlushDre, FlushTxc, Step, Quiet,
       txVars, Ctx, WriteSteps
  <1>5. CASE ReadCall \/ ReadStep
    BY <1>1, <1>5, OtherTInv DEF ReadCall, ReadStep, ReadByte, ReadAdvance, RtsTest, RtsSpace,
       RtsAssert, AfterRead, Step, NoWrite, txVars, Ctx, WriteSteps
  <1>6. CASE HwLoad \/ HwSent
    BY <1>6, ShiftTInv
  <1>7. CASE HwReceive
    BY <1>1, <1>7, OtherTInv DEF HwReceive, NoWrite, txVars
  <1>8. CASE UNCHANGED vars
    BY <1>1, <1>8, OtherTInv DEF vars, txVars
  <1>9. QED
    BY <1>2, <1>3, <1>4, <1>5, <1>6, <1>7, <1>8 DEF Next

LEMMA OneSeq ==
    ASSUME NEW reg \in Nat \cup {NoChar}, NEW n \in Nat, reg # NoChar => reg = n + 1
    PROVE  /\ One(reg) \in Seq(Nat) /\ Len(One(reg)) = Used(reg)
           /\ \A i \in 1 .. Len(One(reg)) : One(reg)[i] = n + i
  <1>1. CASE reg = NoChar
    <2>1. One(reg) = <<>> /\ Used(reg) = 0
      BY <1>1 DEF One, Used
    <2>2. QED
      BY <2>1
  <1>2. CASE reg # NoChar
    <2>1. One(reg) = <<reg>> /\ Used(reg) = 1 /\ reg \in Nat
      BY <1>2 DEF One, Used
    <2>2. Len(One(reg)) = 1 /\ One(reg)[1] = n + 1
      BY <1>2, <2>1
    <2>3. \A i \in 1 .. 1 : i = 1
      OBVIOUS
    <2>4. QED
      BY <2>1, <2>2, <2>3
  <1>3. QED
    BY <1>1, <1>2

LEMMA NumberedInOrder == TInv => TxFifo
  <1> SUFFICES ASSUME TInv, ~nested PROVE TxStream = [k \in 1 .. Taken |-> k]
    BY DEF TxFifo
  <1>1. OneWriter /\ Numbered /\ Counted
    BY DEF TInv
  <1>2. Contents(tx) \in Seq(Nat) /\ Len(Contents(tx)) = Available(tx)
    BY TTypes, ContentsSeq
  <1> DEFINE s1 == wire \o One(shiftReg)
             s2 == s1 \o One(dataReg)
             s3 == s2 \o Sending
  <1>3. /\ s1 \in Seq(Nat) /\ Len(s1) = Len(wire) + Used(shiftReg)
        /\ \A i \in 1 .. Len(s1) : s1[i] = i
    <2>1. \A i \in 1 .. Len(wire) : wire[i] = i
      BY <1>1 DEF Numbered
    <2>2. /\ One(shiftReg) \in Seq(Nat) /\ Len(One(shiftReg)) = Used(shiftReg)
          /\ \A i \in 1 .. Len(One(shiftReg)) : One(shiftReg)[i] = Len(wire) + i
      BY <1>1, OneSeq, TTypes DEF Numbered
    <2>3. QED
      BY <2>1, <2>2, TTypes, Joined
  <1>4. /\ s2 \in Seq(Nat) /\ Len(s2) = Len(wire) + Used(shiftReg) + Used(dataReg)
        /\ \A i \in 1 .. Len(s2) : s2[i] = i
    <2> HIDE DEF s1
    <2>1. /\ One(dataReg) \in Seq(Nat) /\ Len(One(dataReg)) = Used(dataReg)
          /\ \A i \in 1 .. Len(One(dataReg)) : One(dataReg)[i] = Len(s1) + i
      <3>1. Len(s1) \in Nat /\ (dataReg # NoChar => dataReg = Len(s1) + 1)
        BY <1>1, <1>3, TTypes DEF Numbered
      <3>2. dataReg \in Nat \cup {NoChar}
        BY TTypes
      <3>3. QED
        BY <3>1, <3>2, OneSeq
    <2>2. QED
      BY <1>3, <2>1, TTypes, Joined
  <1>8. s3 \in Seq(Nat) /\ Len(s3) = Ahead /\ \A i \in 1 .. Len(s3) : s3[i] = i
    <2> HIDE DEF s1, s2
    <2>1. CASE irq = "send"
      <3>1. Sending = <<held>> /\ held = Len(s2) + 1 /\ OnIrq = 1 /\ Len(s2) \in Nat
        BY <1>1, <1>4, <2>1, TTypes DEF Sending, OnIrq, Numbered
      <3>2. /\ Sending \in Seq(Nat) /\ Len(Sending) = 1
            /\ \A i \in 1 .. Len(Sending) : Sending[i] = Len(s2) + i
        BY <3>1
      <3>3. QED
        BY <1>4, <3>1, <3>2, TTypes, Joined DEF Ahead
    <2>2. CASE irq # "send"
      <3>1. Sending = <<>> /\ OnIrq = 0 /\ s3 = s2
        BY <1>4, <2>2 DEF Sending, OnIrq
      <3>2. QED
        BY <1>4, <3>1, TTypes DEF Ahead
    <2>3. QED
      BY <2>1, <2>2
  <1>5. /\ TxStream \in Seq(Nat) /\ Len(TxStream) = Ahead + Available(tx)
        /\ \A i \in 1 .. Len(TxStream) : TxStream[i] = i
    <2> HIDE DEF s1, s2, s3
    <2>1. \A i \in 1 .. Len(Contents(tx)) : Contents(tx)[i] = Len(s3) + i
      BY <1>1, <1>2, <1>8 DEF Numbered
    <2>2. TxStream = s3 \o Contents(tx)
      BY DEF TxStream, s3, s2, s1
    <2>3. QED
      BY <1>2, <1>8, <2>1, <2>2, Joined
  <1>6. Taken = Ahead + Available(tx)
    <2> DEFINE hands == {c \in Ctx : InHand(c)}
    <2>1. CASE \E c \in Ctx : InHand(c)
      <3>1. PICK c \in Ctx : InHand(c)
        BY <2>1
      <3>2. hands = {c}
        BY <1>1, <3>1 DEF OneWriter, InHand, Ctx
      <3>3. Cardinality(hands) = 1
        BY <3>2, FS_Singleton
      <3>4. QED
        BY <1>1, <2>1, <3>3 DEF Taken, Counted
    <2>2. CASE ~(\E c \in Ctx : InHand(c))
      <3>1. hands = {}
        BY <2>2
      <3>2. Cardinality(hands) = 0
        BY <3>1, FS_EmptySet
      <3>3. QED
        BY <1>1, <2>2, <3>2, TTypes DEF Taken, Counted
    <2>3. QED
      BY <2>1, <2>2
  <1>7. QED
    <2>1. DOMAIN TxStream = 1 .. Taken /\ TxStream = [k \in DOMAIN TxStream |-> TxStream[k]]
      BY <1>5, <1>6
    <2>2. \A k \in 1 .. Taken : TxStream[k] = k
      BY <1>5, <1>6
    <2>3. QED
      BY <2>1, <2>2

(* As long as no writer breaks into another one's write, or fills DATA      *)
(* while the interrupt holds a byte it has fetched, what reached the wire,  *)
(* the registers and the ring is what was written, in order and once each,  *)
(* for every ring size and wherever interrupts fall in write and handlers   *)
(* that write in the interrupt (Uart.cpp 111-119, 158-191).                 *)
THEOREM SentInOrder == Spec => []TxFifo
  BY InitTInv, NextTInv, NumberedInOrder, PTL DEF Spec

-----------------------------------------------------------------------------
(* The order of the bytes received.                                         *)
Rising(s) == \A i, j \in DOMAIN s : i < j => s[i] < s[j]
Values(s) == {s[i] : i \in DOMAIN s}

(* A sequence of all bytes that arrived, in order, but the given ones.      *)
AllBut(s, gone) == Rising(s) /\ Values(s) = (1 .. arrived) \ gone

(* The byte read() is about to return is still the first of the ring.       *)
StillFirst == pc["thread"] = "readAdv" => rx.head # rx.tail /\ rdVal = Peek(rx)

(* The interrupt has a byte to take, and the slot it stores one in is still *)
(* the free one at the head.                                                *)
Keeping ==
    /\ irq = "take" => rxHw # <<>>
    /\ irq = "keepAdv" => /\ ~IsFull(rx) /\ newHead = NextIndex(rx.head)
                          /\ rx.buf[rx.head] = held

InMemory == got \o Contents(rx)
Waiting == InHands \o rxHw

RInv ==
    /\ IInv /\ ~crossed /\ StillFirst /\ Keeping
    /\ lost \subseteq 1 .. arrived
    /\ AllBut(InMemory \o Waiting, lost)

(* The property excepts the runs in which a nested handler took a byte out  *)
(* of turn.                                                                 *)
RCase == IInv /\ (~crossed => RInv)

(* The first element of one sequence moved to the end of another.           *)
LEMMA Passed ==
    ASSUME NEW s \in Seq(Nat), NEW t \in Seq(Nat), t # <<>>
    PROVE  Append(s, t[1]) \o Tail(t) = s \o t
  <1> DEFINE a == Append(s, t[1])
             u == a \o Tail(t)
             v == s \o t
  <1>1. t[1] \in Nat /\ Len(t) \in Nat /\ Len(t) >= 1 /\ Len(s) \in Nat
    OBVIOUS
  <1>2. /\ a \in Seq(Nat) /\ Len(a) = Len(s) + 1 /\ a[Len(s) + 1] = t[1]
        /\ \A i \in 1 .. Len(s) : a[i] = s[i]
    BY <1>1, AppendProperties
  <1>3. /\ Tail(t) \in Seq(Nat) /\ Len(Tail(t)) = Len(t) - 1
        /\ \A i \in 1 .. Len(Tail(t)) : Tail(t)[i] = t[i + 1]
    BY HeadTailProperties
  <1> HIDE DEF a
  <1>4. /\ u \in Seq(Nat) /\ Len(u) = Len(a) + Len(Tail(t))
        /\ \A i \in 1 .. Len(a) + Len(Tail(t)) :
              u[i] = IF i <= Len(a) THEN a[i] ELSE Tail(t)[i - Len(a)]
    BY <1>2, <1>3, ConcatProperties
  <1>5. /\ v \in Seq(Nat) /\ Len(v) = Len(s) + Len(t)
        /\ \A i \in 1 .. Len(s) + Len(t) : v[i] = IF i <= Len(s) THEN s[i] ELSE t[i - Len(s)]
    BY ConcatProperties
  <1> HIDE DEF u, v
  <1>6. Len(u) = Len(v)
    BY <1>1, <1>2, <1>3, <1>4, <1>5
  <1>7. ASSUME NEW i \in 1 .. Len(u) PROVE u[i] = v[i]
    <2>1. i \in 1 .. Len(s) + Len(t) /\ i \in 1 .. Len(a) + Len(Tail(t)) /\ i \in Nat
      BY <1>4, <1>5, <1>6
    <2>2. CASE i <= Len(s)
      <3>1. i <= Len(a) /\ i \in 1 .. Len(s)
        BY <1>1, <1>2, <2>1, <2>2
      <3>2. QED
        BY <1>2, <1>4, <1>5, <2>1, <2>2, <3>1
    <2>3. CASE i = Len(s) + 1
      <3>1. i <= Len(a) /\ ~(i <= Len(s)) /\ i - Len(s) = 1
        BY <1>1, <1>2, <2>3
      <3>2. QED
        BY <1>2, <1>4, <1>5, <2>1, <2>3, <3>1
    <2>4. CASE i > Len(s) + 1
      <3>1. /\ ~(i <= Len(a)) /\ ~(i <= Len(s)) /\ i - Len(a) \in 1 .. Len(Tail(t))
            /\ (i - Len(a)) + 1 = i - Len(s)
        BY <1>1, <1>2, <1>3, <2>1, <2>4
      <3>2. QED
        BY <1>3, <1>4, <1>5, <2>1, <3>1
    <2>5. QED
      BY <1>1, <2>1, <2>2, <2>3, <2>4
  <1>8. u = v
    BY <1>4, <1>5, <1>6, <1>7, SeqEqual
  <1>9. QED
    BY <1>8 DEF u, v, a

(* Leaving out one byte.                                                    *)
LEMMA Discarded ==
    ASSUME NEW s \in Seq(Nat), NEW t \in Seq(Nat), t # <<>>, NEW gone, AllBut(s \o t, gone)
    PROVE  AllBut(s \o Tail(t), gone \cup {t[1]})
  <1> DEFINE u == s \o t
             v == s \o Tail(t)
             m == Len(s)
             skip(i) == IF i <= m THEN i ELSE i + 1
  <1>1. m \in Nat /\ Len(t) \in Nat /\ Len(t) >= 1
    OBVIOUS
  <1>2. /\ Tail(t) \in Seq(Nat) /\ Len(Tail(t)) = Len(t) - 1
        /\ \A i \in 1 .. Len(Tail(t)) : Tail(t)[i] = t[i + 1]
    BY HeadTailProperties
  <1>3. /\ u \in Seq(Nat) /\ Len(u) = m + Len(t)
        /\ \A i \in 1 .. m + Len(t) : u[i] = IF i <= m THEN s[i] ELSE t[i - m]
    BY ConcatProperties
  <1>4. /\ v \in Seq(Nat) /\ Len(v) = m + Len(Tail(t))
        /\ \A i \in 1 .. m + Len(Tail(t)) : v[i] = IF i <= m THEN s[i] ELSE Tail(t)[i - m]
    BY <1>2, ConcatProperties
  <1>5. Rising(u) /\ Values(u) = (1 .. arrived) \ gone
    BY DEF AllBut
  <1> HIDE DEF u, v, m
  <1>6. /\ DOMAIN u = 1 .. m + Len(t) /\ DOMAIN v = 1 .. (m + Len(t) - 1)
        /\ m + Len(Tail(t)) = m + Len(t) - 1
    BY <1>1, <1>2, <1>3, <1>4
  <1>7. m + 1 \in DOMAIN u /\ u[m + 1] = t[1]
    <2>1. m + 1 \in 1 .. m + Len(t) /\ ~(m + 1 <= m) /\ (m + 1) - m = 1
      BY <1>1
    <2>2. QED
      BY <1>3, <1>6, <2>1
  <1>8. ASSUME NEW i \in DOMAIN v PROVE skip(i) \in DOMAIN u /\ skip(i) # m + 1 /\ v[i] = u[skip(i)]
    <2>1. i \in 1 .. m + Len(Tail(t)) /\ i \in Nat /\ i + 1 \in 1 .. m + Len(t)
          /\ i \in 1 .. m + Len(t)
      BY <1>1, <1>6
    <2>2. CASE i <= m
      <3>1. skip(i) = i /\ i # m + 1 /\ i \in DOMAIN u
        BY <1>1, <1>6, <2>1, <2>2
      <3>2. v[i] = u[i]
        BY <1>3, <1>4, <2>1, <2>2
      <3>3. QED
        BY <3>1, <3>2
    <2>3. CASE ~(i <= m)
      <3>1. /\ i - m \in 1 .. Len(Tail(t)) /\ (i - m) + 1 = (i + 1) - m
            /\ ~(i + 1 <= m) /\ i + 1 # m + 1
        <4> DEFINE l == Len(Tail(t))
        <4>1. l \in Nat /\ i \in 1 .. m + l
          BY <1>1, <1>2, <2>1
        <4> HIDE DEF l
        <4>2. /\ i - m \in 1 .. l /\ (i - m) + 1 = (i + 1) - m
              /\ ~(i + 1 <= m) /\ i + 1 # m + 1
          BY <1>1, <2>3, <4>1
        <4>3. QED
          BY <4>2 DEF l
      <3>2. v[i] = t[(i + 1) - m]
        <4>1. v[i] = Tail(t)[i - m]
          BY <1>4, <2>1, <2>3
        <4>2. Tail(t)[i - m] = t[(i - m) + 1]
          BY <1>2, <3>1
        <4>3. QED
          BY <3>1, <4>1, <4>2
      <3>3. u[i + 1] = t[(i + 1) - m]
        BY <1>3, <2>1, <3>1
      <3>4. skip(i) = i + 1
        BY <2>3
      <3>5. QED
        BY <1>6, <2>1, <3>1, <3>2, <3>3, <3>4
    <2>4. QED
      BY <2>2, <2>3
  <1>9. Rising(v)
    <2>1. ASSUME NEW i \in DOMAIN v, NEW j \in DOMAIN v, i < j PROVE skip(i) < skip(j)
      BY <1>1, <1>6, <2>1
    <2> HIDE DEF skip
    <2>2. QED
      BY <1>5, <1>8, <2>1 DEF Rising
  <1>10. ASSUME NEW k \in DOMAIN u, k # m + 1 PROVE u[k] \in Values(v) /\ u[k] # t[1]
    <2>1. \E i \in DOMAIN v : skip(i) = k
      <3>1. CASE k <= m
        BY <1>1, <1>6, <1>10, <3>1
      <3>2. CASE ~(k <= m)
        <4>1. k - 1 \in DOMAIN v /\ ~(k - 1 <= m) /\ (k - 1) + 1 = k
          BY <1>1, <1>6, <1>10, <3>2
        <4>2. QED
          BY <4>1
      <3>3. QED
        BY <3>1, <3>2
    <2> HIDE DEF skip
    <2>2. u[k] \in Values(v)
      BY <1>8, <2>1 DEF Values
    <2>3. u[k] # u[m + 1]
      <3>1. k < m + 1 \/ m + 1 < k
        BY <1>1, <1>6, <1>10
      <3>2. u[k] < u[m + 1] \/ u[m + 1] < u[k]
        BY <1>5, <1>7, <3>1 DEF Rising
      <3>3. u[k] \in Nat /\ u[m + 1] \in Nat
        BY <1>3, <1>6, <1>7
      <3>4. QED
        BY <3>2, <3>3
    <2>4. QED
      BY <1>7, <2>2, <2>3
  <1> HIDE DEF skip
  <1>11. Values(v) = Values(u) \ {t[1]}
    <2>1. \A i \in DOMAIN v : v[i] \in Values(u) \ {t[1]}
      BY <1>8, <1>10 DEF Values
    <2>2. \A x \in Values(u) \ {t[1]} : x \in Values(v)
      BY <1>7, <1>10 DEF Values
    <2>3. QED
      BY <2>1, <2>2 DEF Values
  <1>12. QED
    BY <1>5, <1>9, <1>11 DEF AllBut, v, u

(* One more byte.                                                           *)
LEMMA Arriving ==
    ASSUME NEW s \in Seq(Nat), NEW t \in Seq(Nat), arrived \in Nat,
           NEW gone, gone \subseteq 1 .. arrived, AllBut(s \o t, gone)
    PROVE  /\ Rising(s \o Append(t, arrived + 1))
           /\ Values(s \o Append(t, arrived + 1)) = (1 .. arrived + 1) \ gone
  <1> DEFINE x == arrived + 1
             a == Append(t, x)
             u == s \o t
             v == s \o a
             n == Len(s) + Len(t)
  <1>1. x \in Nat /\ Len(s) \in Nat /\ Len(t) \in Nat /\ n \in Nat
    OBVIOUS
  <1>2. /\ a \in Seq(Nat) /\ Len(a) = Len(t) + 1 /\ a[Len(t) + 1] = x
        /\ \A i \in 1 .. Len(t) : a[i] = t[i]
    BY <1>1, AppendProperties
  <1> HIDE DEF a
  <1>3. /\ u \in Seq(Nat) /\ Len(u) = n
        /\ \A i \in 1 .. n : u[i] = IF i <= Len(s) THEN s[i] ELSE t[i - Len(s)]
    BY ConcatProperties
  <1>4. /\ v \in Seq(Nat) /\ Len(v) = Len(s) + Len(a)
        /\ \A i \in 1 .. Len(s) + Len(a) : v[i] = IF i <= Len(s) THEN s[i] ELSE a[i - Len(s)]
    BY <1>2, ConcatProperties
  <1>5. Rising(u) /\ Values(u) = (1 .. arrived) \ gone
    BY DEF AllBut
  <1> HIDE DEF u, v
  <1>6. Len(s) + Len(a) = n + 1 /\ n + 1 \in 1 .. n + 1
    BY <1>1, <1>2
  <1>7. DOMAIN u = 1 .. n /\ DOMAIN v = 1 .. n + 1
    BY <1>3, <1>4, <1>6
  <1>8. v[n + 1] = x
    <2>1. ~(n + 1 <= Len(s)) /\ (n + 1) - Len(s) = Len(t) + 1
      BY <1>1
    <2>2. QED
      BY <1>2, <1>4, <1>6, <2>1
  <1>9. ASSUME NEW i \in 1 .. n PROVE v[i] = u[i] /\ u[i] < x
    <2>1. i \in 1 .. Len(s) + Len(a) /\ (~(i <= Len(s)) => i - Len(s) \in 1 .. Len(t))
      BY <1>1, <1>6
    <2>2. v[i] = u[i]
      BY <1>2, <1>3, <1>4, <2>1
    <2>3. u[i] \in 1 .. arrived
      BY <1>5, <1>7 DEF Values
    <2>4. u[i] < x
      BY <2>3
    <2>5. QED
      BY <2>2, <2>4
  <1> HIDE DEF n, x
  <1>10. Rising(v)
    <2>1. ASSUME NEW i \in 1 .. n + 1, NEW j \in 1 .. n + 1, i < j PROVE v[i] < v[j]
      <3>1. i \in 1 .. n
        BY <1>1, <2>1
      <3>2. CASE j \in 1 .. n
        BY <1>5, <1>7, <1>9, <2>1, <3>1, <3>2 DEF Rising
      <3>3. CASE j = n + 1
        BY <1>8, <1>9, <3>1, <3>3
      <3>4. QED
        BY <1>1, <3>2, <3>3
    <2>2. QED
      BY <1>7, <2>1 DEF Rising
  <1>11. Values(v) = Values(u) \cup {x}
    <2>1. \A i \in 1 .. n + 1 : i \in 1 .. n \/ i = n + 1
      BY <1>1
    <2>2. \A i \in 1 .. n : i \in 1 .. n + 1
      BY <1>1
    <2>3. \A y \in Values(v) : y \in Values(u) \cup {x}
      BY <1>7, <1>8, <1>9, <2>1 DEF Values
    <2>4. \A y \in Values(u) \cup {x} : y \in Values(v)
      BY <1>6, <1>7, <1>8, <1>9, <2>2 DEF Values
    <2>5. QED
      BY <2>3, <2>4
  <1>12. Values(v) = (1 .. arrived + 1) \ gone
    <2>1. x \notin gone /\ 1 .. arrived + 1 = (1 .. arrived) \cup {x}
      BY DEF x
    <2>2. QED
      BY <1>5, <1>11, <2>1
  <1>13. QED
    BY <1>10, <1>12 DEF v, a, x

LEMMA RTypes ==
    ASSUME RInv
    PROVE  /\ rx \in Ring(Nat) /\ rxHw \in Seq(Nat) /\ got \in Seq(Nat) /\ arrived \in Nat
           /\ Contents(rx) \in Seq(Nat) /\ Len(Contents(rx)) = Available(rx)
           /\ InMemory \in Seq(Nat) /\ Waiting \in Seq(Nat) /\ InHands \in Seq(Nat)
           /\ irq \notin {"keep", "keepAdv"} => Waiting = rxHw /\ InHands = <<>>
           /\ irq \in {"keep", "keepAdv"} =>
                 Waiting # <<>> /\ Waiting[1] = held /\ Tail(Waiting) = rxHw /\ held \in Nat
  <1>1. rx \in Ring(Nat) /\ rxHw \in Seq(Nat) /\ got \in Seq(Nat) /\ arrived \in Nat
    BY DEF RInv, IInv, TypeOK
  <1>2. Contents(rx) \in Seq(Nat) /\ Len(Contents(rx)) = Available(rx)
    BY <1>1, ContentsSeq
  <1>3. InMemory \in Seq(Nat)
    BY <1>1, <1>2 DEF InMemory
  <1>4. CASE irq \in {"keep", "keepAdv"}
    <2>1. held \in Nat /\ InHands = <<held>>
      BY <1>4 DEF RInv, IInv, HeldByte, InHands
    <2>2. Waiting = <<held>> \o rxHw
      BY <2>1 DEF Waiting
    <2>3. /\ Waiting \in Seq(Nat) /\ Waiting # <<>> /\ Waiting[1] = held
          /\ Tail(Waiting) = rxHw
      BY <1>1, <2>1, <2>2
    <2>4. QED
      BY <1>1, <1>2, <1>3, <1>4, <2>1, <2>3
  <1>5. CASE irq \notin {"keep", "keepAdv"}
    <2>1. InHands = <<>>
      BY <1>5 DEF InHands
    <2>2. Waiting = rxHw
      BY <1>1, <2>1 DEF Waiting
    <2>3. QED
      BY <1>1, <1>2, <1>3, <1>5, <2>1, <2>2
  <1>6. QED
    BY <1>4, <1>5

LEMMA AppendLast ==
    ASSUME NEW s \in Seq(Nat), NEW t \in Seq(Nat), NEW x \in Nat
    PROVE  s \o Append(t, x) = Append(s \o t, x)
  OBVIOUS

(* Every byte that waits has arrived.                                       *)
LEMMA ArrivedWaiting ==
    ASSUME RInv, NEW i \in 1 .. Len(Waiting)
    PROVE  Waiting[i] \in 1 .. arrived
  <1>1. Waiting \in Seq(Nat) /\ InMemory \in Seq(Nat)
    BY RTypes
  <1>2. /\ Len(InMemory) + i \in DOMAIN (InMemory \o Waiting)
        /\ (InMemory \o Waiting)[Len(InMemory) + i] = Waiting[i]
    BY <1>1
  <1>3. Waiting[i] \in Values(InMemory \o Waiting)
    BY <1>2, Zenon DEF Values
  <1>4. QED
    BY <1>3 DEF RInv, AllBut

LEMMA InitRInv == Init => RCase
  <1> SUFFICES ASSUME Init PROVE RInv
    BY InitIInv DEF RCase
  <1>1. IInv
    BY InitIInv
  <1>2. Contents(rx) = <<>>
    <2>1. Available(rx) = 0
      BY RingAssumption DEF Init, Available, EmptyRing
    <2>2. Contents(rx) \in Seq(Nat) /\ Len(Contents(rx)) = 0
      BY <1>1, <2>1, ContentsSeq DEF IInv, TypeOK
    <2>3. QED
      BY <2>2
  <1>3. InMemory \o Waiting = <<>>
    BY <1>2 DEF InMemory, Waiting, InHands, Init
  <1>4. AllBut(<<>>, {})
    <2>1. DOMAIN <<>> = {} /\ 1 .. arrived = {}
      BY DEF Init
    <2>2. QED
      BY <2>1 DEF AllBut, Rising, Values
  <1>5. StillFirst /\ Keeping /\ ~crossed
    BY DEF Init, StillFirst, Keeping, Ctx
  <1>6. lost = {} /\ lost \subseteq 1 .. arrived
    BY DEF Init
  <1>7. QED
    BY <1>1, <1>3, <1>4, <1>5, <1>6 DEF RInv

(* The first waiting byte is dropped, or stored: the two steps that matter. *)
LEMMA FirstDropped ==
    ASSUME RInv, Waiting # <<>>, Waiting' = Tail(Waiting), InMemory' = InMemory,
           lost' = lost \cup {Waiting[1]}, arrived' = arrived
    PROVE  /\ AllBut(InMemory \o Waiting, lost)'
           /\ lost' \subseteq 1 .. arrived'
  <1>1. AllBut(InMemory \o Tail(Waiting), lost \cup {Waiting[1]})
    BY RTypes, Discarded DEF RInv
  <1>2. AllBut(InMemory \o Waiting, lost)'
    BY <1>1 DEF AllBut, Rising, Values
  <1>3. Waiting[1] \in 1 .. arrived
    <2>1. 1 \in 1 .. Len(Waiting)
      BY RTypes
    <2>2. QED
      BY <2>1, ArrivedWaiting
  <1>4. lost' \subseteq 1 .. arrived'
    BY <1>3 DEF RInv
  <1>5. QED
    BY <1>2, <1>4

LEMMA FirstStored ==
    ASSUME RInv, Waiting # <<>>, Waiting' = Tail(Waiting), got' = got,
           Contents(rx') = Append(Contents(rx), Waiting[1]),
           lost' = lost, arrived' = arrived
    PROVE  /\ AllBut(InMemory \o Waiting, lost)'
           /\ lost' \subseteq 1 .. arrived'
  <1>1. Waiting[1] \in Nat
    BY RTypes
  <1>2. InMemory' = Append(InMemory, Waiting[1])
    <2>1. InMemory' = got' \o Contents(rx')
      BY DEF InMemory
    <2>2. got \o Append(Contents(rx), Waiting[1]) = Append(got \o Contents(rx), Waiting[1])
      BY <1>1, RTypes, AppendLast
    <2>3. QED
      BY <2>1, <2>2 DEF InMemory
  <1>3. InMemory' \o Waiting' = InMemory \o Waiting
    BY <1>2, RTypes, Passed
  <1>4. QED
    BY <1>3 DEF RInv, AllBut, Rising, Values

LEMMA NothingReceived ==
    ASSUME RInv, Waiting' = Waiting, InMemory' = InMemory, lost' = lost, arrived' = arrived
    PROVE  /\ AllBut(InMemory \o Waiting, lost)'
           /\ lost' \subseteq 1 .. arrived'
  BY DEF RInv, AllBut, Rising, Values

(* A nested handler that does not cross the interrupt: a byte discarded for *)
(* its framing error, and a byte stored or, in a full ring, dropped.        *)
LEMMA SpinServeRInv ==
    ASSUME RInv, SpinServe, ~crossed'
    PROVE  RInv'
  <1> DEFINE waiting == IF Ferr THEN Tail(rxHw) ELSE rxHw
             gone == lost \cup (IF Ferr THEN {rxHw[1]} ELSE {})
             drops == waiting # <<>> /\ IsFull(rx)
  <1>1. IInv'
    BY SpinServeIInv DEF RInv
  <1>2. /\ rxHw' = IF waiting # <<>> THEN Tail(waiting) ELSE waiting
        /\ rx' = IF waiting # <<>> THEN StoreChar(rx, waiting[1]) ELSE rx
        /\ lost' = gone \cup (IF drops THEN {waiting[1]} ELSE {})
        /\ UNCHANGED <<arrived, got, rdVal, pc, irq, held, newHead>>
        /\ pc["isr"] = "spin"
    BY DEF SpinServe, IrqHandler, rdVars, irqVars
  <1>3. CASE irq \in {"take", "keep", "keepAdv"}
    <2>1. rxHw = <<>>
      BY <1>3 DEF SpinServe
    <2>2. waiting = <<>> /\ gone = lost /\ ~drops
      BY <2>1 DEF Ferr
    <2>3. UNCHANGED <<rx, rxHw, lost>>
      BY <1>2, <2>1, <2>2
    <2>4. Waiting' = Waiting /\ InMemory' = InMemory
      BY <1>2, <2>3 DEF Waiting, InMemory, InHands
    <2>5. StillFirst' /\ Keeping'
      BY <1>2, <2>3 DEF RInv, StillFirst, Keeping
    <2>6. QED
      BY <1>1, <1>2, <2>3, <2>4, <2>5, NothingReceived DEF RInv
  <1>4. CASE irq \notin {"take", "keep", "keepAdv"}
    <2>1. Waiting = rxHw /\ Waiting' = rxHw' /\ InHands' = <<>> /\ Keeping'
      <3>1. InHands' = <<>> /\ Keeping'
        BY <1>2, <1>4 DEF InHands, Keeping
      <3>2. rxHw' \in Seq(Nat)
        BY <1>1 DEF IInv, TypeOK
      <3>3. Waiting' = rxHw'
        BY <3>1, <3>2 DEF Waiting
      <3>4. QED
        BY <1>4, <3>1, <3>3, RTypes
    <2>2. waiting \in Seq(Nat) /\ AllBut(InMemory \o waiting, gone) /\ gone \subseteq 1 .. arrived
          /\ \A i \in 1 .. Len(waiting) : waiting[i] \in 1 .. arrived
      <3>1. CASE Ferr
        <4>1. rxHw # <<>> /\ rxHw \in Seq(Nat)
          BY <3>1, RTypes DEF Ferr
        <4>2. AllBut(InMemory \o Tail(rxHw), lost \cup {rxHw[1]})
          BY <2>1, <4>1, RTypes, Discarded DEF RInv
        <4>3. /\ 1 \in 1 .. Len(rxHw)
              /\ \A i \in 1 .. Len(Tail(rxHw)) :
                    i + 1 \in 1 .. Len(rxHw) /\ Tail(rxHw)[i] = rxHw[i + 1]
          BY <4>1
        <4>4. \A i \in 1 .. Len(rxHw) : rxHw[i] \in 1 .. arrived
          BY <2>1, ArrivedWaiting
        <4>5. lost \cup {rxHw[1]} \subseteq 1 .. arrived
          BY <4>3, <4>4 DEF RInv
        <4>6. waiting = Tail(rxHw) /\ gone = lost \cup {rxHw[1]}
          BY <3>1
        <4> HIDE DEF waiting, gone
        <4>7. QED
          BY <4>1, <4>2, <4>3, <4>4, <4>5, <4>6
      <3>2. CASE ~Ferr
        BY <2>1, <3>2, RTypes, ArrivedWaiting DEF RInv
      <3>3. QED
        BY <3>1, <3>2
    <2> HIDE DEF waiting, gone
    <2>3. CASE waiting = <<>>
      <3>1. rxHw' = waiting /\ rx' = rx /\ lost' = gone /\ InMemory' = InMemory
        BY <1>2, <2>3 DEF InMemory
      <3>2. AllBut(InMemory \o Waiting, lost)'
        BY <1>2, <2>1, <2>2, <3>1 DEF AllBut, Rising, Values
      <3>3. StillFirst'
        BY <1>2, <3>1 DEF RInv, StillFirst
      <3>4. QED
        BY <1>1, <1>2, <2>1, <2>2, <3>1, <3>2, <3>3 DEF RInv
    <2>4. CASE waiting # <<>> /\ IsFull(rx)
      <3>1. /\ rxHw' = Tail(waiting) /\ rx' = rx /\ lost' = gone \cup {waiting[1]}
            /\ InMemory' = InMemory
        BY <1>2, <2>4 DEF InMemory, StoreChar
      <3>2. AllBut(InMemory \o Tail(waiting), gone \cup {waiting[1]})
        BY <2>2, <2>4, RTypes, Discarded
      <3>3. AllBut(InMemory \o Waiting, lost)'
        BY <1>2, <2>1, <3>1, <3>2 DEF AllBut, Rising, Values
      <3>4. StillFirst'
        BY <1>2, <3>1 DEF RInv, StillFirst
      <3>5. lost' \subseteq 1 .. arrived'
        <4>1. 1 \in 1 .. Len(waiting)
          BY <2>2, <2>4
        <4>2. QED
          BY <1>2, <2>2, <3>1, <4>1
      <3>6. QED
        BY <1>1, <2>1, <3>3, <3>4, <3>5 DEF RInv
    <2>5. CASE waiting # <<>> /\ ~IsFull(rx)
      <3>1. rxHw' = Tail(waiting) /\ rx' = StoreChar(rx, waiting[1]) /\ lost' = gone
        BY <1>2, <2>5
      <3>2. waiting[1] \in Nat
        BY <2>2, <2>5
      <3>3. Contents(rx') = Append(Contents(rx), waiting[1])
        BY <2>5, <3>1, <3>2, RTypes, StoreAppends
      <3>4. InMemory' = Append(InMemory, waiting[1])
        <4>1. InMemory' = got' \o Contents(rx')
          BY DEF InMemory
        <4>2. got \o Append(Contents(rx), waiting[1]) = Append(got \o Contents(rx), waiting[1])
          BY <3>2, RTypes, AppendLast
        <4>3. QED
          BY <1>2, <3>3, <4>1, <4>2 DEF InMemory
      <3>5. InMemory' \o rxHw' = InMemory \o waiting
        BY <2>2, <2>5, <3>1, <3>4, RTypes, Passed
      <3>6. AllBut(InMemory \o Waiting, lost)'
        BY <1>2, <2>1, <2>2, <3>1, <3>5 DEF AllBut, Rising, Values
      <3>7. StillFirst'
        <4>1. ASSUME rx.head # rx.tail PROVE rx'.head # rx'.tail /\ Peek(rx') = Peek(rx)
          <5>1. rx \in Ring(Nat) /\ ~IsFull(rx)
            BY <2>5, RTypes
          <5>2. /\ rx'.head = NextIndex(rx.head) /\ rx'.tail = rx.tail
                /\ \A i \in 0 .. N-1 : i # rx.head => rx'.buf[i] = rx.buf[i]
            BY <3>1, <5>1 DEF StoreChar, Ring
          <5>3. QED
            BY <4>1, <5>1, <5>2 DEF IsFull, Peek, Ring
        <4>2. QED
          BY <1>2, <4>1 DEF RInv, StillFirst
      <3>8. QED
        BY <1>1, <1>2, <2>1, <2>2, <3>1, <3>6, <3>7 DEF RInv
    <2>6. QED
      BY <2>3, <2>4, <2>5
  <1>5. QED
    BY <1>3, <1>4

(* The interrupt takes a byte out of the USART and stores or drops it.      *)
LEMMA IrqRInv ==
    ASSUME RInv, UartIrq \/ IrqStep
    PROVE  RInv'
  <1> USE DEF IrqGoes, IrqOnly, NoSend, NoReceive, rdVars
  <1>0. IInv'
    BY IrqIInv DEF RInv
  <1>1. IInv' /\ ~crossed'
    BY <1>0 DEF RInv, UartIrq, IrqStep, FrameErrorTest, Discard, RxcTest, TakeByte,
           KeepByte, KeepAdvance, RtsWithdraw, DreTest, AvailTest, FetchByte,
           AdvanceTail, SendByte, DisableDreIrq, ClearErrors
  <1>2. UNCHANGED <<arrived, got, rdVal, pc>>
    BY DEF UartIrq, IrqStep, FrameErrorTest, Discard, RxcTest, TakeByte,
           KeepByte, KeepAdvance, RtsWithdraw, DreTest, AvailTest, FetchByte,
           AdvanceTail, SendByte, DisableDreIrq, ClearErrors
  <1>3. /\ StillFirst /\ Keeping /\ rx \in Ring(Nat) /\ rxHw \in Seq(Nat)
        /\ irq \in IrqSteps /\ rxHw' \in Seq(Nat)
    BY <1>1 DEF RInv, IInv, TypeOK
  <1>4. CASE Discard
    <2>1. irq = "discard" /\ irq' = "rxc" /\ rx' = rx
      BY <1>4 DEF Discard
    <2>2. Waiting = rxHw /\ Waiting' = rxHw' /\ InMemory' = InMemory
      BY <1>2, <1>3, <2>1, RTypes DEF Waiting, InHands, InMemory
    <2>3. StillFirst' /\ Keeping'
      BY <1>2, <1>3, <2>1 DEF StillFirst, Keeping
    <2>4. CASE rxHw = <<>>
      <3>1. rxHw' = rxHw /\ lost' = lost
        BY <1>4, <2>4 DEF Discard
      <3>2. QED
        BY <1>1, <1>2, <2>2, <2>3, <3>1, NothingReceived DEF RInv
    <2>5. CASE rxHw # <<>>
      <3>1. rxHw' = Tail(rxHw) /\ lost' = lost \cup {rxHw[1]}
        BY <1>4, <2>5 DEF Discard
      <3>2. QED
        BY <1>1, <1>2, <2>2, <2>3, <2>5, <3>1, FirstDropped DEF RInv
    <2>6. QED
      BY <2>4, <2>5
  <1>5. CASE TakeByte
    <2>1. /\ irq = "take" /\ irq' = "keep" /\ rx' = rx /\ lost' = lost
          /\ rxHw # <<>> /\ held' = rxHw[1] /\ rxHw' = Tail(rxHw)
      BY <1>3, <1>5 DEF TakeByte, Keeping
    <2>2. Waiting' = Waiting
      <3>1. Waiting = rxHw /\ Waiting' = <<rxHw[1]>> \o Tail(rxHw)
        BY <2>1, RTypes DEF Waiting, InHands
      <3>2. <<rxHw[1]>> \o Tail(rxHw) = rxHw
        BY <1>3, <2>1
      <3>3. QED
        BY <3>1, <3>2
    <2>3. InMemory' = InMemory /\ StillFirst' /\ Keeping'
      BY <1>2, <1>3, <2>1 DEF StillFirst, Keeping, InMemory
    <2>4. QED
      BY <1>1, <1>2, <2>1, <2>2, <2>3, NothingReceived DEF RInv
  <1>6. CASE KeepByte
    <2>1. /\ irq = "keep" /\ UNCHANGED <<held, rxHw>>
          /\ Waiting # <<>> /\ Waiting[1] = held /\ Tail(Waiting) = rxHw
      BY <1>6, RTypes DEF KeepByte
    <2>2. CASE IsFull(rx)
      <3>1. irq' = "rts" /\ rx' = rx /\ lost' = lost \cup {held}
        BY <1>6, <2>2 DEF KeepByte
      <3>2. Waiting' = Tail(Waiting) /\ InMemory' = InMemory
        BY <1>2, <1>3, <2>1, <3>1 DEF Waiting, InHands, InMemory
      <3>3. StillFirst' /\ Keeping'
        BY <1>2, <1>3, <3>1 DEF StillFirst, Keeping
      <3>4. QED
        BY <1>1, <1>2, <2>1, <3>1, <3>2, <3>3, FirstDropped DEF RInv
    <2>3. CASE ~IsFull(rx)
      <3>1. /\ irq' = "keepAdv" /\ lost' = lost /\ newHead' = NextIndex(rx.head)
            /\ rx' = [rx EXCEPT !.buf[rx.head] = held]
        BY <1>6, <2>3 DEF KeepByte
      <3>2. rx' \in Ring(Nat)
        BY <1>1 DEF IInv, TypeOK
      <3>3. /\ rx'.head = rx.head /\ rx'.tail = rx.tail /\ rx'.buf[rx.head] = held
            /\ \A i \in 0 .. N-1 : i # rx.head => rx'.buf[i] = rx.buf[i]
        BY <1>3, <3>1 DEF Ring
      <3>4. Contents(rx') = Contents(rx)
        BY <1>3, <3>2, <3>3, HeadSlot
      <3>5. Waiting' = Waiting /\ InMemory' = InMemory
        BY <1>2, <2>1, <3>1, <3>4 DEF Waiting, InHands, InMemory
      <3>6. StillFirst'
        BY <1>2, <1>3, <3>3 DEF StillFirst, Peek, Ring
      <3>7. Keeping'
        BY <2>1, <2>3, <3>1, <3>3 DEF Keeping, IsFull
      <3>8. QED
        BY <1>1, <1>2, <3>1, <3>5, <3>6, <3>7, NothingReceived DEF RInv
    <2>4. QED
      BY <2>2, <2>3
  <1>7. CASE KeepAdvance
    <2>1. /\ irq = "keepAdv" /\ irq' = "rts" /\ UNCHANGED <<held, rxHw, lost>>
          /\ rx' = [rx EXCEPT !.head = newHead]
          /\ Waiting # <<>> /\ Waiting[1] = held /\ Tail(Waiting) = rxHw /\ held \in Nat
      BY <1>7, RTypes DEF KeepAdvance
    <2>2. ~IsFull(rx) /\ newHead = NextIndex(rx.head) /\ rx.buf[rx.head] = held
      BY <1>3, <2>1 DEF Keeping
    <2>3. rx' = StoreChar(rx, held)
      <3>1. [rx.buf EXCEPT ![rx.head] = held] = rx.buf
        BY <1>3, <2>2 DEF Ring
      <3>2. StoreChar(rx, held) = [rx EXCEPT !.buf = [rx.buf EXCEPT ![rx.head] = held],
                                             !.head = NextIndex(rx.head)]
        BY <2>2 DEF StoreChar
      <3>3. QED
        BY <1>3, <2>1, <2>2, <3>1, <3>2 DEF Ring
    <2>4. Contents(rx') = Append(Contents(rx), held)
      BY <1>3, <2>1, <2>2, <2>3, StoreAppends
    <2>5. Waiting' = Tail(Waiting)
      BY <1>3, <2>1 DEF Waiting, InHands
    <2>6. StillFirst' /\ Keeping'
      <3>1. rx'.head = NextIndex(rx.head) /\ rx'.tail = rx.tail /\ rx'.buf = rx.buf
        BY <1>3, <2>1, <2>2 DEF Ring
      <3>2. QED
        BY <1>2, <1>3, <2>1, <2>2, <3>1 DEF StillFirst, Keeping, Peek, IsFull
    <2>7. QED
      BY <1>1, <1>2, <2>1, <2>4, <2>5, <2>6, FirstStored DEF RInv
  <1>8. CASE ~Discard /\ ~TakeByte /\ ~KeepByte /\ ~KeepAdvance
    <2>1. /\ UNCHANGED <<rx, rxHw, lost>> /\ irq \notin {"keep", "keepAdv"}
          /\ irq' \notin {"keep", "keepAdv"} /\ (irq' = "take" => rxHw # <<>>)
      BY <1>8 DEF UartIrq, IrqStep, FrameErrorTest, RxcTest, RtsWithdraw, DreTest,
           AvailTest, FetchByte, AdvanceTail, SendByte, DisableDreIrq, ClearErrors
    <2>2. Waiting' = Waiting /\ InMemory' = InMemory
      BY <1>2, <2>1 DEF Waiting, InHands, InMemory
    <2>3. StillFirst' /\ Keeping'
      BY <1>2, <1>3, <2>1 DEF StillFirst, Keeping
    <2>4. QED
      BY <1>1, <1>2, <2>1, <2>2, <2>3, NothingReceived DEF RInv
  <1>9. QED
    BY <1>4, <1>5, <1>6, <1>7, <1>8

(* read() moves the first byte of the ring to the caller.                   *)
LEMMA ReadRInv ==
    ASSUME RInv, ReadCall \/ ReadStep
    PROVE  RInv'
  <1>1. IInv' /\ pc \in [Ctx -> ThreadSteps] /\ "thread" \in Ctx
    BY ReadIInv DEF RInv, IInv, TypeOK, Ctx
  <1>2. UNCHANGED <<rxHw, arrived, lost, crossed, irq, held, newHead>>
    BY DEF ReadCall, ReadStep, ReadByte, ReadAdvance, RtsTest, RtsSpace, RtsAssert, rxVars,
       NoWrite, irqVars
  <1>6. Waiting' = Waiting /\ ~crossed' /\ Keeping'
    <2>1. irq = "idle"
      BY DEF ReadCall, ReadStep, ReadByte, ReadAdvance, RtsTest, RtsSpace, RtsAssert, Step, Runs
    <2>2. QED
      BY <1>2, <2>1 DEF Waiting, InHands, RInv, Keeping
  <1>3. CASE ReadAdvance
    <2>1. /\ pc["thread"] = "readAdv" /\ pc'["thread"] # "readAdv"
          /\ rx' = DropFirst(rx) /\ got' = Append(got, rdVal)
      BY <1>1, <1>3 DEF ReadAdvance, Step, AfterRead
    <2>2. rx \in Ring(Nat) /\ rx.head # rx.tail /\ rdVal = Peek(rx)
      BY <2>1, RTypes DEF RInv, StillFirst
    <2>3. /\ Contents(rx) # <<>> /\ rdVal = Contents(rx)[1]
          /\ Contents(rx') = Tail(Contents(rx))
      BY <2>1, <2>2, DropTails
    <2>4. Append(got, Contents(rx)[1]) \o Tail(Contents(rx)) = got \o Contents(rx)
      BY <2>3, RTypes, Passed
    <2>5. InMemory' = InMemory
      <3>1. InMemory' = got' \o Contents(rx')
        BY DEF InMemory
      <3>2. QED
        BY <2>1, <2>3, <2>4, <3>1 DEF InMemory
    <2>6. AllBut(InMemory \o Waiting, lost)'
      BY <1>2, <1>6, <2>5 DEF RInv, AllBut, Rising, Values
    <2>7. StillFirst'
      BY <2>1 DEF StillFirst
    <2>8. QED
      BY <1>1, <1>2, <1>6, <2>6, <2>7 DEF RInv
  <1>4. CASE ~ReadAdvance
    <2>1. UNCHANGED <<rx, got>>
      BY <1>4 DEF ReadCall, ReadStep, ReadByte, RtsTest, RtsSpace, RtsAssert, rxVars, rdVars
    <2>2. InMemory' = InMemory
      BY <2>1 DEF InMemory
    <2>3. AllBut(InMemory \o Waiting, lost)'
      BY <1>2, <1>6, <2>2 DEF RInv, AllBut, Rising, Values
    <2>4. StillFirst'
      BY <1>1, <1>4, <2>1 DEF ReadCall, ReadStep, ReadByte, RtsTest, RtsSpace, RtsAssert, Step,
         AfterRead, StillFirst
    <2>5. QED
      BY <1>1, <1>2, <1>6, <2>3, <2>4 DEF RInv
  <1>5. QED
    BY <1>3, <1>4

LEMMA ReceiveRInv ==
    ASSUME RInv, HwReceive
    PROVE  RInv'
  <1>1. IInv'
    BY HardwareIInv DEF RInv
  <1>2. arrived' = arrived + 1 /\ UNCHANGED <<rx, got, rdVal, pc, crossed, irq, held, newHead>>
    BY DEF HwReceive, rdVars, NoWrite, irqVars
  <1>3. InMemory' = InMemory /\ StillFirst' /\ InHands' = InHands /\ ~crossed'
    BY <1>2 DEF InMemory, InHands, RInv, StillFirst
  <1>4. arrived \in Nat /\ lost \subseteq 1 .. arrived /\ AllBut(InMemory \o Waiting, lost)
    BY RTypes DEF RInv
  <1>5. CASE rxHw' = Append(rxHw, arrived + 1) /\ lost' = lost
    <2>5. Waiting' = Append(Waiting, arrived + 1) /\ Keeping'
      <3>1. Waiting' = InHands \o Append(rxHw, arrived + 1) /\ Keeping'
        BY <1>2, <1>3, <1>5, RTypes DEF Waiting, RInv, Keeping
      <3>2. InHands \o Append(rxHw, arrived + 1) = Append(InHands \o rxHw, arrived + 1)
        <4>1. arrived + 1 \in Nat /\ InHands \in Seq(Nat) /\ rxHw \in Seq(Nat)
          BY <1>4, RTypes
        <4>2. QED
          BY <4>1, AppendLast
      <3>3. QED
        BY <3>1, <3>2 DEF Waiting
    <2>1. /\ Rising(InMemory \o Waiting')
          /\ Values(InMemory \o Waiting') = (1 .. arrived + 1) \ lost
      BY <1>4, <2>5, RTypes, Arriving
    <2>2. AllBut(InMemory \o Waiting, lost)'
      BY <1>2, <1>3, <1>5, <2>1 DEF AllBut, Rising, Values
    <2>3. lost' \subseteq 1 .. arrived'
      BY <1>2, <1>4, <1>5
    <2>4. QED
      BY <1>1, <1>3, <2>2, <2>3, <2>5 DEF RInv
  <1>6. CASE rxHw' = rxHw /\ lost' = lost \cup {arrived + 1}
    <2>5. Waiting' = Waiting /\ Keeping'
      BY <1>2, <1>3, <1>6 DEF Waiting, RInv, Keeping
    <2>1. (1 .. arrived + 1) \ (lost \cup {arrived + 1}) = (1 .. arrived) \ lost
      BY <1>4
    <2>2. AllBut(InMemory \o Waiting, lost)'
      <3>1. Rising(InMemory \o Waiting) /\ Values(InMemory \o Waiting) = (1 .. arrived') \ lost'
        BY <1>2, <1>4, <1>6, <2>1 DEF AllBut
      <3>2. QED
        BY <1>3, <2>5, <3>1 DEF AllBut, Rising, Values
    <2>3. lost' \subseteq 1 .. arrived'
      BY <1>2, <1>4, <1>6
    <2>4. QED
      BY <1>1, <1>3, <2>2, <2>3, <2>5 DEF RInv
  <1>7. QED
    BY <1>5, <1>6 DEF HwReceive

(* Writing, flushing and sending leave the received bytes alone.            *)
LEMMA OtherRInv ==
    ASSUME RInv, IInv', UNCHANGED <<rxVars, rdVars, irqVars>>,
           pc'["thread"] = "readAdv" => pc["thread"] = "readAdv"
    PROVE  RInv'
  <1>1. UNCHANGED <<rx, rxHw, lost, arrived, got, rdVal, crossed, irq, held, newHead>>
    BY DEF rxVars, rdVars, irqVars
  <1>2. InMemory' = InMemory /\ Waiting' = Waiting /\ Keeping'
    BY <1>1 DEF InMemory, Waiting, InHands, RInv, Keeping
  <1>3. AllBut(InMemory \o Waiting, lost)'
    BY <1>1, <1>2 DEF RInv, AllBut, Rising, Values
  <1>4. QED
    BY <1>1, <1>2, <1>3 DEF RInv, StillFirst

LEMMA CrossedStays == [Next]_vars /\ ~crossed' => ~crossed
  BY DEF Next, UartIrq, IrqStep, FrameErrorTest, Discard, RxcTest, TakeByte, KeepByte,
     KeepAdvance, RtsWithdraw, DreTest, AvailTest, FetchByte, AdvanceTail, SendByte,
     DisableDreIrq, ClearErrors, IrqOnly, WriteCall, WriteStep, TestDre, TestEmpty,
     WriteDirect, SpinDone, SpinServe, StoreByte, AdvanceHead, EnableDreIrq, FlushCall,
     FlushStep, FlushEmpty, FlushDre, FlushTxc, ReadCall, ReadStep, ReadByte,
     ReadAdvance, RtsTest, RtsSpace, RtsAssert, HwLoad, HwSent, HwReceive, Quiet,
     rxVars, vars

LEMMA NextRInv == RCase /\ [Next]_vars => RCase'
  <1>0. RCase /\ [Next]_vars => IInv'
    BY NextIInv DEF RCase
  <1> SUFFICES ASSUME RCase, [Next]_vars, ~crossed' PROVE RInv'
    BY <1>0 DEF RCase
  <1>11. ~crossed
    BY CrossedStays
  <1>12. RInv
    BY <1>11 DEF RCase
  <1>1. IInv' /\ pc \in [Ctx -> ThreadSteps]
    BY <1>12, NextIInv DEF RInv, IInv, TypeOK
  <1>2. CASE UartIrq \/ IrqStep
    BY <1>2, <1>12, IrqRInv
  <1>3. CASE SpinServe
    BY <1>3, <1>12, SpinServeRInv
  <1>4. ASSUME NEW c \in Ctx, WriteCall(c) \/ WriteStep(c), ~SpinServe PROVE RInv'
    BY <1>12, <1>1, <1>4, OtherRInv DEF WriteCall, WriteStep, TestDre, TestEmpty, WriteDirect, SpinDone,
       StoreByte, AdvanceHead, EnableDreIrq, Step, Quiet, Ctx
  <1>5. CASE FlushCall \/ FlushStep
    BY <1>12, <1>1, <1>5, OtherRInv DEF FlushCall, FlushStep, FlushEmpty, FlushDre, FlushTxc, Step, Quiet,
       Ctx
  <1>6. CASE ReadCall \/ ReadStep
    BY <1>6, <1>12, ReadRInv
  <1>7. CASE HwLoad \/ HwSent
    BY <1>12, <1>1, <1>7, OtherRInv DEF HwLoad, HwSent, Quiet
  <1>8. CASE HwReceive
    BY <1>8, <1>12, ReceiveRInv
  <1>9. CASE UNCHANGED vars
    BY <1>12, <1>1, <1>9, OtherRInv DEF vars
  <1>10. QED
    BY <1>2, <1>3, <1>4, <1>5, <1>6, <1>7, <1>8, <1>9 DEF Next

LEMMA AllButInOrder == RCase => RxOrder
  <1> SUFFICES ASSUME RInv PROVE RxOrder
    BY DEF RCase, RxOrder
  <1>1. RxStream = InMemory \o Waiting
    <2>1. RxStream = (InMemory \o InHands) \o rxHw
      BY DEF RxStream, InMemory
    <2>2. (InMemory \o InHands) \o rxHw = InMemory \o (InHands \o rxHw)
      BY RTypes
    <2>3. QED
      BY <2>1, <2>2 DEF Waiting
  <1>2. Rising(RxStream) /\ Values(RxStream) = (1 .. arrived) \ lost
    BY <1>1 DEF RInv, AllBut
  <1>3. QED
    BY <1>2 DEF RxOrder, Rising, Values

(* read returns what arrived, in order and once each, but for the bytes the *)
(* USART or a full ring dropped and those with a framing error, wherever    *)
(* the interrupt falls in it (Uart.cpp 91-104, 144-156) and wherever        *)
(* handlers that write fall in the interrupt, until one of them serves the  *)
(* full ring and takes a byte while the interrupt is storing the one before.*)
THEOREM ReceivedInOrder == Spec => []RxOrder
  BY InitRInv, NextRInv, AllButInOrder, PTL DEF Spec

-----------------------------------------------------------------------------
(* Flow control.  Margin is what the board has to provide: RTS is wired and *)
(* the threshold covers the bytes still to come three times over: those in  *)
(* the USART, the one the interrupt stores before it withdraws RTS, those   *)
(* the peer sends until it sees that.  (With RTS_RX_THRESHOLD = 10 the peer *)
(* may not send any.)                                                       *)
Overshoot == HwFifo + 1 + Slack
Margin == HasRts /\ RtsThreshold > 3 * Overshoot - 2 /\ RtsThreshold < N

(* The room in the ring, the bytes that may come before RTS has an effect,  *)
(* and the room that is left after them.                                    *)
Space == AvailableForStore(rx)
Queued == Len(rxHw)
Hand == IF irq \in {"keep", "keepAdv"} THEN 1 ELSE 0
Coming == IF rts THEN IF irq = "rts" THEN Overshoot - 1 ELSE Overshoot
          ELSE Queued + Hand + peer
Spare == Space - Coming

(* What is spare after RTS was withdrawn in time, after it was asserted     *)
(* once from a count that was stale, and after the second time.             *)
InTime == RtsThreshold - Overshoot
Once == InTime - Overshoot
Twice == Once - Overshoot + 1

(* read takes a full ring for an empty one only when head wraps under it.   *)
(* Such a read is the second in a row only just behind the wrap, and before *)
(* tail wraps too the ring has recovered.                                   *)
Recovers ==
    /\ rx.head >= rx.tail => Spare >= Once
    /\ rx.head < rx.tail => Spare >= Twice
    /\ (rx.head < rx.tail /\ Spare < Once) => rx.tail <= Spare + 2 * Overshoot

WrappedUnder ==
    rx.head < rx.tail =>
        Spare >= InTime \/ rx.head + Coming < Overshoot

Decides ==
    /\ pc["thread"] = "rtsTest" => (rx.head >= rx.tail => Spare > Once)
    /\ pc["thread"] \in {"rtsSpace", "rtsAssert"} /\ rdWrap => Spare > Once /\ WrappedUnder
    /\ pc["thread"] = "rtsSpace" /\ ~rdWrap => rx.head < rx.tail
    /\ pc["thread"] = "rtsAssert" /\ (rx.head >= rx.tail \/ ~rdWrap) => Spare >= InTime

FInv ==
    /\ Margin /\ RInv
    /\ Queued <= HwFifo /\ peer <= Slack
    /\ Recovers /\ Decides

FCase == Margin /\ RCase /\ (~crossed => FInv)

LEMMA FTypes ==
    ASSUME FInv
    PROVE  /\ rx \in Ring(Nat) /\ rxHw \in Seq(Nat) /\ Queued \in Nat
           /\ pc \in [Ctx -> ThreadSteps] /\ "thread" \in Ctx /\ "isr" \in Ctx
           /\ rts \in BOOLEAN /\ rdWrap \in BOOLEAN /\ HasRts
           /\ irq \in IrqSteps /\ peer \in Nat
           /\ IsFull(rx) <=> Space = 0
  <1>1. /\ rx \in Ring(Nat) /\ rxHw \in Seq(Nat) /\ rts \in BOOLEAN
        /\ rdWrap \in BOOLEAN /\ pc \in [Ctx -> ThreadSteps] /\ "thread" \in Ctx /\ "isr" \in Ctx
        /\ irq \in IrqSteps /\ peer \in Nat
    BY DEF FInv, RInv, IInv, TypeOK, Ctx
  <1>2. Queued \in Nat
    BY <1>1 DEF Queued
  <1>3. IsFull(rx) <=> Space = 0
    BY <1>1, RingAccount DEF Space
  <1> QED
    BY <1>1, <1>2, <1>3 DEF FInv, Margin

(* What arithmetic needs to know.                                           *)
Levels ==
    /\ Slack \in Nat /\ RtsThreshold \in Nat /\ HwFifo = 2 /\ Overshoot = Slack + 3
    /\ RtsThreshold > 3 * Slack + 7
    /\ InTime = RtsThreshold - Slack - 3 /\ Once = RtsThreshold - 2 * Slack - 6
    /\ Twice = RtsThreshold - 3 * Slack - 8

Indices ==
    /\ N \in Nat /\ RtsThreshold < N
    /\ rx.head \in Nat /\ rx.head < N /\ rx.tail \in Nat /\ rx.tail < N

Gap ==
    /\ rx.head >= rx.tail => Space = N - 1 - rx.head + rx.tail
    /\ rx.head < rx.tail => Space = rx.tail - rx.head - 1

Rooms == Space \in Nat /\ Coming \in Nat /\ Spare = Space - Coming /\ Spare \in Int

OnTheWay == /\ Queued \in Nat /\ Queued <= 2 /\ peer \in Nat /\ peer <= Slack
            /\ Hand \in Nat /\ Hand <= 1

Numbers == Levels /\ Indices /\ Gap /\ Rooms /\ OnTheWay

LEMMA FNumbers ==
    ASSUME FInv
    PROVE  /\ Numbers
           /\ rts /\ irq # "rts" => Coming = Slack + 3
           /\ rts /\ irq = "rts" => Coming = Slack + 2
           /\ ~rts => Coming = Queued + Hand + peer
           /\ Coming <= Slack + 3
  <1>1. N \in Nat /\ N > 1 /\ Slack \in Nat /\ RtsThreshold \in Nat /\ HwFifo = 2
    BY RingAssumption, UartAssumption DEF HwFifo
  <1>2. Overshoot = Slack + 3
    BY <1>1 DEF Overshoot
  <1>3. RtsThreshold > 3 * Slack + 7 /\ RtsThreshold < N
    BY <1>1, <1>2 DEF FInv, Margin
  <1>4. /\ InTime = RtsThreshold - Slack - 3 /\ Once = RtsThreshold - 2 * Slack - 6
        /\ Twice = RtsThreshold - 3 * Slack - 8
    BY <1>1, <1>2 DEF InTime, Once, Twice
  <1>5. rx.head \in 0 .. N-1 /\ rx.tail \in 0 .. N-1
    BY FTypes DEF Ring
  <1>6. Space = IF rx.head >= rx.tail THEN N - 1 - rx.head + rx.tail
                ELSE rx.tail - rx.head - 1
    BY DEF Space, AvailableForStore, SpaceFrom
  <1>7. Space \in Nat
    BY <1>1, <1>5, <1>6
  <1>8. OnTheWay
    <2>1. Queued \in Nat /\ Queued <= 2 /\ peer <= Slack /\ peer \in Nat
      BY <1>1, FTypes DEF FInv
    <2>2. Hand \in Nat /\ Hand <= 1
      BY DEF Hand
    <2> QED
      BY <2>1, <2>2 DEF OnTheWay
  <1>9. /\ rts /\ irq # "rts" => Coming = Slack + 3
        /\ rts /\ irq = "rts" => Coming = Slack + 2
        /\ ~rts => Coming = Queued + Hand + peer
    BY <1>1, <1>2 DEF Coming
  <1>10. Coming \in Nat /\ Coming <= Slack + 3
    <2>1. CASE rts
      BY <1>1, <1>9, <2>1
    <2>2. CASE ~rts
      BY <1>1, <1>8, <1>9, <2>2 DEF OnTheWay
    <2> QED
      BY <2>1, <2>2
  <1>11. Spare = Space - Coming /\ Spare \in Int
    BY <1>7, <1>10 DEF Spare
  <1> QED
    BY <1>1, <1>2, <1>3, <1>4, <1>5, <1>6, <1>7, <1>8, <1>9, <1>10, <1>11 DEF Numbers, Levels, Indices, Gap, Rooms

(* A byte that waits in the USART or is about to be stored has a place in   *)
(* the ring.                                                                *)
LEMMA RoomForComing ==
    ASSUME FInv
    PROVE  rxHw # <<>> \/ Hand = 1 => ~IsFull(rx)
  <1> SUFFICES ASSUME rxHw # <<>> \/ Hand = 1 PROVE ~IsFull(rx)
    OBVIOUS
  <1>0. Levels /\ Indices /\ Gap /\ Rooms /\ OnTheWay
    BY FNumbers DEF Numbers
  <1>1. Queued >= 1 \/ Hand = 1
    BY FTypes DEF Queued
  <1>2. Recovers
    BY DEF FInv
  <1>3. Spare >= 0
    BY <1>2, <1>0 DEF Recovers, Levels, Indices, Rooms
  <1>4. Coming >= 1
    <2>1. CASE rts
      BY <2>1, <1>0, FNumbers DEF Levels
    <2>2. CASE ~rts
      BY <1>1, <2>2, <1>0, FNumbers DEF OnTheWay
    <2> QED
      BY <2>1, <2>2
  <1>5. Space # 0
    BY <1>3, <1>4, <1>0 DEF Rooms
  <1> QED
    BY <1>5, FTypes

(* A byte stored in a ring that is not full.                                *)
LEMMA StoreMoves ==
    ASSUME NEW r \in Ring(Nat), ~IsFull(r), NEW q,
           q.head = NextIndex(r.head), q.tail = r.tail
    PROVE  /\ AvailableForStore(q) = AvailableForStore(r) - 1
           /\ q.head \in Int
           /\ r.head < r.tail => q.head = r.head + 1 /\ q.head < q.tail
           /\ r.head >= r.tail => \/ q.head = r.head + 1 /\ q.head >= q.tail
                                  \/ q.head = 0 /\ q.head < q.tail
  <1>1. r.head \in 0 .. N-1 /\ r.tail \in 0 .. N-1 /\ N \in Nat /\ N > 1
    BY RingAssumption DEF Ring
  <1>2. NextIndex(r.head) # r.tail
    BY DEF IsFull
  <1>3. NextIndex(r.head) = IF r.head = N - 1 THEN 0 ELSE r.head + 1
    <2>1. CASE r.head = N - 1
      BY <1>1, <2>1 DEF NextIndex
    <2>2. CASE r.head # N - 1
      BY <1>1, <2>2, NextIndexInside
    <2> QED
      BY <2>1, <2>2
  <1> QED
    BY <1>1, <1>2, <1>3 DEF AvailableForStore, SpaceFrom

(* The ring stands, and less comes, or RTS is asserted in time.             *)
LEMMA LessComes ==
    ASSUME FInv, RInv', UNCHANGED <<pc, rdWrap>>, rx'.head = rx.head, rx'.tail = rx.tail,
           Queued' <= 2, peer' <= Slack, Coming' \in Int,
           Coming' <= Coming \/ Space - Coming' >= InTime
    PROVE  FInv'
  <1>0. Levels /\ Indices /\ Gap /\ Rooms /\ OnTheWay
    BY FNumbers DEF Numbers
  <1>1. PICK c, f : c = Coming' /\ f = Spare'
    OBVIOUS
  <1>2. c \in Int /\ f = Space - c
    BY <1>1 DEF Spare, Space, AvailableForStore
  <1>3. f \in Int /\ ((c <= Coming /\ f >= Spare) \/ f >= InTime)
    <2>1. c <= Coming \/ Space - c >= InTime
      BY <1>1
    <2> QED
      BY <1>2, <2>1, <1>0 DEF Rooms, Levels
  <1>4. Recovers'
    <2>1. Recovers
      BY DEF FInv
    <2>2. /\ rx.head >= rx.tail => f >= Once
          /\ rx.head < rx.tail => f >= Twice
          /\ (rx.head < rx.tail /\ f < Once) => rx.tail <= f + 2 * Overshoot
      BY <1>3, <2>1, <1>0 DEF Recovers, Levels, Rooms, Indices
    <2> QED
      BY <1>1, <2>2 DEF Recovers, InTime, Once, Twice, Overshoot
  <1>5. ASSUME WrappedUnder PROVE WrappedUnder'
    <2>1. rx.head < rx.tail => f >= InTime \/ rx.head + c < Overshoot
      BY <1>2, <1>3, <1>5, <1>0 DEF WrappedUnder, Levels, Rooms, Indices
    <2> QED
      BY <1>1, <2>1 DEF WrappedUnder, InTime, Overshoot
  <1>6. Decides'
    <2>1. Decides
      BY DEF FInv
    <2>2. /\ Spare > Once => f > Once
          /\ Spare >= InTime => f >= InTime
      BY <1>3, <1>0 DEF Levels, Rooms
    <2> QED
      BY <1>1, <1>5, <2>1, <2>2 DEF Decides, InTime, Once, Overshoot
  <1>7. Queued' <= HwFifo
    BY <1>0 DEF Levels
  <1> QED
    BY <1>4, <1>6, <1>7 DEF FInv, Margin

(* A byte is stored, and one less comes, or RTS was withdrawn in time.      *)
LEMMA Stored ==
    ASSUME FInv, RInv', UNCHANGED <<pc, rdWrap>>, ~IsFull(rx),
           rx'.head = NextIndex(rx.head), rx'.tail = rx.tail,
           Queued' <= 2, peer' <= Slack, Coming' \in Int,
           Coming' < Coming \/ Space - 1 - Coming' >= InTime,
           Coming' < Overshoot \/ Space - 1 - Coming' >= InTime
    PROVE  FInv'
  <1>0. Levels /\ Indices /\ Gap /\ Rooms /\ OnTheWay
    BY FNumbers DEF Numbers
  <1>1. PICK h, t, g, c, f : /\ h = rx'.head /\ t = rx'.tail /\ g = Space'
                             /\ c = Coming' /\ f = Spare'
    OBVIOUS
  <1>2. /\ t = rx.tail /\ g = Space - 1 /\ h \in Int
        /\ rx.head < rx.tail => h = rx.head + 1 /\ h < t
        /\ rx.head >= rx.tail => (h = rx.head + 1 /\ h >= t) \/ (h = 0 /\ h < t)
    BY <1>1, FTypes, StoreMoves DEF Space
  <1>3. c \in Int /\ f = Space - 1 - c /\ f \in Int
    <2>1. f = g - c
      BY <1>1 DEF Spare
    <2> QED
      BY <1>1, <1>2, <2>1, <1>0 DEF Rooms
  <1>4. (c < Coming /\ f >= Spare) \/ f >= InTime
    <2>1. c < Coming \/ Space - 1 - c >= InTime
      BY <1>1
    <2> QED
      BY <1>3, <2>1, <1>0 DEF Rooms, Levels
  <1>5. c < Overshoot \/ f >= InTime
    BY <1>1, <1>3
  <1>6. Recovers'
    <2>1. Recovers
      BY DEF FInv
    <2>2. h >= t => f >= Once
      BY <1>2, <1>3, <1>4, <2>1, <1>0 DEF Recovers, Levels, Indices, Rooms
    <2>3. h < t => f >= Twice
      BY <1>2, <1>3, <1>4, <2>1, <1>0 DEF Recovers, Levels, Indices, Rooms
    <2>4. h < t /\ f < Once => t <= f + 2 * Overshoot
      <3> SUFFICES ASSUME h < t, f < Once PROVE t <= f + 2 * Overshoot
        OBVIOUS
      <3>1. f >= Spare
        BY <1>3, <1>4, <1>0 DEF Levels, Rooms
      <3>2. rx.head < rx.tail
        BY <1>2, <1>3, <2>1, <3>1, <1>0 DEF Recovers, Levels, Indices, Rooms
      <3>3. Spare < Once
        BY <1>3, <3>1, <1>0 DEF Levels, Rooms
      <3>4. t <= Spare + 2 * Overshoot
        BY <1>2, <2>1, <3>2, <3>3 DEF Recovers
      <3>5. t \in Int
        BY <1>2, <1>0 DEF Indices
      <3> QED
        BY <1>3, <3>1, <3>4, <3>5, <1>0 DEF Levels, Rooms
    <2> QED
      BY <1>1, <2>2, <2>3, <2>4 DEF Recovers, InTime, Once, Twice, Overshoot
  <1>7. ASSUME WrappedUnder PROVE WrappedUnder'
    <2>1. ASSUME h < t, ~(f >= InTime) PROVE h + c < Overshoot
      <3>1. ~(Spare >= InTime) /\ c < Coming
        BY <1>3, <1>4, <2>1, <1>0 DEF Levels, Rooms
      <3>2. CASE rx.head < rx.tail
        <4>1. rx.head + Coming < Overshoot
          BY <1>7, <3>1, <3>2 DEF WrappedUnder
        <4>2. h = rx.head + 1
          BY <1>2, <3>2
        <4> QED
          BY <1>3, <3>1, <4>1, <4>2, <1>0 DEF Levels, Rooms, Indices
      <3>3. CASE rx.head >= rx.tail
        <4>1. h = 0
          BY <1>2, <2>1, <3>3, <1>0 DEF Indices
        <4> QED
          BY <1>3, <1>5, <2>1, <4>1, <1>0 DEF Levels
      <3> QED
        BY <3>2, <3>3, <1>0 DEF Indices
    <2> QED
      BY <1>1, <2>1 DEF WrappedUnder, InTime, Overshoot
  <1>8. Decides'
    <2>1. Decides
      BY DEF FInv
    <2>2. pc' = pc /\ rdWrap' = rdWrap
      OBVIOUS
    <2>3. /\ Spare > Once => f > Once
          /\ Spare >= InTime => f >= InTime
      BY <1>3, <1>4, <1>0 DEF Levels, Rooms
    <2>4. /\ h >= t => rx.head >= rx.tail
          /\ rx.head < rx.tail => h < t
      BY <1>2, <1>0 DEF Indices
    <2> QED
      BY <1>1, <1>7, <2>1, <2>2, <2>3, <2>4 DEF Decides, InTime, Once, Overshoot
  <1>9. Queued' <= HwFifo
    BY <1>0 DEF Levels
  <1> QED
    BY <1>6, <1>8, <1>9 DEF FInv, Margin

(* A nested handler: a byte dropped for its framing error, one stored, and  *)
(* RTS withdrawn when the room falls short.                                 *)
LEMMA SpinServeFInv ==
    ASSUME FInv, RInv', SpinServe
    PROVE  FInv'
  <1>0. Levels /\ Indices /\ Gap /\ Rooms /\ OnTheWay
    BY FNumbers DEF Numbers
  <1> DEFINE waiting == IF Ferr THEN Tail(rxHw) ELSE rxHw
  <1>1. UNCHANGED <<pc, rdWrap, peer, irq>> /\ Hand' = Hand
    BY DEF SpinServe, IrqHandler, rdVars, irqVars, Hand
  <1>2. waiting \in Seq(Nat) /\ Len(waiting) <= Queued /\ (waiting # <<>> => rxHw # <<>>)
    <2>1. rxHw \in Seq(Nat)
      BY FTypes
    <2> QED
      BY <2>1 DEF Ferr, Queued
  <1>3. PICK q, c : q = Queued' /\ c = Coming'
    OBVIOUS
  <1>4. c = IF rts' THEN IF irq = "rts" THEN Overshoot - 1 ELSE Overshoot
            ELSE q + Hand + peer
    BY <1>1, <1>3 DEF Coming
  <1>5. CASE waiting = <<>>
    <2>1. rxHw' = waiting /\ rx' = rx /\ rts' = rts
      BY <1>5, FTypes DEF SpinServe, IrqHandler
    <2>2. q \in Nat /\ q <= Queued
      BY <1>2, <1>3, <2>1 DEF Queued
    <2>3. q <= 2 /\ c \in Int /\ c <= Coming
      <3>1. CASE rts
        BY <1>4, <2>1, <2>2, <3>1, <1>0, FNumbers DEF Levels, OnTheWay
      <3>2. CASE ~rts
        BY <1>4, <2>1, <2>2, <3>2, <1>0, FNumbers DEF Levels, OnTheWay
      <3> QED
        BY <3>1, <3>2
    <2>4. peer' <= Slack
      BY <1>1, <1>0 DEF OnTheWay
    <2> QED
      BY <1>1, <1>3, <2>1, <2>3, <2>4, LessComes
  <1>6. CASE waiting # <<>>
    <2>1. /\ rxHw' = Tail(waiting) /\ rx' = StoreChar(rx, waiting[1])
          /\ rts' = (rts /\ ~(HasRts /\ AvailableForStore(rx') < RtsThreshold))
      BY <1>6 DEF SpinServe, IrqHandler
    <2>2. Len(Tail(waiting)) < Len(waiting) /\ Len(waiting) \in Nat /\ Len(Tail(waiting)) \in Nat
      BY <1>2, <1>6
    <2>3. q < Queued /\ q \in Nat
      <3>1. q = Len(Tail(waiting))
        BY <1>3, <2>1 DEF Queued
      <3> HIDE DEF waiting
      <3> QED
        BY <1>2, <2>2, <3>1, <1>0 DEF OnTheWay
    <2>4. ~IsFull(rx)
      BY <1>2, <1>6, RoomForComing
    <2> HIDE DEF waiting
    <2>5. rx'.head = NextIndex(rx.head) /\ rx'.tail = rx.tail
      BY <2>1, <2>4, FTypes DEF StoreChar, Ring
    <2>6. AvailableForStore(rx') = Space - 1
      BY <2>4, <2>5, FTypes, StoreMoves DEF Space
    <2>7. /\ q <= 2 /\ c \in Int
          /\ c < Coming \/ Space - 1 - c >= InTime
          /\ c < Overshoot \/ Space - 1 - c >= InTime
      <3>1. CASE rts'
        <4>1. Space - 1 >= RtsThreshold
          <5>1. ~(AvailableForStore(rx') < RtsThreshold)
            BY <2>1, <3>1, FTypes
          <5> QED
            BY <2>6, <5>1, <1>0 DEF Rooms, Levels
        <4>2. c = Overshoot \/ c = Overshoot - 1
          BY <1>4, <3>1
        <4> QED
          BY <2>3, <4>1, <4>2, <1>0 DEF Rooms, Levels, OnTheWay
      <3>2. CASE ~rts'
        <4>1. c = q + Hand + peer
          BY <1>4, <3>2
        <4>2. c < Overshoot /\ c \in Int
          BY <2>3, <4>1, <1>0 DEF Levels, OnTheWay
        <4>3. c < Coming
          <5>1. CASE ~rts
            BY <2>3, <4>1, <5>1, <1>0, FNumbers DEF OnTheWay
          <5>2. CASE rts /\ irq # "rts"
            BY <2>3, <4>1, <5>2, <1>0, FNumbers DEF Levels, OnTheWay
          <5>3. CASE rts /\ irq = "rts"
            <6>1. Hand = 0
              BY <5>3 DEF Hand
            <6> QED
              BY <2>3, <4>1, <5>3, <6>1, <1>0, FNumbers DEF Levels, OnTheWay
          <5> QED
            BY <5>1, <5>2, <5>3
        <4> QED
          BY <2>3, <4>2, <4>3, <1>0 DEF OnTheWay
      <3> QED
        BY <3>1, <3>2
    <2>8. peer' <= Slack
      BY <1>1, <1>0 DEF OnTheWay
    <2> QED
      BY <1>1, <1>3, <2>4, <2>5, <2>7, <2>8, Stored
  <1> QED
    BY <1>5, <1>6

(* The interrupt's accesses: the byte it stores had been counted; then it   *)
(* withdraws RTS, or the room is enough.                                    *)
LEMMA IrqFInv ==
    ASSUME FInv, RInv', UartIrq \/ IrqStep
    PROVE  FInv'
  <1> USE DEF IrqGoes, IrqOnly, NoSend, NoReceive
  <1>0. Levels /\ Indices /\ Gap /\ Rooms /\ OnTheWay
    BY FNumbers DEF Numbers
  <1>1. UNCHANGED <<pc, rdWrap, peer>> /\ peer' <= Slack
    <2>1. UNCHANGED <<pc, rdWrap, peer>>
      BY DEF UartIrq, IrqStep, FrameErrorTest, Discard, RxcTest, TakeByte,
             KeepByte, KeepAdvance, RtsWithdraw, DreTest, AvailTest, FetchByte,
             AdvanceTail, SendByte, DisableDreIrq, ClearErrors, rdVars
    <2> QED
      BY <2>1, <1>0 DEF OnTheWay
  <1>2. Keeping /\ rx \in Ring(Nat) /\ rxHw \in Seq(Nat) /\ irq \in IrqSteps
    BY FTypes DEF FInv, RInv
  <1>3. PICK q, w, c : q = Queued' /\ w = Hand' /\ c = Coming'
    OBVIOUS
  <1>4. c = IF rts' THEN IF irq' = "rts" THEN Overshoot - 1 ELSE Overshoot
            ELSE q + w + peer
    BY <1>1, <1>3 DEF Coming
  <1>5. CASE KeepAdvance
    <2>1. /\ irq = "keepAdv" /\ irq' = "rts" /\ UNCHANGED <<rxHw, rts>>
          /\ rx' = [rx EXCEPT !.head = newHead]
      BY <1>5 DEF KeepAdvance
    <2>2. ~IsFull(rx) /\ rx'.head = NextIndex(rx.head) /\ rx'.tail = rx.tail
      BY <1>2, <2>1 DEF Keeping, Ring
    <2>3. q = Queued /\ Hand = 1 /\ w = 0
      BY <1>3, <2>1 DEF Queued, Hand
    <2>4. c \in Int /\ c < Coming /\ c < Overshoot
      <3>1. CASE rts
        BY <1>4, <2>1, <3>1, <1>0, FNumbers DEF Levels
      <3>2. CASE ~rts
        BY <1>4, <2>1, <2>3, <3>2, <1>0, FNumbers DEF Levels, OnTheWay
      <3> QED
        BY <3>1, <3>2
    <2>5. Queued' <= 2
      BY <1>3, <2>3, <1>0 DEF OnTheWay
    <2> QED
      BY <1>1, <1>3, <2>2, <2>4, <2>5, Stored
  <1>6. CASE RtsWithdraw
    <2>1. /\ irq = "rts" /\ irq' = "dre" /\ UNCHANGED <<rx, rxHw>>
          /\ rts' = (rts /\ ~(HasRts /\ AvailableForStore(rx) < RtsThreshold))
      BY <1>6 DEF RtsWithdraw
    <2>2. q = Queued /\ Hand = 0 /\ w = 0
      BY <1>3, <2>1 DEF Queued, Hand
    <2>3. c \in Int /\ (c <= Coming \/ Space - c >= InTime)
      <3>1. CASE rts'
        <4>1. c = Overshoot /\ Space >= RtsThreshold
          <5>1. ~(Space < RtsThreshold)
            BY <2>1, <3>1, FTypes DEF Space
          <5> QED
            BY <1>4, <2>1, <3>1, <5>1, <1>0 DEF Rooms, Levels
        <4> QED
          BY <4>1, <1>0 DEF Levels, Rooms
      <3>2. CASE ~rts' /\ rts
        BY <1>4, <2>1, <2>2, <3>2, <1>0, FNumbers DEF Levels, OnTheWay
      <3>3. CASE ~rts' /\ ~rts
        BY <1>4, <2>1, <2>2, <3>3, <1>0, FNumbers DEF Levels, OnTheWay
      <3> QED
        BY <2>1, <3>1, <3>2, <3>3
    <2>4. Queued' <= 2
      BY <1>3, <2>2, <1>0 DEF OnTheWay
    <2> QED
      BY <1>1, <1>3, <2>1, <2>3, <2>4, LessComes
  <1>7. CASE ~KeepAdvance /\ ~RtsWithdraw
    <2>1. UNCHANGED <<rts>> /\ rx'.head = rx.head /\ rx'.tail = rx.tail
      BY <1>2, <1>7 DEF UartIrq, IrqStep, FrameErrorTest, Discard, RxcTest, TakeByte,
         KeepByte, DreTest, AvailTest, FetchByte, AdvanceTail, SendByte, DisableDreIrq,
         ClearErrors, Ring
    <2>2. irq # "rts" /\ irq' # "rts"
      <3>1. CASE KeepByte
        <4>1. irq = "keep" /\ Hand = 1
          BY <3>1 DEF KeepByte, Hand
        <4>2. ~IsFull(rx)
          BY <4>1, RoomForComing
        <4> QED
          BY <3>1, <4>1, <4>2 DEF KeepByte
      <3>2. CASE ~KeepByte
        BY <1>7, <3>2 DEF UartIrq, IrqStep, FrameErrorTest, Discard, RxcTest, TakeByte,
           DreTest, AvailTest, FetchByte, AdvanceTail, SendByte, DisableDreIrq, ClearErrors
      <3> QED
        BY <3>1, <3>2
    <2>3. q \in Nat /\ q <= 2 /\ q + w <= Queued + Hand /\ w \in Nat
      <3>1. CASE TakeByte
        <4>1. irq = "take" /\ irq' = "keep" /\ rxHw # <<>> /\ rxHw' = Tail(rxHw)
          BY <1>2, <3>1 DEF TakeByte, Keeping
        <4>2. Len(Tail(rxHw)) = Len(rxHw) - 1 /\ Len(rxHw) \in Nat /\ Len(rxHw) >= 1
          BY <1>2, <4>1
        <4>3. q = Queued - 1 /\ Queued >= 1 /\ Hand = 0 /\ w = 1
          BY <1>3, <4>1, <4>2 DEF Queued, Hand
        <4> QED
          BY <4>3, <1>0 DEF OnTheWay
      <3>2. CASE Discard
        <4>1. irq = "discard" /\ irq' = "rxc"
          BY <3>2 DEF Discard
        <4>2. Len(rxHw') \in Nat /\ Len(rxHw') <= Len(rxHw) /\ Len(rxHw) \in Nat
          BY <1>2, <3>2 DEF Discard
        <4>3. q \in Nat /\ q <= Queued /\ Hand = 0 /\ w = 0
          BY <1>3, <4>1, <4>2 DEF Queued, Hand
        <4> QED
          BY <4>3, <1>0 DEF OnTheWay
      <3>3. CASE ~TakeByte /\ ~Discard
        <4>1. rxHw' = rxHw /\ (irq' \in {"keep", "keepAdv"} => irq \in {"keep", "keepAdv"})
          BY <1>7, <3>3 DEF UartIrq, IrqStep, FrameErrorTest, RxcTest, KeepByte, DreTest,
             AvailTest, FetchByte, AdvanceTail, SendByte, DisableDreIrq, ClearErrors
        <4>2. q = Queued /\ w <= Hand /\ w \in Nat
          BY <1>3, <4>1 DEF Queued, Hand
        <4> QED
          BY <4>2, <1>0 DEF OnTheWay
      <3> QED
        BY <3>1, <3>2, <3>3
    <2>4. c \in Int /\ c <= Coming
      <3>1. CASE rts
        BY <1>4, <2>1, <2>2, <3>1, <1>0, FNumbers DEF Levels
      <3>2. CASE ~rts
        BY <1>4, <2>1, <2>3, <3>2, <1>0, FNumbers DEF Levels, OnTheWay
      <3> QED
        BY <3>1, <3>2
    <2> QED
      BY <1>1, <1>3, <2>1, <2>3, <2>4, LessComes
  <1> QED
    BY <1>5, <1>6, <1>7

LEMMA ReceiveFInv ==
    ASSUME FInv, RInv', HwReceive
    PROVE  FInv'
  <1>0. Levels /\ Indices /\ Gap /\ Rooms /\ OnTheWay
    BY FNumbers DEF Numbers
  <1>1. UNCHANGED <<rx, rts, pc, rdWrap, irq>> /\ Hand' = Hand
    BY DEF HwReceive, rdVars, NoWrite, irqVars, Hand
  <1>2. peer' = (IF rts THEN Slack ELSE peer - 1) /\ (~rts => peer > 0)
    BY FTypes DEF HwReceive
  <1>3. IF Queued < 2 THEN Queued' = Queued + 1 ELSE Queued' = Queued
    <2>1. CASE Queued < 2
      <3>1. rxHw' = Append(rxHw, arrived + 1)
        BY <2>1 DEF HwReceive, Queued, HwFifo
      <3> QED
        BY <2>1, <3>1, FTypes DEF Queued
    <2>2. CASE ~(Queued < 2)
      BY <2>2 DEF HwReceive, Queued, HwFifo
    <2> QED
      BY <2>1, <2>2
  <1>4. Queued' <= 2 /\ peer' <= Slack /\ (~rts => Queued' + Hand + peer' <= Queued + Hand + peer)
        /\ Queued' \in Int /\ peer' \in Int
    BY <1>2, <1>3, <1>0 DEF Levels, OnTheWay
  <1>5. Coming' = IF rts THEN IF irq = "rts" THEN Overshoot - 1 ELSE Overshoot
                  ELSE Queued' + Hand + peer'
    BY <1>1 DEF Coming
  <1>6. Coming' \in Int /\ Coming' <= Coming
    <2>1. CASE rts
      BY <1>5, <2>1, <1>0, FNumbers DEF Levels
    <2>2. CASE ~rts
      <3>1. Coming' = Queued' + Hand + peer' /\ Coming = Queued + Hand + peer
        BY <1>5, <2>2, FNumbers
      <3>2. PICK q, p : q = Queued' /\ p = peer'
        OBVIOUS
      <3>3. q \in Int /\ p \in Int /\ q + Hand + p <= Queued + Hand + peer
        BY <1>4, <2>2, <3>2
      <3>4. q + Hand + p \in Int
        BY <3>3, <1>0 DEF OnTheWay
      <3> QED
        BY <3>1, <3>2, <3>3, <3>4
    <2> QED
      BY <2>1, <2>2
  <1> QED
    BY <1>1, <1>4, <1>6, LessComes

(* The steps of read: one byte more of room, the test, the decision.        *)
LEMMA ReadFInv ==
    ASSUME FInv, RInv', ReadCall \/ ReadStep
    PROVE  FInv'
  <1>0. Levels /\ Indices /\ Gap /\ Rooms /\ OnTheWay
    BY FNumbers DEF Numbers
  <1>1. Recovers /\ Decides
    BY DEF FInv
  <1>2. /\ UNCHANGED <<rxHw, peer>> /\ Queued' = Queued /\ irq = "idle" /\ irq' = "idle"
        /\ Hand' = Hand
    <2>1. UNCHANGED <<rxHw, peer>> /\ irq' = irq
      BY DEF ReadCall, ReadStep, ReadByte, ReadAdvance, RtsTest, RtsSpace, RtsAssert, rxVars,
             NoWrite, irqVars
    <2>2. irq = "idle"
      BY DEF ReadCall, ReadStep, ReadByte, ReadAdvance, RtsTest, RtsSpace, RtsAssert, Step, Runs
    <2> QED
      BY <2>1, <2>2 DEF Queued, Hand
  <1>9. rts' = rts => Coming' = Coming
    BY <1>2 DEF Coming
  <1>3. CASE ReadCall
    <2>1. pc'["thread"] = "read" /\ UNCHANGED <<rx, rts, rdWrap>>
      BY <1>3, FTypes DEF ReadCall, Step, rxVars, rdVars
    <2>2. Spare' = Spare
      BY <1>9, <2>1 DEF Spare, Space
    <2> QED
      BY <1>1, <1>2, <2>1, <2>2 DEF FInv, Margin, Recovers, Decides, InTime, Once, Twice,
         Overshoot
  <1>4. CASE ReadByte
    <2>1. /\ pc'["thread"] = IF rx.head = rx.tail THEN "rtsTest" ELSE "readAdv"
          /\ UNCHANGED <<rx, rts, rdWrap>>
      BY <1>4, FTypes DEF ReadByte, Step, AfterRead, rxVars
    <2>2. Spare' = Spare
      BY <1>9, <2>1 DEF Spare, Space
    <2>3. rx.head = rx.tail => Spare > Once
      <3>1. ASSUME rx.head = rx.tail PROVE Space = N - 1
        BY <3>1, <1>0 DEF Indices, Gap
      <3>2. Coming <= Slack + 3
        BY FNumbers
      <3> QED
        BY <3>1, <3>2, <1>0 DEF Levels, Indices, Rooms
    <2> QED
      BY <1>1, <1>2, <2>1, <2>2, <2>3 DEF FInv, Margin, Recovers, Decides, InTime, Once, Twice,
         Overshoot
  <1>5. CASE ReadAdvance
    <2>1. /\ pc["thread"] = "readAdv" /\ pc'["thread"] = "rtsTest"
          /\ rx' = DropFirst(rx) /\ UNCHANGED <<rts, rdWrap>>
      BY <1>5, FTypes DEF ReadAdvance, Step, AfterRead
    <2>2. rx.head # rx.tail
      BY <2>1 DEF FInv, RInv, StillFirst
    <2>3. PICK t, g, f : t = rx'.tail /\ g = Space' /\ f = Spare'
      OBVIOUS
    <2>4. rx'.head = rx.head /\ t = IF rx.tail = N - 1 THEN 0 ELSE rx.tail + 1
      <3>1. rx'.head = rx.head /\ t = NextIndex(rx.tail)
        BY <2>1, <2>3, FTypes DEF DropFirst, Ring
      <3>2. NextIndex(rx.tail) = IF rx.tail = N - 1 THEN 0 ELSE rx.tail + 1
        <4>1. CASE rx.tail = N - 1
          BY <4>1, <1>0 DEF Indices, NextIndex
        <4>2. CASE rx.tail # N - 1
          BY <4>2, <1>0, NextIndexInside DEF Indices
        <4> QED
          BY <4>1, <4>2
      <3> QED
        BY <3>1, <3>2
    <2>5. g = IF rx.head >= t THEN N - 1 - rx.head + t ELSE t - rx.head - 1
      BY <2>3, <2>4 DEF Space, AvailableForStore, SpaceFrom
    <2>6. g = Space + 1
      BY <2>2, <2>4, <2>5, <1>0 DEF Indices, Gap
    <2>7. f = Spare + 1
      <3>1. f = g - Coming
        BY <1>9, <2>1, <2>3 DEF Spare
      <3> QED
        BY <2>6, <3>1, <1>0 DEF Rooms
    <2>8. ASSUME rx.head >= t PROVE f > Once
      <3>1. Spare >= Once
        <4>1. CASE rx.head >= rx.tail
          BY <1>1, <4>1 DEF Recovers
        <4>2. CASE rx.head < rx.tail
          <5>1. rx.tail = N - 1
            BY <2>4, <2>8, <4>2, <1>0 DEF Indices
          <5> SUFFICES ASSUME Spare < Once PROVE FALSE
            BY <1>0 DEF Levels, Rooms
          <5>2. rx.tail <= Spare + 2 * Overshoot
            BY <1>1, <4>2 DEF Recovers
          <5> QED
            BY <5>1, <5>2, <1>0 DEF Indices, Levels, Rooms
        <4> QED
          BY <4>1, <4>2, <1>0 DEF Indices
      <3> QED
        BY <2>7, <3>1, <1>0 DEF Levels, Rooms
    <2>9. Recovers'
      <3>1. rx.head < t => f >= Twice
        BY <1>1, <2>2, <2>4, <2>7, <1>0 DEF Recovers, Levels, Rooms, Indices
      <3>2. rx.head < t /\ f < Once => t <= f + 2 * Overshoot
        BY <1>1, <2>2, <2>4, <2>7, <1>0 DEF Recovers, Levels, Rooms, Indices
      <3>3. rx.head >= t => f >= Once
        BY <2>7, <2>8, <1>0 DEF Levels, Rooms
      <3> QED
        BY <2>3, <2>4, <3>1, <3>2, <3>3 DEF Recovers, InTime, Once, Twice, Overshoot
    <2>10. Decides'
      BY <2>1, <2>3, <2>4, <2>8 DEF Decides, InTime, Once, Overshoot
    <2> QED
      BY <1>1, <1>2, <2>1, <2>9, <2>10 DEF FInv, Margin
  <1>6. CASE RtsTest
    <2>1. /\ pc["thread"] = "rtsTest" /\ pc'["thread"] = "rtsSpace"
          /\ rdWrap' = (rx.head >= rx.tail) /\ UNCHANGED <<rx, rts>>
      BY <1>6, FTypes DEF RtsTest, Step, rxVars
    <2>2. Spare' = Spare
      BY <1>9, <2>1 DEF Spare, Space
    <2>3. Recovers'
      BY <1>1, <2>1, <2>2 DEF Recovers, InTime, Once, Twice, Overshoot
    <2>4. rx.head >= rx.tail => Spare > Once /\ ~(rx.head < rx.tail)
      BY <1>1, <2>1, <1>0 DEF Decides, Indices
    <2>5. ~(rx.head >= rx.tail) => rx.head < rx.tail
      BY <1>0 DEF Indices
    <2>6. Decides'
      BY <2>1, <2>2, <2>4, <2>5 DEF Decides, WrappedUnder, InTime, Once, Overshoot
    <2> QED
      BY <1>1, <1>2, <2>1, <2>3, <2>6 DEF FInv, Margin
  <1>7. CASE RtsSpace
    <2>1. /\ pc["thread"] = "rtsSpace"
          /\ pc'["thread"] = IF SpaceFrom(rdWrap, rx.head, rx.tail) > RtsThreshold
                             THEN "rtsAssert" ELSE "idle"
          /\ UNCHANGED <<rx, rts, rdWrap>>
      BY <1>7, FTypes DEF RtsSpace, Step, rxVars, rdVars
    <2>2. Spare' = Spare
      BY <1>9, <2>1 DEF Spare, Space
    <2>3. Recovers'
      BY <1>1, <2>1, <2>2 DEF Recovers, InTime, Once, Twice, Overshoot
    <2>4. ASSUME pc'["thread"] = "rtsAssert", rx.head >= rx.tail \/ ~rdWrap
          PROVE  Spare >= InTime
      <3>1. rdWrap = (rx.head >= rx.tail)
        <4>1. ~rdWrap => rx.head < rx.tail
          BY <1>1, <2>1 DEF Decides
        <4> QED
          BY <2>4, <4>1, FTypes, <1>0 DEF Indices
      <3>2. SpaceFrom(rdWrap, rx.head, rx.tail) = Space
        BY <3>1 DEF Space, AvailableForStore
      <3>3. Space > RtsThreshold
        BY <2>1, <2>4, <3>2
      <3>4. Coming <= Slack + 3
        BY FNumbers
      <3> QED
        BY <3>3, <3>4, <1>0 DEF Levels, Rooms
    <2>5. WrappedUnder => WrappedUnder'
      BY <1>9, <2>1, <2>2 DEF WrappedUnder, InTime, Overshoot
    <2>6. Decides'
      BY <1>1, <2>1, <2>2, <2>4, <2>5 DEF Decides, InTime, Once, Overshoot
    <2> QED
      BY <1>1, <1>2, <2>1, <2>3, <2>6 DEF FInv, Margin
  <1>8. CASE RtsAssert
    <2>1. /\ pc["thread"] = "rtsAssert" /\ pc'["thread"] = "idle" /\ rts' = TRUE
          /\ UNCHANGED rx
      BY <1>8, FTypes DEF RtsAssert, Step
    <2>2. PICK f : f = Spare'
      OBVIOUS
    <2>3. f = Space - Overshoot
      BY <1>2, <2>1, <2>2 DEF Spare, Space, Coming
    <2>4. f >= Spare - Overshoot
      BY <2>3, <1>0 DEF Levels, Rooms
    <2>5. CASE Spare >= InTime
      <3>1. f >= Once
        BY <2>3, <2>4, <2>5, <1>0 DEF Levels, Rooms
      <3>2. f >= Twice
        BY <2>3, <3>1, <1>0 DEF Levels, Rooms
      <3>3. ~(f < Once)
        BY <2>3, <3>1, <1>0 DEF Levels, Rooms
      <3> QED
        BY <1>1, <1>2, <2>1, <2>2, <3>1, <3>2, <3>3 DEF Recovers, Decides, FInv, Margin, InTime, Once, Twice,
           Overshoot
    <2>6. CASE ~(Spare >= InTime)
      <3>1. rdWrap /\ ~(rx.head >= rx.tail)
        BY <1>1, <2>1, <2>6 DEF Decides
      <3>2. rx.head < rx.tail /\ Spare > Once
        BY <1>1, <2>1, <3>1, <1>0 DEF Decides, Indices
      <3>3. rx.head + Coming < Overshoot
        BY <1>1, <2>1, <2>6, <3>1, <3>2 DEF Decides, WrappedUnder
      <3>4. rx.head < Overshoot
        BY <3>3, <1>0 DEF Indices, Rooms, Levels
      <3>5. f >= Twice
        BY <2>3, <2>4, <3>2, <1>0 DEF Levels, Rooms
      <3>6. rx.tail <= f + 2 * Overshoot
        BY <2>3, <3>2, <3>4, <1>0 DEF Indices, Gap, Levels, Rooms
      <3> QED
        BY <1>1, <1>2, <2>1, <2>2, <3>1, <3>5, <3>6 DEF Recovers, Decides, FInv, Margin, InTime,
           Once, Twice, Overshoot
    <2> QED
      BY <2>5, <2>6
  <1> QED
    BY <1>3, <1>4, <1>5, <1>6, <1>7, <1>8 DEF ReadStep

(* Writing, flushing and sending leave the received bytes alone.            *)
LEMMA OtherFInv ==
    ASSUME FInv, RInv', UNCHANGED <<rxVars, rdVars, irqVars>>,
           \/ pc'["thread"] = pc["thread"]
           \/ pc'["thread"] \notin {"readAdv", "rtsTest", "rtsSpace", "rtsAssert"}
    PROVE  FInv'
  <1>1. UNCHANGED <<rx, rxHw, rts, peer, rdWrap, irq>>
    BY DEF rxVars, rdVars, irqVars
  <1>2. Queued' = Queued /\ Spare' = Spare
    BY <1>1 DEF Queued, Spare, Space, Coming, Hand
  <1>3. Recovers' /\ (WrappedUnder => WrappedUnder')
    BY <1>1, <1>2 DEF FInv, Recovers, WrappedUnder, Coming, Queued, Hand, InTime, Once, Twice, Overshoot
  <1>4. Decides'
    BY <1>1, <1>2, <1>3 DEF FInv, Decides, InTime, Once, Overshoot
  <1> QED
    BY <1>1, <1>2, <1>3, <1>4 DEF FInv, Margin

LEMMA NextFInv == FCase /\ [Next]_vars => FCase'
  <1>0. FCase /\ [Next]_vars => Margin' /\ RCase'
    BY NextRInv DEF FCase, Margin, Overshoot
  <1> SUFFICES ASSUME FCase, [Next]_vars, ~crossed' PROVE FInv'
    BY <1>0 DEF FCase
  <1>1. FInv /\ RInv'
    <2>1. ~crossed
      BY CrossedStays
    <2> QED
      BY <1>0, <2>1 DEF FCase, RCase
  <1>2. pc \in [Ctx -> ThreadSteps]
    BY <1>1, FTypes
  <1>3. CASE UartIrq \/ IrqStep
    BY <1>1, <1>3, IrqFInv
  <1>4. CASE SpinServe
    BY <1>1, <1>4, SpinServeFInv
  <1>5. ASSUME NEW c \in Ctx, WriteCall(c) \/ WriteStep(c), ~SpinServe PROVE FInv'
    BY <1>1, <1>2, <1>5, OtherFInv DEF WriteCall, WriteStep, TestDre, TestEmpty, WriteDirect, SpinDone,
       StoreByte, AdvanceHead, EnableDreIrq, Step, Quiet, Ctx
  <1>6. CASE FlushCall \/ FlushStep
    BY <1>1, <1>2, <1>6, OtherFInv DEF FlushCall, FlushStep, FlushEmpty, FlushDre, FlushTxc, Step, Quiet,
       Ctx
  <1>7. CASE ReadCall \/ ReadStep
    BY <1>1, <1>7, ReadFInv
  <1>8. CASE HwLoad \/ HwSent
    BY <1>1, <1>8, OtherFInv DEF HwLoad, HwSent, Quiet
  <1>9. CASE HwReceive
    BY <1>1, <1>9, ReceiveFInv
  <1>10. CASE UNCHANGED vars
    BY <1>1, <1>10, OtherFInv DEF vars
  <1> QED
    BY <1>3, <1>4, <1>5, <1>6, <1>7, <1>8, <1>9, <1>10 DEF Next

LEMMA InitFInv == Margin /\ Init => FCase
  <1> SUFFICES ASSUME Margin, Init PROVE FCase
    OBVIOUS
  <1>1. /\ RCase /\ RInv /\ Queued = 0 /\ peer = Slack /\ pc["thread"] = "idle" /\ rts = TRUE
        /\ irq = "idle"
    BY InitRInv DEF Init, Queued, Ctx, RCase
  <1>2. rx.head = 0 /\ rx.tail = 0 /\ N \in Nat /\ Slack \in Nat /\ RtsThreshold \in Nat
    BY RingAssumption, UartAssumption DEF Init, EmptyRing
  <1>3. Spare = N - 1 - Overshoot
    BY <1>1, <1>2 DEF Spare, Space, Coming, AvailableForStore, SpaceFrom
  <1>4. Overshoot = Slack + 3 /\ Once = RtsThreshold - Overshoot - Overshoot
    BY <1>2 DEF Overshoot, HwFifo, Once, InTime
  <1>5. Spare >= Once /\ ~(rx.head < rx.tail)
    BY <1>2, <1>3, <1>4 DEF Margin
  <1>6. Queued <= HwFifo /\ peer <= Slack
    BY <1>1, <1>2 DEF HwFifo
  <1> QED
    BY <1>1, <1>5, <1>6 DEF FCase, FInv, Recovers, Decides

LEMMA RoomInTime == FCase => FlowControl
  BY RoomForComing DEF FCase, FlowControl, Hand

(* With a threshold that covers the bytes still to come three times, every  *)
(* byte that arrives finds room in the ring, although read may assert RTS   *)
(* from a count an interrupt has made stale (Uart.cpp 102-107, 146-153),    *)
(* until a writer takes a byte while the interrupt is storing another.      *)
THEOREM NeverOverrun == Margin /\ Spec => []FlowControl
  BY InitFInv, NextFInv, RoomInTime, PTL DEF Spec
=============================================================================
