------------------------------ MODULE I2s_proofs ------------------------------
(***************************************************************************)
(* The I2S library keeps every sample and its order for every size of       *)
(* buffer, and its receiver never stops for good:                           *)
(*   IInv       who works on which buffer (the handing over)                *)
(*   BInv       IInv, the types, and how far the sketch is in its buffer    *)
(*   Accounted  where the accepted bytes are                                *)
(*   TxOrder    the order of the bytes sent, from channel to sketch         *)
(*   RxOrder    the order of the bytes read, and what each buffer holds     *)
(*   Whole      losses come in whole buffers                                *)
(***************************************************************************)
EXTENDS I2s, SequenceTheorems, TLAPS

(* A valid descriptor is known to the library, the interrupt runs only for  *)
(* a transfer that was in progress, between two transfers the descriptor is *)
(* not valid, and a transfer ends either well or with an error.             *)
Known ==
    /\ valid => progress
    /\ isr # "idle" => progress
    /\ isr \in {"test", "start", "stop"} => ~valid
    /\ tcmpl => valid /\ left = 0
    /\ terr => valid /\ left = 0 /\ ~tcmpl

(* The swap of the interrupt has changed the index, but not yet both the    *)
(* length and the offset.                                                   *)
Swapping == isr \in {"setLength", "setOffset"}

(* The channel works on the other buffer, except between the start of a     *)
(* transfer by the interrupt and the first store of the swap.               *)
Separate ==
    /\ valid /\ isr # "swap" => on # index
    /\ valid /\ isr = "swap" => on = index

Typed ==
    /\ index \in Buffers /\ on \in Buffers
    /\ valid \in BOOLEAN /\ progress \in BOOLEAN
    /\ tcmpl \in BOOLEAN /\ terr \in BOOLEAN
    /\ isr \in {"idle", "test", "start", "swap", "setLength", "setOffset", "stop"}

IInv == Typed /\ Known /\ Separate

(* A call of the library leaves the shared state alone, or starts a         *)
(* transfer on the buffer in use and swaps.                                 *)
LEMMA CallStarts ==
    ASSUME IInv, isr' = isr,
           \/ UNCHANGED <<progress, dma, index>>
           \/ /\ ~progress /\ progress' = TRUE /\ index' = 1 - index
              /\ valid' = TRUE /\ on' = index /\ UNCHANGED <<tcmpl, terr>>
    PROVE IInv'
<1>1. CASE UNCHANGED <<progress, dma, index>>
  BY <1>1 DEF IInv, Typed, Known, Separate, dma
<1>2. CASE /\ ~progress /\ progress' = TRUE /\ index' = 1 - index
           /\ valid' = TRUE /\ on' = index /\ UNCHANGED <<tcmpl, terr>>
  <2>1. ~valid /\ ~tcmpl /\ ~terr /\ isr = "idle"
    BY <1>2 DEF IInv, Typed, Known
  <2>2. /\ progress' /\ valid' /\ ~tcmpl' /\ ~terr' /\ isr' = "idle"
        /\ tcmpl' = FALSE /\ terr' = FALSE
    BY <1>2, <2>1 DEF IInv, Typed
  <2>3. Known'
    BY <2>2 DEF Known
  <2>4. index' # on' /\ index' \in Buffers /\ on' \in Buffers
    BY <1>2 DEF IInv, Typed, Buffers
  <2>5. Separate'
    BY <2>2, <2>4 DEF Separate
  <2>6. Typed'
    BY <1>2, <2>2, <2>4 DEF Typed
  <2> QED
    BY <2>3, <2>5, <2>6 DEF IInv
<1> QED
  BY <1>1, <1>2

LEMMA WriteKeeps == ASSUME IInv, NEW n, Write(n) PROVE IInv'
<1>1. ~progress => ~valid
  BY DEF IInv, Known
<1>2. isr' = isr
  BY DEF Write
<1>3. \/ UNCHANGED <<progress, dma, index>>
      \/ /\ ~progress /\ progress' = TRUE /\ index' = 1 - index
         /\ valid' = TRUE /\ on' = index /\ UNCHANGED <<tcmpl, terr>>
  BY <1>1 DEF Write, Transfer, Swapped, dma
<1> QED
  BY <1>2, <1>3, CallStarts

LEMMA ReadKeeps == ASSUME IInv, NEW n, Read(n) PROVE IInv'
<1>1. ~progress => ~valid
  BY DEF IInv, Known
<1>2. isr' = isr
  BY DEF Read
<1>3. \/ UNCHANGED <<progress, dma, index>>
      \/ /\ ~progress /\ progress' = TRUE /\ index' = 1 - index
         /\ valid' = TRUE /\ on' = index /\ UNCHANGED <<tcmpl, terr>>
  BY <1>1 DEF Read, Transfer, Swapped, dma
<1> QED
  BY <1>2, <1>3, CallStarts

LEMMA HandOverNext == IInv /\ [Next]_vars => IInv'
<1> SUFFICES ASSUME IInv, [Next]_vars PROVE IInv'
  OBVIOUS
<1>1. ASSUME NEW n \in Width..MaxLen, Write(n) PROVE IInv'
  BY <1>1, WriteKeeps
<1>2. ASSUME NEW n \in 0..MaxLen, Read(n) PROVE IInv'
  BY <1>2, ReadKeeps
<1> USE DEF IInv, Typed, Known, Separate
<1>3. CASE EndBegin
  BY <1>3 DEF EndBegin, Buffers
<1>4. CASE SendBeat
  BY <1>4 DEF SendBeat, Moving, double
<1>5. CASE ReceiveBeat
  <2>1. CASE Moving
    BY <1>5, <2>1 DEF ReceiveBeat, Moving
  <2>2. CASE ~Moving
    BY <1>5, <2>2 DEF ReceiveBeat
  <2> QED
    BY <2>1, <2>2
<1>6. CASE Error
  BY <1>6 DEF Error, Moving, double
<1>7. CASE ServiceError
  BY <1>7 DEF ServiceError, double
<1>8. CASE Service
  BY <1>8 DEF Service, double
<1>9. CASE Test
  BY <1>9 DEF Test, double, dma
<1>10. CASE Start
  BY <1>10 DEF Start, Transfer, double, dma
<1>11. CASE SwapIndex
  BY <1>11 DEF SwapIndex, Buffers, dma
<1>14. CASE SetLength \/ ResetOffset
  BY <1>14 DEF SetLength, ResetOffset, dma
<1>12. CASE Stop
  BY <1>12 DEF Stop, double, dma
<1>13. CASE UNCHANGED vars
  BY <1>13 DEF vars, double, dma
<1> QED
  BY <1>1, <1>2, <1>3, <1>4, <1>5, <1>6, <1>7, <1>8, <1>9, <1>10, <1>11, <1>12,
     <1>13, <1>14 DEF Next, Handler

LEMMA HandOver == Spec => []IInv
<1>1. Init => IInv
  BY DEF Init, IInv, Typed, Known, Separate, Buffers
<1> QED
  BY <1>1, HandOverNext, PTL DEF Spec

(* The library never starts a transfer the channel refuses (DMA.cpp         *)
(* 176-179, a result I2S.cpp ignores).                                      *)
THEOREM TransferNeverRefused == Spec => []NeverRefused
<1>1. IInv => NeverRefused
  BY DEF IInv, Typed, Known, NeverRefused
<1> QED
  BY <1>1, HandOver, PTL

(* Sketch and channel work on different buffers, but for the time between   *)
(* the start of a transfer by the interrupt and the first store of the swap *)
(* that follows it (I2S.cpp 486-509, I2SDoubleBuffer.cpp 120-126).          *)
THEOREM BuffersApart == Spec => []Apart
<1>1. IInv => Apart
  BY DEF IInv, Separate, Apart, Moving
<1> QED
  BY <1>1, HandOver, PTL

-----------------------------------------------------------------------------
(* Neither the sketch nor the channel leaves its buffer.                    *)

(* A transmitter reads nothing from its buffers, and an idle library has    *)
(* nothing in them.                                                         *)
Offsets ==
    /\ \A b \in Buffers : readOffset[b] <= length[b]
    /\ mode # "rx" => \A b \in Buffers : readOffset[b] = 0
    /\ mode = "idle" => ~progress /\ ~valid /\ (\A b \in Buffers : length[b] = 0)

(* The receiver fills whole buffers; the one the sketch does not use is      *)
(* drained, and so is the one it uses when the interrupt swaps.              *)
Drained ==
    mode = "rx" =>
      /\ \A b \in Buffers : length[b] \in {0, Size}
      /\ length[1 - index] = readOffset[1 - index]
      /\ isr \in {"start", "swap", "setLength"} => length[index] = readOffset[index]
      /\ isr = "setOffset" => length[index] = Size

BInv == IInv /\ TypeOK /\ Offsets /\ Drained

LEMMA ExceptTyped ==
  ASSUME NEW S, NEW T, NEW f \in [S -> T], NEW x, NEW v \in T
  PROVE  [f EXCEPT ![x] = v] \in [S -> T]
  OBVIOUS

LEMMA Sizes ==
  /\ Width \in Nat \ {0} /\ Beats \in Nat \ {0} /\ Size \in Nat \ {0}
  /\ \A n \in 0..Size : /\ n % Width \in 0..Size /\ n \div Width \in 0..Beats
                       /\ (n % Width) + Width * (n \div Width) = n
  <1>1. Width \in Nat \ {0} /\ Beats \in Nat \ {0} /\ Size \in Nat \ {0}
    BY I2sAssumption DEF Size
  <1>2. SUFFICES ASSUME NEW n \in 0..Size
                 PROVE  /\ n % Width \in 0..Size /\ n \div Width \in 0..Beats
                        /\ (n % Width) + Width * (n \div Width) = n
    BY <1>1
  <1>3. n % Width \in 0..(Width - 1) /\ n \div Width \in Int
    BY <1>1
  <1>4. n = Width * (n \div Width) + (n % Width)
    BY <1>1
  <1>5. n \div Width >= 0
    BY <1>1, <1>3, <1>4
  <1>6. n \div Width <= Beats
    BY <1>1, <1>3, <1>4 DEF Size
  <1>7. Width * (n \div Width) >= 0
    BY <1>1, <1>3, <1>5
  <1>8. n % Width <= n
    BY <1>1, <1>3, <1>4, <1>7
  <1>9. QED
    BY <1>1, <1>3, <1>4, <1>5, <1>6, <1>8

(* A transfer starts within the buffer, whatever number of bytes it gets.   *)
LEMMA TransferTyped ==
  ASSUME TypeOK, NEW b \in Buffers, NEW n \in 0..Size, Transfer(b, n)
  PROVE  /\ valid' \in BOOLEAN /\ on' \in Buffers /\ left' \in 0..Beats /\ at' \in 0..Size
         /\ at' + Width * left' <= Size /\ tcmpl' = tcmpl /\ terr' = terr
  <1>1. CASE valid
    BY <1>1 DEF Transfer, dma, TypeOK
  <1>2. CASE ~valid
    <2>1. /\ valid' = TRUE /\ on' = b /\ at' = n % Width /\ left' = n \div Width
          /\ tcmpl' = tcmpl /\ terr' = terr
      BY <1>2 DEF Transfer
    <2>2. QED
      BY <2>1, Sizes
  <1>3. QED
    BY <1>1, <1>2

(* A read that starts a transfer has drained its buffer.                    *)
LEMMA ReadDrained == ASSUME BInv, NEW n \in 0..MaxLen, Read(n) PROVE Drained'
  <1> USE DEF BInv
  <1>1. /\ Size \in Nat \ {0} /\ n \in Nat /\ index \in Buffers /\ 1 - index \in Buffers
        /\ 1 - index # index /\ 1 - (1 - index) = index
        /\ \A b \in Buffers : length[b] \in 0..Size /\ readOffset[b] \in 0..length[b]
        /\ DOMAIN length = Buffers /\ DOMAIN readOffset = Buffers
    BY Sizes, I2sAssumption DEF TypeOK, Offsets, Buffers
  <1>2. /\ \A b \in Buffers : length[b] \in {0, Size}
        /\ length[1 - index] = readOffset[1 - index]
        /\ isr \in {"start", "swap", "setLength"} => length[index] = readOffset[index]
        /\ isr = "setOffset" => length[index] = Size
    <2>1. CASE mode = "rx"
      BY <2>1 DEF Drained
    <2>2. CASE mode = "idle"
      <3>1. isr = "idle" /\ \A b \in Buffers : length[b] = 0 /\ readOffset[b] = 0
        BY <2>2 DEF Offsets, IInv, Known
      <3> QED
        BY <1>1, <3>1
    <2> QED
      BY <2>1, <2>2 DEF Read
  <1> DEFINE r == IF n > available THEN available ELSE n
             off == [readOffset EXCEPT ![index] = @ + r]
  <1>3. /\ isr' = isr
        /\ IF ~progress /\ availableIn(length, off, index) = 0
           THEN Swapped(length, off, 0)
           ELSE readOffset' = off /\ UNCHANGED <<index, length>>
    BY DEF Read
  <1>4. r \in Nat /\ r <= length[index] - readOffset[index]
    BY <1>1 DEF available
  <1> HIDE DEF r
  <1>5. /\ off[index] = readOffset[index] + r /\ off[1 - index] = readOffset[1 - index]
        /\ DOMAIN off = Buffers
    BY <1>1
  <1> HIDE DEF off
  <1>6. CASE ~progress /\ availableIn(length, off, index) = 0
    <2>1. /\ index' = 1 - index /\ length' = [length EXCEPT ![1 - index] = 0]
          /\ readOffset' = [off EXCEPT ![1 - index] = 0]
      BY <1>3, <1>6 DEF Swapped
    <2>2. length'[index] = length[index] /\ readOffset'[index] = off[index]
          /\ length'[1 - index] = 0
      BY <1>1, <1>5, <2>1
    <2>3. length[index] = off[index]
      BY <1>1, <1>4, <1>5, <1>6 DEF availableIn
    <2>4. isr' = "idle"
      BY <1>3, <1>6 DEF IInv, Known
    <2>5. \A b \in Buffers : length'[b] \in {0, Size}
      BY <1>1, <1>2, <2>1
    <2>6. length'[1 - index'] = readOffset'[1 - index']
      BY <1>1, <2>1, <2>2, <2>3
    <2> QED
      BY <2>4, <2>5, <2>6 DEF Drained
  <1>7. CASE ~(~progress /\ availableIn(length, off, index) = 0)
    <2>1. readOffset' = off /\ UNCHANGED <<index, length>>
      BY <1>3, <1>7
    <2>2. isr \in {"start", "swap", "setLength"} => off[index] = readOffset[index]
      BY <1>1, <1>2, <1>4, <1>5
    <2> QED
      BY <1>2, <1>3, <1>5, <2>1, <2>2 DEF Drained
  <1> QED
    BY <1>6, <1>7

LEMMA HandlerDrained == ASSUME BInv, Handler PROVE Drained'
  <1> USE DEF BInv
  <1>1. mode' = mode
    BY DEF Handler, ServiceError, Service, Test, Start, Stop, SwapIndex, SetLength, ResetOffset
  <1>2. SUFFICES ASSUME mode = "rx" PROVE Drained'
    BY <1>1 DEF Drained
  <1>3. /\ \A b \in Buffers : length[b] \in {0, Size}
        /\ length[1 - index] = readOffset[1 - index]
        /\ isr \in {"start", "swap", "setLength"} => length[index] = readOffset[index]
        /\ isr = "setOffset" => length[index] = Size
    BY <1>2 DEF Drained
  <1>4. /\ Size \in Nat \ {0} /\ index \in Buffers /\ 1 - index \in Buffers
        /\ 1 - index # index /\ 1 - (1 - index) = index
        /\ \A b \in Buffers : length[b] \in 0..Size /\ readOffset[b] \in 0..length[b]
        /\ DOMAIN length = Buffers /\ DOMAIN readOffset = Buffers
    BY Sizes DEF TypeOK, Offsets, Buffers
  <1>5. CASE ServiceError \/ Service \/ Stop
    <2>1. UNCHANGED double /\ isr' \in {"idle", "test"}
      BY <1>5 DEF ServiceError, Service, Stop
    <2> QED
      BY <1>3, <2>1 DEF Drained, double
  <1>6. CASE Test
    <2>1. UNCHANGED double /\ isr' \in {"start", "stop"}
          /\ (isr' = "start" => ~(available > 0))
      BY <1>2, <1>6 DEF Test
    <2>2. ~(available > 0) => length[index] = readOffset[index]
      BY <1>4 DEF available
    <2> QED
      BY <1>3, <2>1, <2>2 DEF Drained, double
  <1>7. CASE Start
    <2>1. UNCHANGED double /\ isr = "start" /\ isr' = "swap"
      BY <1>7 DEF Start
    <2> QED
      BY <1>3, <2>1 DEF Drained, double
  <1>8. CASE SwapIndex
    <2>1. /\ index' = 1 - index /\ isr = "swap" /\ isr' = "setLength"
          /\ UNCHANGED <<length, readOffset>>
      BY <1>8 DEF SwapIndex
    <2> QED
      BY <1>3, <1>4, <2>1 DEF Drained
  <1>9. CASE SetLength
    <2>1. /\ isr = "setLength" /\ isr' = "setOffset" /\ UNCHANGED <<index, readOffset>>
          /\ length' = [length EXCEPT ![index] = Size - availableIn(length, readOffset, 1 - index)]
      BY <1>2, <1>9 DEF SetLength
    <2>2. Size - availableIn(length, readOffset, 1 - index) = Size
      BY <1>3, <1>4 DEF availableIn
    <2>3. length' = [length EXCEPT ![index] = Size]
      BY <2>1, <2>2
    <2> QED
      BY <1>3, <1>4, <2>1, <2>3 DEF Drained
  <1>10. CASE ResetOffset
    <2>1. /\ isr' = "idle" /\ UNCHANGED <<index, length>>
          /\ readOffset' = [readOffset EXCEPT ![index] = 0]
      BY <1>10 DEF ResetOffset
    <2> QED
      BY <1>3, <1>4, <2>1 DEF Drained
  <1> QED
    BY <1>5, <1>6, <1>7, <1>8, <1>9, <1>10 DEF Handler

(* What a call of write does to the buffer in use.                          *)
LEMMA WriteTyped == ASSUME BInv, NEW n \in Width..MaxLen, Write(n) PROVE BInv'
  <1> USE DEF BInv
  <1>1. IInv' /\ Drained'
    BY WriteKeeps DEF Write, Drained
  <1>2. Size \in Nat \ {0} /\ Width \in Nat \ {0} /\ n \in Nat /\ MaxTx \in Nat
    BY Sizes, I2sAssumption
  <1>3. /\ index \in Buffers /\ \A b \in Buffers : length[b] \in 0..Size /\ readOffset[b] = 0
        /\ mode \in {"idle", "tx"} /\ mode' = "tx"
    BY DEF Write, TypeOK, Offsets
  <1> DEFINE w == IF n > availableForWrite THEN availableForWrite ELSE n
             l == length[index]
             len == [length EXCEPT ![index] = @ + w]
             buf == [buffer EXCEPT ![index] = [i \in 1..Size |->
                        IF i \in (l + 1)..(l + w) THEN written + i - l ELSE @[i]]]
             n1 == availableIn(len, readOffset, index)
  <1>4. w \in Nat /\ w <= n /\ l \in 0..Size /\ l + w \in 0..Size /\ written \in Nat
    <2>1. l \in 0..Size /\ readOffset[index] = 0 /\ written \in Nat
      BY <1>2, <1>3 DEF TypeOK
    <2>2. availableForWrite = Size - l
      BY <1>2, <2>1 DEF availableForWrite, available
    <2>3. w = IF n > Size - l THEN Size - l ELSE n
      BY <2>2
    <2> HIDE DEF w, l
    <2>4. QED
      BY <1>2, <2>1, <2>3
  <1>5. len \in [Buffers -> 0..Size] /\ n1 = l + w
    BY <1>2, <1>3, <1>4 DEF TypeOK, availableIn
  <1>6. /\ written' = written + w /\ buffer' = buf
        /\ \/ /\ ~progress /\ progress' = TRUE /\ Transfer(index, n1)
              /\ skipped' = skipped \cup OddBytes(buf, index, n1)
              /\ Swapped(len, readOffset, 0)
           \/ /\ length' = len
              /\ UNCHANGED <<progress, dma, skipped, index, readOffset>>
        /\ preempted' = (preempted \/ isr # "idle")
        /\ UNCHANGED <<isr, out, arrived, got, ends, failed, reread>>
    BY DEF Write, Called, rx
  <1> HIDE DEF len, buf, n1, w, l
  <1>7. buf \in [Buffers -> [1..Size -> Nat]]
    <2>1. \A b \in Buffers : buffer[b] \in [1..Size -> Nat]
      BY DEF TypeOK
    <2>2. \A i \in 1..Size : (IF i \in (l + 1)..(l + w) THEN written + i - l
                                                     ELSE buffer[index][i]) \in Nat
      <3>1. \A i \in 1..Size : buffer[index][i] \in Nat
        BY <1>3, <2>1
      <3>2. \A i \in 1..Size : i \in (l + 1)..(l + w) => written + i - l \in Nat
        BY <1>2, <1>4
      <3>3. QED
        BY <3>1, <3>2
    <2>3. [i \in 1..Size |-> IF i \in (l + 1)..(l + w) THEN written + i - l
                                                     ELSE buffer[index][i]] \in [1..Size -> Nat]
      BY <2>2
    <2>4. QED
      BY <1>3, <2>3 DEF buf, TypeOK
  <1>8. /\ written' \in 0..MaxTx /\ preempted' \in BOOLEAN
    BY <1>2, <1>4, <1>6 DEF Write, TypeOK
  <1>9. CASE UNCHANGED <<progress, dma, skipped, index, readOffset>> /\ length' = len
    <2>1. TypeOK'
      BY <1>3, <1>5, <1>6, <1>7, <1>8, <1>9 DEF TypeOK, dma
    <2>2. Offsets'
      BY <1>3, <1>5, <1>9 DEF Offsets
    <2>3. QED
      BY <1>1, <2>1, <2>2
  <1>10. CASE /\ ~progress /\ progress' = TRUE /\ Transfer(index, n1)
              /\ skipped' = skipped \cup OddBytes(buf, index, n1)
              /\ Swapped(len, readOffset, 0)
    <2>1. /\ valid' \in BOOLEAN /\ on' \in Buffers /\ left' \in 0..Beats /\ at' \in 0..Size
          /\ at' + Width * left' <= Size /\ tcmpl' = tcmpl /\ terr' = terr
      BY <1>3, <1>4, <1>5, <1>10, TransferTyped
    <2>2. /\ index' = 1 - index /\ index' \in Buffers
          /\ length' \in [Buffers -> 0..Size] /\ readOffset' \in [Buffers -> 0..Size]
          /\ \A b \in Buffers : readOffset'[b] = 0
      BY <1>2, <1>3, <1>5, <1>10 DEF Swapped, Buffers, TypeOK
    <2>3. skipped' \subseteq Nat
      <3>1. (l + w) % Width \in 0..Size
        BY <1>4, Sizes
      <3>2. OddBytes(buf, index, n1) \subseteq Nat
        BY <1>2, <1>3, <1>5, <1>7, <3>1 DEF OddBytes
      <3>3. QED
        BY <1>10, <3>2 DEF TypeOK
    <2>4. TypeOK'
      BY <1>3, <1>6, <1>7, <1>8, <1>10, <2>1, <2>2, <2>3 DEF TypeOK
    <2>5. Offsets'
      BY <1>3, <2>2 DEF Offsets
    <2>6. QED
      BY <1>1, <2>4, <2>5
  <1>11. QED
    BY <1>6, <1>9, <1>10

LEMMA Gathered ==
  ASSUME BInv, NEW r \in 0..available
  PROVE  /\ readOffset[index] \in 0..Size /\ length[index] \in 0..Size
         /\ available \in 0..Size /\ readOffset[index] + r \in 0..length[index]
         /\ SubSeq(buffer[index], readOffset[index] + 1, readOffset[index] + r) \in Seq(Nat)
         /\ Len(SubSeq(buffer[index], readOffset[index] + 1, readOffset[index] + r)) = r
         /\ \A i \in 1..r : SubSeq(buffer[index], readOffset[index] + 1,
                                   readOffset[index] + r)[i] = buffer[index][readOffset[index] + i]
  <1> USE DEF BInv
  <1> DEFINE o == readOffset[index]
             l == length[index]
  <1>1. o \in 0..Size /\ l \in 0..Size /\ o <= l /\ Size \in Nat
    BY Sizes DEF TypeOK, Offsets
  <1>2. available = l - o
    BY DEF available
  <1> HIDE DEF o, l
  <1>3. available \in 0..Size /\ o + r \in 0..l /\ r \in Nat
    BY <1>1, <1>2
  <1>4. o + 1 \in Int /\ o + r \in Int
    BY <1>1, <1>3
  <1>5. \A i \in (o + 1)..(o + r) : buffer[index][i] \in Nat
    <2>1. \A i \in (o + 1)..(o + r) : i \in 1..Size
      BY <1>1, <1>3
    <2>2. QED
      BY <2>1 DEF TypeOK
  <1>6. /\ SubSeq(buffer[index], o + 1, o + r) \in Seq(Nat)
        /\ Len(SubSeq(buffer[index], o + 1, o + r)) =
              IF o + 1 <= o + r THEN (o + r) - (o + 1) + 1 ELSE 0
        /\ \A i \in 1..((o + r) - (o + 1) + 1) :
              SubSeq(buffer[index], o + 1, o + r)[i] = buffer[index][(o + 1) + i - 1]
    BY <1>4, <1>5, SubSeqProperties
  <1>7. (o + r) - (o + 1) + 1 = r /\ (o + 1 <= o + r \/ r = 0)
    BY <1>1, <1>3
  <1>8. \A i \in 1..r : (o + 1) + i - 1 = o + i
    BY <1>1, <1>3
  <1>9. Len(SubSeq(buffer[index], o + 1, o + r)) = r
    BY <1>6, <1>7, <1>3
  <1>10. \A i \in 1..r : SubSeq(buffer[index], o + 1, o + r)[i] = buffer[index][o + i]
    BY <1>6, <1>7, <1>8
  <1>11. QED
    BY <1>1, <1>3, <1>6, <1>9, <1>10 DEF o, l

(* A read stays within what the buffer holds.                               *)
LEMMA ReadTyped == ASSUME BInv, NEW n \in 0..MaxLen, Read(n) PROVE BInv'
  <1> USE DEF BInv
  <1>1. IInv' /\ Drained'
    BY ReadKeeps, ReadDrained
  <1>2. Size \in Nat \ {0} /\ n \in Nat
    BY Sizes, I2sAssumption
  <1>3. /\ index \in Buffers /\ mode \in {"idle", "rx"} /\ mode' = "rx"
        /\ \A b \in Buffers : length[b] \in 0..Size /\ readOffset[b] \in 0..length[b]
    BY DEF Read, TypeOK, Offsets
  <1> DEFINE r == IF n > available THEN available ELSE n
             o == readOffset[index]
             off == [readOffset EXCEPT ![index] = @ + r]
  <1>4. available \in 0..Size
    BY <1>2, <1>3 DEF available
  <1>5. r \in 0..available
    BY <1>2, <1>4
  <1> HIDE DEF r
  <1>6. o + r \in 0..length[index] /\ SubSeq(buffer[index], o + 1, o + r) \in Seq(Nat)
    BY <1>5, Gathered
  <1>7. off \in [Buffers -> 0..Size] /\ \A b \in Buffers : off[b] <= length[b]
    BY SMTT(30), <1>2, <1>3, <1>6 DEF TypeOK
  <1>8. /\ got' = got \o SubSeq(buffer[index], o + 1, o + r)
        /\ \/ /\ ~progress /\ progress' = TRUE /\ Transfer(index, Size)
              /\ Swapped(length, off, 0)
           \/ readOffset' = off /\ UNCHANGED <<progress, dma, index, length>>
        /\ preempted' = (preempted \/ isr # "idle")
        /\ reread' = (reread \/ (isr = "setOffset" /\ r > 0))
        /\ UNCHANGED <<failed, buffer, isr, written, out, skipped, arrived, ends>>
    BY DEF Read, Called, r, tx
  <1> HIDE DEF off, o
  <1>9. got' \in Seq(Nat) /\ preempted' \in BOOLEAN /\ reread' \in BOOLEAN
    BY <1>6, <1>8, ConcatProperties DEF TypeOK
  <1>10. CASE readOffset' = off /\ UNCHANGED <<progress, dma, index, length>>
    <2>1. TypeOK'
      BY <1>3, <1>7, <1>8, <1>9, <1>10 DEF TypeOK, dma
    <2>2. Offsets'
      BY <1>3, <1>7, <1>10 DEF Offsets
    <2>3. QED
      BY <1>1, <2>1, <2>2
  <1>11. CASE ~progress /\ progress' = TRUE /\ Transfer(index, Size) /\ Swapped(length, off, 0)
    <2>1. /\ valid' \in BOOLEAN /\ on' \in Buffers /\ left' \in 0..Beats /\ at' \in 0..Size
          /\ at' + Width * left' <= Size /\ tcmpl' = tcmpl /\ terr' = terr
      <3>1. Size \in 0..Size
        BY <1>2
      <3>2. QED
        BY <1>3, <1>11, <3>1, TransferTyped
    <2>2. /\ index' = 1 - index /\ index' \in Buffers
          /\ length' = [length EXCEPT ![1 - index] = 0]
          /\ readOffset' = [off EXCEPT ![1 - index] = 0]
      BY <1>3, <1>11 DEF Swapped, Buffers
    <2>3. /\ length' \in [Buffers -> 0..Size] /\ readOffset' \in [Buffers -> 0..Size]
          /\ \A b \in Buffers : readOffset'[b] <= length'[b]
      <3>1. length' \in [Buffers -> 0..Size] /\ readOffset' \in [Buffers -> 0..Size]
        <4>1. 0 \in 0..Size /\ length \in [Buffers -> 0..Size]
          BY <1>2 DEF TypeOK
        <4>2. QED
          BY <1>7, <2>2, <4>1, ExceptTyped
      <3>2. ASSUME NEW b \in Buffers PROVE readOffset'[b] <= length'[b]
        <4>1. CASE b = 1 - index
          BY <1>7, <2>2, <4>1 DEF TypeOK
        <4>2. CASE b # 1 - index
          BY <1>7, <2>2, <4>2 DEF TypeOK
        <4>3. QED
          BY <4>1, <4>2
      <3>3. QED
        BY <3>1, <3>2
    <2>4. TypeOK'
      BY <1>3, <1>8, <1>9, <1>11, <2>1, <2>2, <2>3 DEF TypeOK
    <2>5. Offsets'
      BY <1>3, <2>3 DEF Offsets
    <2>6. QED
      BY <1>1, <2>4, <2>5
  <1>12. QED
    BY <1>8, <1>10, <1>11

(* One beat stays within the buffer of the transfer.                        *)
LEMMA BeatRoom ==
  ASSUME BInv, Moving
  PROVE  /\ at + Width \in 0..Size /\ left - 1 \in 0..Beats /\ left \in Nat
         /\ (at + Width) + Width * (left - 1) = at + Width * left
         /\ Width * (left - 1) >= 0 /\ at \in Nat
  <1>1. Width \in Nat \ {0} /\ Beats \in Nat /\ Size \in Nat
    BY Sizes
  <1>2. left \in 1..Beats /\ at \in 0..Size /\ at + Width * left <= Size
    BY <1>1 DEF BInv, TypeOK, Moving
  <1>3. (at + Width) + Width * (left - 1) = at + Width * left
    BY <1>1, <1>2
  <1>4. left - 1 \in Nat /\ Width * (left - 1) >= 0
    BY <1>1, <1>2
  <1>5. at + Width <= Size
    BY <1>1, <1>2, <1>3, <1>4
  <1>6. QED
    BY <1>1, <1>2, <1>3, <1>4, <1>5

LEMMA BeatTyped == ASSUME BInv, SendBeat \/ ReceiveBeat, IInv', Drained' PROVE BInv'
  <1> USE DEF BInv
  <1>1. Size \in Nat \ {0} /\ Width \in Nat \ {0} /\ MaxRx \in Nat
    BY Sizes, I2sAssumption
  <1>2. CASE SendBeat
    <2>1. /\ Moving /\ out' = out \o SubSeq(buffer[on], at + 1, at + Width)
          /\ at' = at + Width /\ left' = left - 1 /\ tcmpl' = (left = 1)
          /\ UNCHANGED <<mode, index, length, readOffset, buffer, progress, valid, on, terr, isr,
                         written, skipped, arrived, got, ends, failed, preempted, reread>>
      BY <1>2 DEF SendBeat, double, rx, history
    <2>2. /\ at' \in 0..Size /\ left' \in 0..Beats /\ at' + Width * left' <= Size
          /\ at + Width \in 0..Size /\ at \in Nat
      <3>1. at + Width * left <= Size
        BY DEF TypeOK
      <3>2. QED
        BY <2>1, <3>1, BeatRoom
    <2>3. out' \in Seq(Nat)
      <3>1. \A i \in (at + 1)..(at + Width) : buffer[on][i] \in Nat
        <4>1. \A i \in (at + 1)..(at + Width) : i \in 1..Size
          BY <1>1, <2>2
        <4>2. QED
          BY <4>1 DEF TypeOK
      <3>2. at + 1 \in Int /\ at + Width \in Int
        BY <1>1, <2>2
      <3>3. SubSeq(buffer[on], at + 1, at + Width) \in Seq(Nat)
        BY <3>1, <3>2, SubSeqProperties
      <3>4. QED
        BY <2>1, <3>3, ConcatProperties DEF TypeOK
    <2>4. TypeOK'
      BY <2>1, <2>2, <2>3 DEF TypeOK
    <2>5. Offsets'
      BY <2>1 DEF Offsets
    <2>6. QED
      BY <2>4, <2>5
  <1>3. CASE ReceiveBeat
    <2>1. /\ mode = "rx" /\ arrived' = arrived + Width /\ arrived + Width <= MaxRx
          /\ UNCHANGED <<mode, index, length, readOffset, progress, valid, on, terr, isr,
                         written, out, skipped, got, ends, failed, preempted, reread>>
      BY <1>3 DEF ReceiveBeat, tx, history
    <2>2. arrived' \in 0..MaxRx /\ arrived \in Nat
      BY <1>1, <2>1 DEF TypeOK
    <2>3. CASE Moving
      <3>1. /\ buffer' = [buffer EXCEPT ![on] = [i \in 1..Size |->
                             IF i \in (at + 1)..(at + Width) THEN arrived + i - at
                             ELSE buffer[on][i]]]
            /\ at' = at + Width /\ left' = left - 1 /\ tcmpl' = (left = 1)
        BY <1>3, <2>3 DEF ReceiveBeat
      <3>2. /\ at' \in 0..Size /\ left' \in 0..Beats /\ at' + Width * left' <= Size /\ at \in Nat
        <4>1. at + Width * left <= Size
          BY DEF TypeOK
        <4>2. QED
          BY <2>3, <3>1, <4>1, BeatRoom
      <3>3. buffer' \in [Buffers -> [1..Size -> Nat]]
        <4>1. on \in Buffers /\ \A i \in 1..Size : buffer[on][i] \in Nat
          BY DEF TypeOK
        <4>2. \A i \in 1..Size : i \in (at + 1)..(at + Width) => arrived + i - at \in Nat
          BY <1>1, <2>2, <3>2
        <4>3. [i \in 1..Size |-> IF i \in (at + 1)..(at + Width) THEN arrived + i - at
                                 ELSE buffer[on][i]] \in [1..Size -> Nat]
          BY <4>1, <4>2
        <4>4. QED
          BY <3>1, <4>1, <4>3 DEF TypeOK
      <3>4. TypeOK'
        BY <2>1, <2>2, <3>1, <3>2, <3>3 DEF TypeOK
      <3>5. Offsets'
        BY <2>1 DEF Offsets
      <3>6. QED
        BY <3>4, <3>5
    <2>4. CASE ~Moving
      <3>1. UNCHANGED <<buffer, at, left, tcmpl>>
        BY <1>3, <2>4 DEF ReceiveBeat
      <3>2. TypeOK'
        BY <2>1, <2>2, <3>1 DEF TypeOK
      <3>3. Offsets'
        BY <2>1 DEF Offsets
      <3>4. QED
        BY <3>2, <3>3
    <2>5. QED
      BY <2>3, <2>4
  <1>4. QED
    BY <1>2, <1>3

LEMMA HandlerTyped == ASSUME BInv, Handler, IInv', Drained' PROVE BInv'
  <1> USE DEF BInv
  <1>0. Size \in Nat \ {0} /\ index \in Buffers /\ available \in 0..Size
        /\ availableForWrite \in 0..Size
    <2>1. Size \in Nat \ {0} /\ index \in Buffers
      BY Sizes DEF TypeOK
    <2>2. length[index] \in 0..Size /\ readOffset[index] \in 0..Size
          /\ readOffset[index] <= length[index]
      BY <2>1 DEF TypeOK, Offsets
    <2>3. QED
      BY <2>1, <2>2 DEF available, availableForWrite
  <1>1. CASE ServiceError
    BY <1>1 DEF ServiceError, double, tx, rx, history, TypeOK, Offsets
  <1>2. CASE Service
    BY <1>2 DEF Service, double, tx, rx, history, TypeOK, Offsets
  <1>3. CASE Test
    BY <1>3 DEF Test, double, dma, tx, rx, history, TypeOK, Offsets
  <1>4. CASE Stop
    BY <1>4 DEF Stop, double, dma, tx, rx, history, TypeOK, Offsets
  <1>5. CASE Start
    <2> DEFINE n == IF mode = "tx" THEN available ELSE availableForWrite
    <2>1. /\ n \in 0..Size /\ Transfer(index, n) /\ isr = "start" /\ isr' = "swap"
          /\ skipped' = IF mode = "tx" THEN skipped \cup OddBytes(buffer, index, n) ELSE skipped
          /\ UNCHANGED <<mode, index, length, readOffset, buffer, progress, written, out,
                         arrived, got, ends, failed, preempted, reread>>
      BY <1>0, <1>5 DEF Start, double, rx, history
    <2> HIDE DEF n
    <2>2. /\ valid' \in BOOLEAN /\ on' \in Buffers /\ left' \in 0..Beats /\ at' \in 0..Size
          /\ at' + Width * left' <= Size /\ tcmpl' = tcmpl /\ terr' = terr
      BY <1>0, <2>1, TransferTyped
    <2>3. skipped' \subseteq Nat
      <3>1. n % Width \in 0..Size
        BY <2>1, Sizes
      <3>2. \A i \in 1..(n % Width) : buffer[index][i] \in Nat
        BY SMTT(30), <1>0, <3>1 DEF TypeOK
      <3>3. QED
        BY <2>1, <3>2 DEF TypeOK, OddBytes
    <2>4. TypeOK'
      BY <2>1, <2>2, <2>3 DEF TypeOK
    <2>5. progress
      BY <2>1 DEF IInv, Known
    <2>6. Offsets'
      BY <2>1, <2>5 DEF Offsets
    <2>7. QED
      BY <2>4, <2>6
  <1>6. CASE SwapIndex
    BY <1>0, <1>6 DEF SwapIndex, dma, tx, rx, history, TypeOK, Offsets, Buffers
  <1>7. CASE SetLength
    <2> DEFINE n == IF mode = "tx" THEN 0 ELSE Size - availableIn(length, readOffset, 1 - index)
    <2>1. n \in 0..Size
      <3>1. 1 - index \in Buffers
        BY <1>0 DEF Buffers
      <3>2. /\ length[1 - index] \in 0..Size /\ readOffset[1 - index] \in 0..Size
            /\ readOffset[1 - index] <= length[1 - index]
        BY <3>1 DEF TypeOK, Offsets
      <3> QED
        BY <1>0, <3>2 DEF availableIn
    <2>2. /\ isr = "setLength" /\ isr' = "setOffset" /\ length' = [length EXCEPT ![index] = n]
          /\ UNCHANGED <<mode, index, readOffset, buffer, progress, valid, on, at, left, tcmpl,
                         terr, written, out, skipped, arrived, got, ends, failed, preempted,
                         reread>>
      BY <1>7 DEF SetLength, dma, tx, rx, history
    <2> HIDE DEF n
    <2>3. length' \in [Buffers -> 0..Size]
      BY <1>0, <2>1, <2>2, ExceptTyped DEF TypeOK
    <2>4. TypeOK'
      BY <2>2, <2>3 DEF TypeOK
    <2>5. Offsets'
      <3>1. ASSUME NEW b \in Buffers
            PROVE readOffset'[b] <= length'[b] /\ (mode # "rx" => readOffset'[b] = 0)
        <4>1. CASE b = index /\ mode = "rx"
          <5>1. length'[b] = Size
            BY <2>2, <4>1 DEF Drained
          <5> QED
            BY <1>0, <2>2, <4>1, <5>1 DEF TypeOK
        <4>2. CASE b = index /\ mode # "rx"
          BY <1>0, <2>1, <2>2, <4>2 DEF TypeOK, Offsets
        <4>3. CASE b # index
          BY <2>2, <4>3 DEF TypeOK, Offsets
        <4> QED
          BY <4>1, <4>2, <4>3
      <3>2. progress
        BY <2>2 DEF IInv, Known
      <3> QED
        BY <2>2, <3>1, <3>2 DEF Offsets
    <2> QED
      BY <2>4, <2>5
  <1>8. CASE ResetOffset
    <2>1. /\ isr = "setOffset" /\ isr' = "idle"
          /\ readOffset' = [readOffset EXCEPT ![index] = 0]
          /\ UNCHANGED <<mode, index, length, buffer, progress, valid, on, at, left, tcmpl,
                         terr, written, out, skipped, arrived, got, ends, failed, preempted,
                         reread>>
      BY <1>8 DEF ResetOffset, dma, tx, rx, history
    <2>2. readOffset' \in [Buffers -> 0..Size]
      <3>1. 0 \in 0..Size
        BY <1>0
      <3> QED
        BY <1>0, <2>1, <3>1, ExceptTyped DEF TypeOK
    <2>3. TypeOK'
      BY <2>1, <2>2 DEF TypeOK
    <2>4. Offsets'
      <3>1. ASSUME NEW b \in Buffers
            PROVE readOffset'[b] <= length'[b] /\ (mode # "rx" => readOffset'[b] = 0)
        <4>1. CASE b = index
          BY <1>0, <2>1, <4>1 DEF TypeOK
        <4>2. CASE b # index
          BY <2>1, <4>2 DEF TypeOK, Offsets
        <4> QED
          BY <4>1, <4>2
      <3>2. progress
        BY <2>1 DEF IInv, Known
      <3> QED
        BY <2>1, <3>1, <3>2 DEF Offsets
    <2> QED
      BY <2>3, <2>4
  <1>9. QED
    BY <1>1, <1>2, <1>3, <1>4, <1>5, <1>6, <1>7, <1>8 DEF Handler

LEMMA EmptiedTyped ==
  /\ Emptied \in [Buffers -> [1..Size -> Nat]]
  /\ [b \in Buffers |-> 0] \in [Buffers -> 0..Size]
  <1>1. 0 \in 0..Size /\ [i \in 1..Size |-> 0] \in [1..Size -> Nat]
    BY Sizes
  <1>2. QED
    BY <1>1 DEF Emptied

LEMMA TypedInit == Init => BInv
  <1> SUFFICES ASSUME Init PROVE BInv
    OBVIOUS
  <1>1. IInv
    BY DEF Init, IInv, Typed, Known, Separate, Buffers
  <1>2. /\ Size \in Nat /\ Beats \in Nat /\ Width \in Nat /\ MaxTx \in Nat /\ MaxRx \in Nat
        /\ MaxEnds \in Nat
    BY Sizes, I2sAssumption
  <1>3. 0 + Width * 0 <= Size /\ 0 \in 0..Size /\ 0 \in 0..Beats
    BY <1>2
  <1>4. <<>> \in Seq(Nat)
    BY EmptySeq
  <1>5. TypeOK
    <2>1. /\ index \in Buffers /\ on \in Buffers /\ mode \in {"idle", "tx", "rx"}
          /\ progress \in BOOLEAN /\ valid \in BOOLEAN /\ tcmpl \in BOOLEAN /\ terr \in BOOLEAN
          /\ failed \in BOOLEAN /\ preempted \in BOOLEAN /\ reread \in BOOLEAN
          /\ isr \in {"idle", "test", "start", "swap", "setLength", "setOffset", "stop"}
          /\ skipped \subseteq Nat
      BY DEF Init, Buffers
    <2>2. written \in 0..MaxTx /\ arrived \in 0..MaxRx /\ ends \in 0..MaxEnds
      BY <1>2 DEF Init
    <2>3. /\ left \in 0..Beats /\ at \in 0..Size /\ at + Width * left <= Size
          /\ out \in Seq(Nat) /\ got \in Seq(Nat)
      BY <1>3, <1>4 DEF Init
    <2>4. /\ length \in [Buffers -> 0..Size] /\ readOffset \in [Buffers -> 0..Size]
          /\ buffer \in [Buffers -> [1..Size -> Nat]]
      BY EmptiedTyped DEF Init
    <2>5. QED
      BY <2>1, <2>2, <2>3, <2>4, Zenon DEF TypeOK
  <1>6. Offsets /\ Drained
    BY DEF Init, Offsets, Drained
  <1>7. QED
    BY <1>1, <1>5, <1>6 DEF BInv

LEMMA TypedNext == BInv /\ [Next]_vars => BInv'
  <1> SUFFICES ASSUME BInv, [Next]_vars PROVE BInv'
    OBVIOUS
  <1>0. IInv'
    BY HandOverNext DEF BInv
  <1>1. ASSUME NEW n \in Width..MaxLen, Write(n) PROVE BInv'
    BY <1>1, WriteTyped
  <1>2. ASSUME NEW n \in 0..MaxLen, Read(n) PROVE BInv'
    BY <1>2, ReadTyped
  <1>3. CASE SendBeat \/ ReceiveBeat
    <2>1. Drained'
      BY <1>3 DEF SendBeat, ReceiveBeat, double, BInv, Drained
    <2> QED
      BY <1>0, <1>3, <2>1, BeatTyped
  <1>4. CASE Handler
    BY <1>0, <1>4, HandlerTyped, HandlerDrained
  <1>5. CASE EndBegin
    <2>1. /\ mode' = "idle" /\ progress' = FALSE /\ index' = 0 /\ buffer' = Emptied
          /\ length' = [b \in Buffers |-> 0] /\ readOffset' = [b \in Buffers |-> 0]
          /\ valid' = FALSE /\ on' = 0 /\ at' = 0 /\ left' = 0 /\ failed' = FALSE
          /\ ends' = ends + 1 /\ ends < MaxEnds
          /\ skipped' = skipped \cup (1..written \ ToSet(out))
          /\ UNCHANGED <<tcmpl, terr, isr, written, out, arrived, got, preempted, reread>>
      BY <1>5 DEF EndBegin, rx
    <2>2. /\ Size \in Nat /\ Beats \in Nat /\ 0 + Width * 0 <= Size /\ MaxEnds \in Nat
          /\ written \in Nat
      BY Sizes, I2sAssumption DEF BInv, TypeOK
    <2>3. ends' \in 0..MaxEnds /\ skipped' \subseteq Nat
      <3>1. ends \in 0..MaxEnds /\ skipped \subseteq Nat /\ 1..written \subseteq Nat
        BY <2>2 DEF BInv, TypeOK
      <3>2. ends' \in 0..MaxEnds
        BY <2>1, <2>2, <3>1
      <3>3. skipped' \subseteq Nat
        BY <2>1, <3>1
      <3>4. QED
        BY <3>2, <3>3
    <2>4. TypeOK'
      <3>1. /\ length' \in [Buffers -> 0..Size] /\ readOffset' \in [Buffers -> 0..Size]
            /\ buffer' \in [Buffers -> [1..Size -> Nat]]
        BY <2>1, EmptiedTyped
      <3>2. /\ index' \in Buffers /\ on' \in Buffers /\ mode' \in {"idle", "tx", "rx"}
            /\ progress' \in BOOLEAN /\ valid' \in BOOLEAN /\ failed' \in BOOLEAN
        BY <2>1 DEF Buffers
      <3>3. left' \in 0..Beats /\ at' \in 0..Size /\ at' + Width * left' <= Size
        BY <2>1, <2>2
      <3>4. UNCHANGED <<tcmpl, terr, isr, written, out, arrived, got, preempted, reread>>
        BY <2>1
      <3>5. QED
        BY <2>3, <3>1, <3>2, <3>3, <3>4 DEF BInv, TypeOK
    <2>5. Offsets' /\ Drained'
      BY <2>1 DEF Offsets, Drained
    <2>6. QED
      BY <1>0, <2>4, <2>5 DEF BInv
  <1>6. CASE Error
    <2>1. /\ valid /\ terr' = TRUE /\ left' = 0 /\ failed' = TRUE
          /\ UNCHANGED <<mode, index, length, readOffset, buffer, progress, valid, on, at, tcmpl,
                         isr, written, out, skipped, arrived, got, ends, preempted,
                         reread>>
      BY <1>6 DEF Error, Moving, double, tx, rx
    <2>2. at + Width * 0 <= Size /\ 0 \in 0..Beats
      BY Sizes DEF BInv, TypeOK
    <2>3. TypeOK' /\ Offsets' /\ Drained'
      BY <2>1, <2>2 DEF BInv, TypeOK, Offsets, Drained
    <2>4. QED
      BY <1>0, <2>3 DEF BInv
  <1>7. CASE UNCHANGED vars
    <2>1. TypeOK' /\ Offsets' /\ Drained'
      BY <1>7 DEF vars, double, dma, tx, rx, history, BInv, TypeOK, Offsets, Drained
    <2>2. QED
      BY <1>0, <2>1 DEF BInv
  <1>8. QED
    BY <1>1, <1>2, <1>3, <1>4, <1>5, <1>6, <1>7 DEF Next

(* Neither the sketch nor the channel leaves its buffer, for every size of  *)
(* beat and buffer (I2SDoubleBuffer.cpp 51-130, DMA.cpp 176-197).           *)
THEOREM TypeCorrect == Spec => []TypeOK
<1>1. BInv => TypeOK
  BY DEF BInv
<1> QED
  BY <1>1, TypedInit, TypedNext, PTL DEF Spec

-----------------------------------------------------------------------------
(* The receiver.  The interrupt starts the next transfer only into a buffer *)
(* the sketch has drained, and stops only when there is something to read.  *)
ReceiverWaits ==
    /\ mode = "rx" /\ isr \in {"start", "swap"} => available = 0
    /\ mode = "rx" /\ isr = "stop" /\ ~preempted => available > 0
    /\ Restarts

LEMMA ReadWaits == ASSUME BInv, ReceiverWaits, NEW n \in 0..MaxLen, Read(n) PROVE ReceiverWaits'
  <1> USE DEF BInv, ReceiverWaits, Restarts
  <1> DEFINE r == IF n > available THEN available ELSE n
             o == readOffset[index]
             off == [readOffset EXCEPT ![index] = @ + r]
  <1>1. /\ index \in Buffers /\ available = length[index] - o /\ n \in Nat /\ Size \in Nat
        /\ length[index] \in 0..Size /\ o \in 0..length[index]
    BY Sizes, I2sAssumption DEF TypeOK, Offsets, available
  <1>2. availableIn(length, off, index) = available - r /\ r \in 0..available
    BY SMTT(30), <1>1 DEF availableIn, TypeOK
  <1>3. /\ isr' = isr /\ preempted' = (preempted \/ isr # "idle")
        /\ IF ~progress /\ availableIn(length, off, index) = 0
           THEN progress' = TRUE
           ELSE readOffset' = off /\ UNCHANGED <<progress, index, length>>
    BY DEF Read, Called
  <1>4. CASE ~progress /\ availableIn(length, off, index) = 0
    BY <1>3, <1>4 DEF IInv, Known, Typed
  <1>5. CASE ~(~progress /\ availableIn(length, off, index) = 0)
    <2>1. available' = available - r
      BY <1>2, <1>3, <1>5 DEF available, availableIn
    <2> HIDE DEF r, o, off
    <2>2. available \in Nat /\ available - r \in Nat
      BY <1>1, <1>2
    <2>3. mode \in {"idle", "rx"} /\ (mode = "idle" => ~progress)
      BY DEF Read, Offsets
    <2>4. isr \in {"start", "swap"} => available' = 0
      <3>1. isr \in {"start", "swap"} => available = 0
        BY <2>3 DEF IInv, Known
      <3>2. QED
        BY <1>2, <2>1, <2>2, <3>1
    <2>5. ~progress' => available' > 0
      BY <1>2, <1>3, <1>5, <2>1, <2>2
    <2>6. QED
      BY <1>3, <2>4, <2>5
  <1>6. QED
    BY <1>4, <1>5

LEMMA WaitsNext == BInv /\ ReceiverWaits /\ [Next]_vars => ReceiverWaits'
  <1> SUFFICES ASSUME BInv, ReceiverWaits, [Next]_vars PROVE ReceiverWaits'
    OBVIOUS
  <1>1. ASSUME NEW n \in 0..MaxLen, Read(n) PROVE ReceiverWaits'
    BY <1>1, ReadWaits
  <1> USE DEF ReceiverWaits, Restarts
  <1>2. ASSUME NEW n \in Width..MaxLen, Write(n) PROVE ReceiverWaits'
    BY <1>2 DEF Write
  <1>3. CASE EndBegin
    BY <1>3 DEF EndBegin
  <1>4. CASE SendBeat
    BY <1>4 DEF SendBeat
  <1>5. CASE ReceiveBeat
    <2>1. UNCHANGED <<mode, index, length, readOffset, progress, isr, preempted>>
      BY <1>5 DEF ReceiveBeat, history
    <2>2. QED
      BY <2>1 DEF available
  <1>6. CASE Error \/ ServiceError
    <2>1. UNCHANGED <<mode, index, length, readOffset, progress, isr, preempted>>
      BY <1>6 DEF Error, ServiceError, double, history
    <2>2. QED
      BY <2>1 DEF available
  <1>7. CASE Service
    <2>1. isr' = "test"
      BY <1>7 DEF Service
    <2>2. QED
      BY <2>1
  <1>8. CASE Test
    <2>1. /\ available' = available /\ mode' = mode
          /\ isr' = IF (mode = "tx") = (available > 0) THEN "start" ELSE "stop"
      BY <1>8 DEF Test, double, available
    <2>2. available \in 0..Size /\ Size \in Nat
      <3>1. /\ index \in Buffers /\ Size \in Nat /\ length[index] \in 0..Size
            /\ readOffset[index] \in 0..length[index]
        BY Sizes DEF BInv, TypeOK, Offsets
      <3>2. QED
        BY <3>1 DEF available
    <2>3. CASE mode = "rx" /\ available > 0
      BY <2>1, <2>3
    <2>4. CASE mode = "rx" /\ available = 0
      BY <2>1, <2>4
    <2>5. CASE mode # "rx"
      BY <2>1, <2>5
    <2>6. QED
      BY <2>2, <2>3, <2>4, <2>5
  <1>9. CASE Start
    <2>1. available' = available /\ mode' = mode /\ isr = "start" /\ isr' = "swap"
      BY <1>9 DEF Start, double, available
    <2>2. QED
      BY <2>1
  <1>10. CASE SwapIndex \/ SetLength \/ ResetOffset
    <2>1. /\ isr' \in {"setLength", "setOffset", "idle"} /\ progress' = progress
          /\ isr # "idle"
      BY <1>10 DEF SwapIndex, SetLength, ResetOffset
    <2>2. QED
      BY <2>1 DEF BInv, IInv, Known
  <1>11. CASE Stop
    <2>1. isr = "stop" /\ isr' = "idle" /\ UNCHANGED <<mode, available, preempted>>
      BY <1>11 DEF Stop, double, available, history
    <2>2. QED
      BY <2>1
  <1>12. CASE UNCHANGED vars
    <2>1. UNCHANGED <<mode, index, length, readOffset, progress, isr, preempted>>
      BY <1>12 DEF vars, double, history
    <2>2. QED
      BY <2>1 DEF available
  <1>13. QED
    BY <1>1, <1>2, <1>3, <1>4, <1>5, <1>6, <1>7, <1>8, <1>9, <1>10, <1>11, <1>12
    DEF Next, Handler

(* A receiver without a transfer always has data left to read, the call     *)
(* that reads the last of it starting the next transfer (I2S.cpp 321-329).  *)
THEOREM ReceiverRestarts == Spec => []Restarts
<1>1. Init => ReceiverWaits
  BY DEF Init, ReceiverWaits, Restarts
<1>2. ReceiverWaits => Restarts
  BY DEF ReceiverWaits
<1> QED
  BY <1>1, <1>2, TypedInit, TypedNext, WaitsNext, PTL DEF Spec

-----------------------------------------------------------------------------
(* The transmitter.  Until the swap that follows a transfer the interrupt   *)
(* started has emptied the buffer it changes to, everything is on its way.  *)
Accounted ==
    mode # "rx" /\ ~preempted /\ ~failed =>
      /\ 1..written \subseteq ToSet(out) \cup InDma \cup Buffered \cup skipped
      /\ isr \in {"swap", "setLength"} => 1..written \subseteq ToSet(out) \cup InDma \cup skipped

(* The channel takes every byte of the transfer but the odd ones.           *)
LEMMA TransferTakes ==
  ASSUME ~valid, NEW b, NEW n \in 0..Size, Transfer(b, n)
  PROVE  {buffer'[b][i] : i \in 1..n} \subseteq InDma' \cup OddBytes(buffer', b, n)
  <1>1. valid' = TRUE /\ on' = b /\ at' = n % Width /\ left' = n \div Width
    BY DEF Transfer
  <1>2. /\ n % Width \in Nat /\ n \div Width \in Nat /\ Width \in Nat \ {0} /\ n \in Nat
        /\ (n % Width) + Width * (n \div Width) = n
    BY Sizes
  <1>3. SUFFICES ASSUME NEW i \in 1..n, i \notin 1..(n % Width) PROVE buffer'[b][i] \in InDma'
    BY DEF OddBytes
  <1>4. i \in (at' + 1)..(at' + Width * left') /\ left' > 0
    BY <1>1, <1>2, <1>3
  <1>5. QED
    BY <1>1, <1>4 DEF InDma, Moving

\* A write, in the terms the proofs need.
WriteEffect(w) ==
    /\ index \in Buffers /\ length[index] \in 0..Size /\ length[index] + w \in 0..Size
    /\ written' = written + w /\ written \in Nat /\ w \in Nat
    /\ buffer' \in [Buffers -> [1..Size -> Nat]]
    /\ \A b \in Buffers : b # index => buffer'[b] = buffer[b]
    /\ \A i \in 1..length[index] : buffer'[index][i] = buffer[index][i]
    /\ \A i \in (length[index] + 1)..(length[index] + w) :
          buffer'[index][i] = written + (i - length[index])
    /\ \/ /\ ~progress /\ progress' = TRUE
          /\ Transfer(index, length[index] + w)
          /\ skipped' = skipped \cup OddBytes(buffer', index, length[index] + w)
          /\ index' = 1 - index /\ length'[1 - index] = 0
       \/ /\ length'[index] = length[index] + w
          /\ UNCHANGED <<progress, valid, on, at, left, tcmpl, terr, skipped, index, readOffset>>
    /\ UNCHANGED <<isr, out, arrived, got, ends, failed>>
    /\ preempted' = (preempted \/ isr # "idle")
    /\ mode \in {"idle", "tx"} /\ mode' = "tx"

LEMMA WriteDoes ==
  ASSUME BInv, NEW n \in Width..MaxLen, Write(n)
  PROVE  \E w \in 0..n : WriteEffect(w)
  <1> USE DEF BInv
  <1>2. Size \in Nat \ {0} /\ Width \in Nat \ {0} /\ n \in Nat /\ MaxTx \in Nat
    BY Sizes, I2sAssumption
  <1>3. /\ index \in Buffers /\ \A b \in Buffers : length[b] \in 0..Size /\ readOffset[b] = 0
        /\ mode \in {"idle", "tx"} /\ mode' = "tx"
    BY DEF Write, TypeOK, Offsets
  <1> DEFINE w == IF n > availableForWrite THEN availableForWrite ELSE n
             l == length[index]
             len == [length EXCEPT ![index] = @ + w]
             buf == [buffer EXCEPT ![index] = [i \in 1..Size |->
                        IF i \in (l + 1)..(l + w) THEN written + i - l ELSE @[i]]]
             n1 == availableIn(len, readOffset, index)
  <1>4. w \in 0..n /\ l \in 0..Size /\ l + w \in 0..Size /\ written \in Nat
    <2>1. l \in 0..Size /\ readOffset[index] = 0 /\ written \in Nat
      BY <1>2, <1>3 DEF TypeOK
    <2>2. availableForWrite = Size - l
      BY <1>2, <2>1 DEF availableForWrite, available
    <2>3. w = IF n > Size - l THEN Size - l ELSE n
      BY <2>2
    <2> HIDE DEF w, l
    <2>4. QED
      BY <1>2, <2>1, <2>3
  <1>5. n1 = l + w /\ len[index] = l + w
    BY <1>2, <1>3, <1>4 DEF TypeOK, availableIn
  <1>6. /\ written' = written + w /\ buffer' = buf
        /\ \/ /\ ~progress /\ progress' = TRUE /\ Transfer(index, n1)
              /\ skipped' = skipped \cup OddBytes(buf, index, n1)
              /\ Swapped(len, readOffset, 0)
           \/ /\ length' = len
              /\ UNCHANGED <<progress, dma, skipped, index, readOffset>>
        /\ preempted' = (preempted \/ isr # "idle")
        /\ UNCHANGED <<isr, out, arrived, got, ends, failed, reread>>
    BY DEF Write, Called, rx
  <1>7. len \in [Buffers -> Int]
    <2>1. length \in [Buffers -> Int] /\ length[index] + w \in Int
      BY <1>2, <1>4 DEF TypeOK
    <2>2. QED
      BY <2>1, ExceptTyped
  <1> HIDE DEF len, buf, n1, w
  <1>8. /\ buffer' \in [Buffers -> [1..Size -> Nat]]
        /\ \A b \in Buffers : b # index => buffer'[b] = buffer[b]
        /\ \A i \in 1..Size : buffer'[index][i] =
              IF i \in (l + 1)..(l + w) THEN written + i - l ELSE buffer[index][i]
    <2>1. buffer' \in [Buffers -> [1..Size -> Nat]]
      BY WriteTyped DEF TypeOK
    <2>2. QED
      BY <1>3, <1>6, <2>1 DEF buf, TypeOK
  <1>9. /\ \A i \in 1..l : buffer'[index][i] = buffer[index][i]
        /\ \A i \in (l + 1)..(l + w) : buffer'[index][i] = written + (i - l)
    <2>1. \A i \in 1..l : i \in 1..Size /\ i \notin (l + 1)..(l + w)
      BY <1>2, <1>4
    <2>2. \A i \in (l + 1)..(l + w) : i \in 1..Size /\ written + i - l = written + (i - l)
      BY <1>2, <1>4
    <2> HIDE DEF l
    <2>3. QED
      BY <1>8, <2>1, <2>2
  <1>10. Swapped(len, readOffset, 0) => index' = 1 - index /\ length'[1 - index] = 0
    BY <1>3, <1>7 DEF Swapped, Buffers
  <1>11. CASE /\ ~progress /\ progress' = TRUE /\ Transfer(index, n1)
              /\ skipped' = skipped \cup OddBytes(buf, index, n1)
              /\ Swapped(len, readOffset, 0)
    BY <1>3, <1>4, <1>5, <1>6, <1>8, <1>9, <1>10, <1>11, w \in Nat DEF WriteEffect
  <1>12. CASE length' = len /\ UNCHANGED <<progress, dma, skipped, index, readOffset>>
    BY <1>3, <1>4, <1>5, <1>6, <1>8, <1>9, <1>12 DEF WriteEffect, dma
  <1>13. QED
    BY <1>6, <1>11, <1>12

LEMMA WriteAccounted ==
  ASSUME BInv, Accounted, NEW n \in Width..MaxLen, Write(n) PROVE Accounted'
  <1> USE DEF BInv
  <1>1. PICK w \in 0..n : WriteEffect(w)
    BY WriteDoes
  <1> DEFINE l == length[index]
  <1>2. SUFFICES ASSUME ~preempted, ~failed, isr = "idle"
                 PROVE  1..written' \subseteq ToSet(out) \cup InDma' \cup Buffered' \cup skipped'
    BY <1>1 DEF WriteEffect, Accounted
  <1>3. /\ index \in Buffers /\ l \in 0..Size /\ l + w \in 0..Size /\ Size \in Nat /\ w \in Nat
        /\ written \in Nat /\ written' = written + w /\ out' = out /\ isr' = "idle"
        /\ \A b \in Buffers : readOffset[b] = 0
    BY <1>1, <1>2, Sizes DEF WriteEffect, Offsets
  <1>4. 1..written \subseteq ToSet(out) \cup InDma \cup Buffered \cup skipped
    BY <1>1, <1>2 DEF WriteEffect, Accounted
  <1>5. Buffered = {buffer'[index][i] : i \in 1..l}
    <2>1. readOffset[index] + 1 = 1
      BY <1>3
    <2>2. Buffered = {buffer[index][i] : i \in 1..l}
      BY <2>1 DEF Buffered
    <2>3. \A i \in 1..l : buffer'[index][i] = buffer[index][i]
      BY <1>1 DEF WriteEffect
    <2>4. QED
      BY <2>2, <2>3
  <1>6. \A x \in 1..written' : x \in 1..written \/ x \in {buffer'[index][i] : i \in 1..(l + w)}
    <2>1. SUFFICES ASSUME NEW x \in 1..written', x \notin 1..written
                   PROVE  x \in {buffer'[index][i] : i \in 1..(l + w)}
      OBVIOUS
    <2>2. /\ l + (x - written) \in (l + 1)..(l + w) /\ l + (x - written) \in 1..(l + w)
          /\ written + ((l + (x - written)) - l) = x
      BY <1>3, <2>1
    <2>3. buffer'[index][l + (x - written)] = x
      BY <1>1, <2>2 DEF WriteEffect
    <2>4. QED
      BY <2>2, <2>3
  <1>7. Buffered \subseteq {buffer'[index][i] : i \in 1..(l + w)}
    <2>1. \A i \in 1..l : i \in 1..(l + w)
      BY <1>3
    <2>2. QED
      BY <1>5, <2>1
  <1>8. CASE /\ ~progress /\ progress' = TRUE /\ Transfer(index, l + w)
             /\ skipped' = skipped \cup OddBytes(buffer', index, l + w)
             /\ index' = 1 - index /\ length'[1 - index] = 0
    <2>1. ~valid /\ InDma = {}
      BY <1>8 DEF IInv, Known, InDma, Moving
    <2>2. {buffer'[index][i] : i \in 1..(l + w)} \subseteq InDma' \cup skipped'
      BY <1>3, <1>8, <2>1, TransferTakes
    <2>3. QED
      BY <1>3, <1>4, <1>6, <1>7, <1>8, <2>1, <2>2
  <1>9. CASE /\ length'[index] = l + w
             /\ UNCHANGED <<progress, valid, on, at, left, tcmpl, terr, skipped, index, readOffset>>
    <2>1. InDma' = InDma
      <3>1. valid => on # index /\ on \in Buffers
        BY <1>2 DEF IInv, Separate, Typed
      <3>2. valid => buffer'[on] = buffer[on]
        BY <1>1, <3>1 DEF WriteEffect
      <3>3. Moving' = Moving
        BY <1>9 DEF Moving
      <3>4. CASE Moving
        BY <1>9, <3>2, <3>3, <3>4 DEF InDma, Moving
      <3>5. CASE ~Moving
        BY <3>3, <3>5 DEF InDma
      <3>6. QED
        BY <3>4, <3>5
    <2>2. Buffered' = {buffer'[index][i] : i \in 1..(l + w)}
      BY <1>3, <1>9 DEF Buffered
    <2>3. QED
      BY <1>3, <1>4, <1>6, <1>7, <1>9, <2>1, <2>2
  <1>10. QED
    BY <1>1, <1>8, <1>9 DEF WriteEffect

\* A beat of a transmission, in the terms the proofs need.
SendEffect ==
    /\ mode = "tx" /\ Moving /\ at' = at + Width /\ left' = left - 1
    /\ UNCHANGED <<mode, index, length, readOffset, buffer, valid, on, isr, written, skipped,
                   failed, preempted>>
    /\ at + Width \in 0..Size /\ left \in Nat /\ at \in Nat /\ Width \in Nat \ {0}
    /\ (at + Width) + Width * (left - 1) = at + Width * left
    /\ Size \in Nat /\ left > 0 /\ Width * (left - 1) >= 0
    /\ Len(out) \in Nat
    /\ DOMAIN out = 1..Len(out) /\ DOMAIN out' = 1..(Len(out) + Width)
    /\ \A i \in 1..Len(out) : out'[i] = out[i]
    /\ \A i \in 1..Width : out'[Len(out) + i] = buffer[on][at + i]

LEMMA SendDoes == ASSUME BInv, SendBeat PROVE SendEffect
  <1> USE DEF BInv
  <1>1. /\ mode = "tx" /\ Moving /\ out' = out \o SubSeq(buffer[on], at + 1, at + Width)
        /\ at' = at + Width /\ left' = left - 1
        /\ UNCHANGED <<mode, index, length, readOffset, buffer, valid, on, isr, written, skipped,
                       failed, preempted>>
    BY DEF SendBeat, double, history
  <1>2. /\ at + Width \in 0..Size /\ left \in Nat /\ at \in Nat /\ Width \in Nat \ {0}
        /\ (at + Width) + Width * (left - 1) = at + Width * left
        /\ Size \in Nat /\ left > 0 /\ Width * (left - 1) >= 0
    BY <1>1, BeatRoom, Sizes DEF Moving
  <1> DEFINE packet == SubSeq(buffer[on], at + 1, at + Width)
  <1>3. /\ packet \in Seq(Nat) /\ Len(packet) = Width
        /\ \A i \in 1..Width : packet[i] = buffer[on][at + i]
    <2>1. \A i \in (at + 1)..(at + Width) : buffer[on][i] \in Nat
      <3>1. \A i \in (at + 1)..(at + Width) : i \in 1..Size
        BY <1>2
      <3>2. QED
        BY <3>1 DEF TypeOK
    <2>2. at + 1 \in Int /\ at + Width \in Int
      BY <1>2
    <2>3. /\ packet \in Seq(Nat)
          /\ Len(packet) = IF at + 1 <= at + Width THEN (at + Width) - (at + 1) + 1 ELSE 0
          /\ \A i \in 1..((at + Width) - (at + 1) + 1) : packet[i] = buffer[on][(at + 1) + i - 1]
      BY <2>1, <2>2, SubSeqProperties
    <2>4. /\ (at + Width) - (at + 1) + 1 = Width /\ at + 1 <= at + Width
          /\ \A i \in 1..Width : (at + 1) + i - 1 = at + i
      BY <1>2
    <2>5. QED
      BY <2>3, <2>4
  <1> HIDE DEF packet
  <1>4. /\ out \in Seq(Nat) /\ out' \in Seq(Nat) /\ Len(out) \in Nat
        /\ Len(out') = Len(out) + Width
        /\ \A i \in 1..(Len(out) + Width) :
              out'[i] = IF i <= Len(out) THEN out[i] ELSE packet[i - Len(out)]
    <2>1. out \in Seq(Nat) /\ out' = out \o packet
      BY <1>1 DEF TypeOK, packet
    <2>2. Len(out) \in Nat
      BY <2>1, LenProperties
    <2>3. /\ out \o packet \in Seq(Nat) /\ Len(out \o packet) = Len(out) + Len(packet)
          /\ \A i \in 1..(Len(out) + Len(packet)) :
                (out \o packet)[i] = IF i <= Len(out) THEN out[i] ELSE packet[i - Len(out)]
      BY <1>3, <2>1, ConcatProperties
    <2>4. QED
      BY <1>3, <2>1, <2>2, <2>3
  <1>5. DOMAIN out = 1..Len(out) /\ DOMAIN out' = 1..(Len(out) + Width)
    BY <1>4, LenProperties
  <1>6. \A i \in 1..Len(out) : out'[i] = out[i]
    BY <1>2, <1>4
  <1>7. \A i \in 1..Width : out'[Len(out) + i] = buffer[on][at + i]
    <2>1. SUFFICES ASSUME NEW i \in 1..Width
                   PROVE  /\ Len(out) + i \in 1..(Len(out) + Width)
                          /\ out'[Len(out) + i] = buffer[on][at + i]
      OBVIOUS
    <2>2. /\ Len(out) + i \in 1..(Len(out) + Width) /\ ~(Len(out) + i <= Len(out))
          /\ (Len(out) + i) - Len(out) = i
      BY <1>2, <1>4, <2>1
    <2>3. out'[Len(out) + i] = packet[i]
      BY <1>4, <2>2
    <2>4. QED
      BY <1>3, <2>2, <2>3
  <1>8. QED
    BY <1>1, <1>2, <1>4, <1>5, <1>6, <1>7 DEF SendEffect

LEMMA BeatAccounted == ASSUME BInv, Accounted, SendBeat PROVE Accounted'
  <1>1. SendEffect
    BY SendDoes
  <1> USE DEF SendEffect
  <1>2. ToSet(out) \subseteq ToSet(out')
    <2>1. \A i \in 1..Len(out) : i \in 1..(Len(out) + Width)
      BY <1>1
    <2>2. QED
      BY <1>1, <2>1 DEF ToSet
  <1>3. \A i \in 1..Width : buffer[on][at + i] \in ToSet(out')
    <2>1. \A i \in 1..Width : Len(out) + i \in 1..(Len(out) + Width)
      BY <1>1
    <2>2. QED
      BY <1>1, <2>1 DEF ToSet
  <1>4. InDma \subseteq InDma' \cup ToSet(out')
    <2>1. SUFFICES ASSUME NEW p \in (at + 1)..(at + Width * left), p \notin (at + 1)..(at + Width)
                   PROVE  buffer[on][p] \in InDma'
      <3>1. \A p \in (at + 1)..(at + Width) : p - at \in 1..Width /\ at + (p - at) = p
        BY <1>1
      <3>2. \A p \in (at + 1)..(at + Width) : buffer[on][p] \in ToSet(out')
        BY <1>3, <3>1
      <3>3. QED
        BY <3>2 DEF InDma
    <2>2. p \in (at' + 1)..(at' + Width * left') /\ left' > 0
      BY <1>1, <2>1
    <2>3. QED
      BY <1>1, <2>2 DEF InDma, Moving
  <1>5. Buffered' = Buffered
    BY <1>1 DEF Buffered
  <1>6. QED
    BY <1>1, <1>2, <1>4, <1>5 DEF Accounted

LEMMA HandlerAccounted == ASSUME BInv, Accounted, Handler PROVE Accounted'
  <1> USE DEF BInv, Accounted
  <1>1. CASE ServiceError \/ Service
    <2>1. /\ valid' = FALSE /\ left = 0 /\ isr = "idle" /\ isr' \notin {"swap", "setLength"}
          /\ UNCHANGED <<mode, index, length, readOffset, buffer, written, out, skipped,
                         failed, preempted>>
      BY <1>1 DEF ServiceError, Service, double, tx, history, IInv, Known
    <2>2. Buffered' = Buffered /\ InDma = {} /\ InDma' = {}
      BY <2>1 DEF Buffered, InDma, Moving
    <2>3. QED
      BY <2>1, <2>2
  <1>2. CASE Test \/ Stop
    <2>1. /\ isr # "swap" /\ isr' \notin {"swap", "setLength"}
          /\ UNCHANGED <<mode, index, length, readOffset, buffer, written, out, skipped,
                         valid, on, at, left, failed, preempted>>
      BY <1>2 DEF Test, Stop, double, dma, tx, history, TypeOK
    <2>2. Buffered' = Buffered /\ InDma' = InDma
      BY <2>1 DEF Buffered, InDma, Moving
    <2>3. QED
      BY <2>1, <2>2
  <1>3. CASE Start /\ mode = "tx"
    <2>1. /\ Transfer(index, available) /\ isr = "start" /\ isr' = "swap"
          /\ skipped' = skipped \cup OddBytes(buffer, index, available)
          /\ UNCHANGED <<mode, index, length, readOffset, buffer, written, out, failed, preempted>>
      BY <1>3 DEF Start, double, history
    <2>2. /\ index \in Buffers /\ length[index] \in 0..Size /\ readOffset[index] = 0
          /\ Size \in Nat
      BY <1>3, Sizes DEF TypeOK, Offsets
    <2>3. available = length[index] /\ readOffset[index] + 1 = 1
      BY <2>2 DEF available
    <2>4. ~valid /\ InDma = {}
      BY <2>1 DEF IInv, Known, Typed, InDma, Moving
    <2>5. {buffer'[index][i] : i \in 1..length[index]} \subseteq InDma' \cup skipped'
      BY <2>1, <2>2, <2>3, <2>4, TransferTakes
    <2>6. Buffered = {buffer'[index][i] : i \in 1..length[index]} /\ Buffered' = Buffered
      BY <2>1, <2>3 DEF Buffered
    <2>7. QED
      BY <2>1, <2>4, <2>5, <2>6
  <1>4. CASE Start /\ mode # "tx"
    <2>1. isr = "start" /\ mode' = mode
      BY <1>4 DEF Start
    <2>2. mode = "rx"
      BY <1>4, <2>1 DEF IInv, Known, TypeOK, Offsets
    <2>3. QED
      BY <2>1, <2>2
  <1>5. CASE SwapIndex
    <2>1. /\ isr = "swap" /\ isr' = "setLength"
          /\ UNCHANGED <<mode, buffer, written, out, skipped, valid, on, at, left, failed, preempted>>
      BY <1>5 DEF SwapIndex, dma, tx, history
    <2>2. InDma' = InDma
      BY <2>1 DEF InDma, Moving
    <2>3. QED
      BY <2>1, <2>2
  <1>6. CASE SetLength
    <2>1. /\ isr = "setLength" /\ isr' = "setOffset"
          /\ UNCHANGED <<mode, buffer, written, out, skipped, valid, on, at, left, failed, preempted>>
      BY <1>6 DEF SetLength, dma, tx, history
    <2>2. InDma' = InDma
      BY <2>1 DEF InDma, Moving
    <2>3. QED
      BY <2>1, <2>2
  <1>7. CASE ResetOffset
    <2>1. /\ isr = "setOffset" /\ isr' = "idle"
          /\ UNCHANGED <<mode, index, length, buffer, written, out, skipped, valid, on, at, left,
                         failed, preempted>>
          /\ readOffset' = [readOffset EXCEPT ![index] = 0]
      BY <1>7 DEF ResetOffset, dma, tx, history
    <2>2. SUFFICES ASSUME mode # "rx" PROVE Accounted'
      BY <2>1
    <2>3. readOffset'[index'] = readOffset[index]
      BY <2>1, <2>2 DEF TypeOK, Offsets
    <2>4. InDma' = InDma /\ Buffered' = Buffered
      BY <2>1, <2>3 DEF InDma, Moving, Buffered
    <2>5. QED
      BY <2>1, <2>4
  <1>8. QED
    BY <1>1, <1>2, <1>3, <1>4, <1>5, <1>6, <1>7 DEF Handler

LEMMA AccountedNext == BInv /\ Accounted /\ [Next]_vars => Accounted'
  <1> SUFFICES ASSUME BInv, Accounted, [Next]_vars PROVE Accounted'
    OBVIOUS
  <1>1. ASSUME NEW n \in Width..MaxLen, Write(n) PROVE Accounted'
    BY <1>1, WriteAccounted
  <1>2. ASSUME NEW n \in 0..MaxLen, Read(n) PROVE Accounted'
    BY <1>2 DEF Read, Accounted
  <1>3. CASE EndBegin
    BY <1>3 DEF EndBegin, Accounted
  <1>4. CASE SendBeat
    BY <1>4, BeatAccounted
  <1>5. CASE ReceiveBeat
    BY <1>5 DEF ReceiveBeat, Accounted
  <1>6. CASE Error
    BY <1>6 DEF Error, Accounted
  <1>7. CASE Handler
    BY <1>7, HandlerAccounted
  <1>8. CASE UNCHANGED vars
    <2>1. UNCHANGED <<mode, index, length, readOffset, buffer, written, out, skipped, isr,
                     valid, on, at, left, failed, preempted>>
      BY <1>8 DEF vars, double, dma, tx, history
    <2>2. Buffered' = Buffered /\ InDma' = InDma
      BY <2>1 DEF Buffered, InDma, Moving
    <2>3. QED
      BY <2>1, <2>2 DEF Accounted
  <1>9. QED
    BY <1>1, <1>2, <1>3, <1>4, <1>5, <1>6, <1>7, <1>8 DEF Next

(* Every byte write accepted is sent, on its way or an odd byte, unless a   *)
(* transfer failed or a handler wrote within the interrupt (I2S.cpp 357-387 *)
(* and 480-497).                                                            *)
THEOREM AcceptedKept == Spec => []NothingLost
<1>1. Init => Accounted
  <2>1. Init => written = 0 /\ isr = "idle"
    BY DEF Init
  <2>2. 1..0 = {}
    OBVIOUS
  <2>3. QED
    BY <2>1, <2>2 DEF Accounted
<1>2. Accounted => NothingLost
  BY DEF Accounted, NothingLost
<1> QED
  BY <1>1, <1>2, TypedInit, TypedNext, AccountedNext, PTL DEF Spec

-----------------------------------------------------------------------------
(* The order of the samples that go out: those sent, those of the transfer, *)
(* those in the buffer in use, unless it is to be emptied.                  *)
Sending == IF Moving THEN (at + 1)..(at + Width * left) ELSE {}

Sent ==
    /\ \A i \in DOMAIN out : out[i] <= written
    /\ Increasing(out)

Chain ==
    /\ valid /\ isr = "swap" => at + Width * left <= length[index]
    /\ \A p \in Sending : buffer[on][p] <= written
    /\ \A p, q \in Sending : p < q => buffer[on][p] < buffer[on][q]
    /\ \A p \in Sending, i \in DOMAIN out : out[i] < buffer[on][p]
    /\ isr # "setLength" =>
          /\ \A q \in 1..length[index] : buffer[index][q] <= written
          /\ \A p, q \in 1..length[index] : p < q => buffer[index][p] < buffer[index][q]
    /\ isr \notin {"swap", "setLength"} =>
          /\ \A q \in 1..length[index], p \in Sending : buffer[on][p] < buffer[index][q]
          /\ \A q \in 1..length[index], i \in DOMAIN out : out[i] < buffer[index][q]

TxOrder == Sent /\ (mode = "tx" => Chain)

LEMMA OrderTypes ==
  ASSUME BInv
  PROVE  /\ Size \in Nat /\ Width \in Nat \ {0} /\ written \in Nat /\ at \in Nat /\ left \in Nat
         /\ index \in Buffers /\ on \in Buffers /\ length[index] \in 0..Size
         /\ \A i \in DOMAIN out : out[i] \in Nat
         /\ \A b \in Buffers, p \in 1..Size : buffer[b][p] \in Nat
         /\ \A p \in Sending : p \in 1..Size
         /\ Sending # {} => valid
  <1> USE DEF BInv
  <1>1. /\ Size \in Nat /\ Width \in Nat \ {0} /\ written \in Nat /\ at \in Nat /\ left \in Nat
        /\ index \in Buffers /\ on \in Buffers /\ length[index] \in 0..Size
        /\ at + Width * left <= Size
    BY Sizes, I2sAssumption DEF TypeOK
  <1>2. \A i \in DOMAIN out : out[i] \in Nat
    BY LenProperties DEF TypeOK
  <1>3. \A b \in Buffers, p \in 1..Size : buffer[b][p] \in Nat
    BY DEF TypeOK
  <1>4. Width * left \in Nat
    BY <1>1
  <1>5. \A p \in (at + 1)..(at + Width * left) : p \in 1..Size
    BY <1>1, <1>4
  <1>6. \A p \in Sending : p \in 1..Size
    BY <1>5 DEF Sending
  <1>7. Sending # {} => valid
    BY DEF Sending, Moving
  <1>8. QED
    BY <1>1, <1>2, <1>3, <1>6, <1>7

LEMMA SendOrder == ASSUME BInv, TxOrder, SendBeat PROVE TxOrder'
  <1>1. SendEffect
    BY SendDoes
  <1>2. /\ \A i \in DOMAIN out : out[i] \in Nat /\ written \in Nat
        /\ \A b \in Buffers, p \in 1..Size : buffer[b][p] \in Nat
        /\ on \in Buffers /\ index \in Buffers /\ length[index] \in 0..Size
        /\ \A p \in Sending : p \in 1..Size
    BY OrderTypes
  <1>3. Chain /\ Sent
    BY <1>1 DEF TxOrder, SendEffect
  <1>4. Sending = (at + 1)..(at + Width * left)
    BY <1>1 DEF Sending, SendEffect
  <1>5. \A i \in 1..Width : at + i \in Sending
    BY <1>1, <1>4 DEF SendEffect
  <1>6. \A p \in Sending' : p \in Sending /\ p > at + Width
    BY <1>1, <1>4 DEF Sending, SendEffect
  <1>7. \A i \in DOMAIN out' : \/ i \in DOMAIN out /\ out'[i] = out[i]
                              \/ /\ i - Len(out) \in 1..Width
                                 /\ out'[i] = buffer[on][at + (i - Len(out))]
    <2>1. SUFFICES ASSUME NEW i \in DOMAIN out', i \notin DOMAIN out
                   PROVE  /\ i - Len(out) \in 1..Width
                          /\ out'[i] = buffer[on][at + (i - Len(out))]
      BY <1>1 DEF SendEffect
    <2>2. i - Len(out) \in 1..Width /\ Len(out) + (i - Len(out)) = i
      BY <1>1, <2>1 DEF SendEffect
    <2>3. out'[Len(out) + (i - Len(out))] = buffer[on][at + (i - Len(out))]
      BY <1>1, <2>2 DEF SendEffect
    <2>4. QED
      BY <2>2, <2>3
  <1>8. \A i \in DOMAIN out' :
          \/ i \in DOMAIN out /\ out'[i] = out[i]
          \/ \E p \in Sending : p <= at + Width /\ out'[i] = buffer[on][p]
    <2>1. SUFFICES ASSUME NEW i \in DOMAIN out', i - Len(out) \in 1..Width,
                          out'[i] = buffer[on][at + (i - Len(out))]
                   PROVE  \E p \in Sending : p <= at + Width /\ out'[i] = buffer[on][p]
      BY <1>7
    <2>2. at + (i - Len(out)) \in Sending
      BY <1>5, <2>1
    <2>3. at \in Nat /\ Width \in Nat
      BY <1>1 DEF SendEffect
    <2>4. \A k \in 1..Width : at + k <= at + Width
      BY <2>3
    <2>5. at + (i - Len(out)) <= at + Width
      BY <2>1, <2>4
    <2>6. QED
      BY <2>1, <2>2, <2>5
  <1>9. Sent'
    <2>1. \A i \in DOMAIN out' : out'[i] <= written'
      BY <1>1, <1>3, <1>8 DEF SendEffect, Sent, Chain
    <2>2. ASSUME NEW i \in DOMAIN out', NEW j \in DOMAIN out', i < j
          PROVE  out'[i] < out'[j]
      <3>1. CASE i \in DOMAIN out /\ j \in DOMAIN out
        BY <1>1, <1>3, <2>2, <3>1 DEF SendEffect, Sent, Increasing
      <3>2. CASE i \in DOMAIN out /\ j \notin DOMAIN out
        <4>1. PICK p \in Sending : out'[j] = buffer[on][p]
          BY <1>8, <3>2
        <4>2. QED
          BY <1>1, <1>3, <3>2, <4>1 DEF SendEffect, Chain
      <3>3. CASE i \notin DOMAIN out
        <4>1. j \notin DOMAIN out /\ i \in Nat /\ j \in Nat
          BY <1>1, <2>2, <3>3 DEF SendEffect
        <4>2. /\ i - Len(out) \in 1..Width /\ out'[i] = buffer[on][at + (i - Len(out))]
              /\ j - Len(out) \in 1..Width /\ out'[j] = buffer[on][at + (j - Len(out))]
          BY <1>7, <3>3, <4>1
        <4>3. at + (i - Len(out)) \in Sending /\ at + (j - Len(out)) \in Sending
          BY <1>5, <4>2
        <4>4. at + (i - Len(out)) < at + (j - Len(out))
          <5>1. at \in Nat /\ Len(out) \in Nat
            BY <1>1 DEF SendEffect
          <5>2. QED
            BY <2>2, <4>1, <5>1
        <4>5. QED
          BY <1>3, <4>2, <4>3, <4>4 DEF Chain
      <3>4. QED
        BY <3>1, <3>2, <3>3
    <2>3. QED
      BY <2>1, <2>2 DEF Sent, Increasing
  <1>10. Chain'
    <2>1. \A p \in Sending', i \in DOMAIN out' : out'[i] < buffer'[on'][p]
      <3>1. SUFFICES ASSUME NEW p \in Sending', NEW i \in DOMAIN out'
                     PROVE  out'[i] < buffer[on][p]
        BY <1>1 DEF SendEffect
      <3>2. CASE i \in DOMAIN out
        BY <1>1, <1>3, <1>6, <3>1, <3>2 DEF SendEffect, Chain
      <3>3. CASE i \notin DOMAIN out
        <4>1. PICK q \in Sending : q <= at + Width /\ out'[i] = buffer[on][q]
          BY <1>8, <3>3
        <4>2. p \in Sending /\ q < p
          BY <1>1, <1>2, <1>6, <4>1 DEF SendEffect
        <4>3. QED
          BY <1>3, <4>1, <4>2 DEF Chain
      <3>4. QED
        BY <3>2, <3>3
    <2>2. isr \notin {"swap", "setLength"} =>
              \A q \in 1..length[index], i \in DOMAIN out' : out'[i] < buffer[index][q]
      <3>1. SUFFICES ASSUME isr \notin {"swap", "setLength"}, NEW q \in 1..length[index],
                            NEW i \in DOMAIN out'
                     PROVE  out'[i] < buffer[index][q]
        OBVIOUS
      <3>2. CASE i \in DOMAIN out
        BY <1>1, <1>3, <3>1, <3>2 DEF SendEffect, Chain
      <3>3. CASE i \notin DOMAIN out
        BY <1>3, <1>8, <3>1, <3>3 DEF Chain
      <3>4. QED
        BY <3>2, <3>3
    <2>3. at' + Width * left' = at + Width * left
      BY <1>1 DEF SendEffect
    <2>4. QED
      BY <1>1, <1>3, <1>6, <2>1, <2>2, <2>3 DEF Chain, SendEffect
  <1>11. QED
    BY <1>9, <1>10 DEF TxOrder

LEMMA Positions ==
  ASSUME NEW a \in Nat, NEW m \in Nat
  PROVE  (a + 1)..m \subseteq 1..m
  OBVIOUS

LEMMA WriteOrder == ASSUME BInv, TxOrder, NEW n \in Width..MaxLen, Write(n) PROVE TxOrder'
  <1>1. PICK w \in 0..n : WriteEffect(w)
    BY WriteDoes
  <1> DEFINE l == length[index]
  <1>2. /\ \A i \in DOMAIN out : out[i] \in Nat
        /\ \A b \in Buffers, p \in 1..Size : buffer[b][p] \in Nat
        /\ on \in Buffers /\ index \in Buffers /\ \A p \in Sending : p \in 1..Size
        /\ at \in Nat /\ left \in Nat /\ Width \in Nat \ {0} /\ Size \in Nat
    BY OrderTypes
  <1>3. /\ l \in 0..Size /\ l + w \in 0..Size /\ w \in Nat /\ written \in Nat /\ written' = written + w
        /\ out' = out /\ isr' = isr
    BY <1>1 DEF WriteEffect
  <1>4. Sent'
    BY <1>2, <1>3 DEF TxOrder, Sent, Increasing
  <1>5. /\ \A p \in Sending : buffer[on][p] <= written
        /\ \A p, q \in Sending : p < q => buffer[on][p] < buffer[on][q]
        /\ \A p \in Sending, i \in DOMAIN out : out[i] < buffer[on][p]
        /\ isr # "setLength" =>
              /\ \A q \in 1..l : buffer[index][q] <= written
              /\ \A p, q \in 1..l : p < q => buffer[index][p] < buffer[index][q]
        /\ isr \notin {"swap", "setLength"} =>
              /\ \A q \in 1..l, p \in Sending : buffer[on][p] < buffer[index][q]
              /\ \A q \in 1..l, i \in DOMAIN out : out[i] < buffer[index][q]
        /\ valid /\ isr = "swap" => at + Width * left <= l
    <2>1. CASE mode = "tx"
      BY <2>1 DEF TxOrder, Chain
    <2>2. CASE mode = "idle"
      <3>1. Sending = {} /\ 1..l = {} /\ ~valid
        BY <2>2 DEF BInv, Offsets, Sending, Moving, TypeOK
      <3>2. QED
        BY <3>1
    <2>3. QED
      BY <1>1, <2>1, <2>2 DEF WriteEffect
  <1>6. \A q \in 1..(l + w) :
          (q \in 1..l /\ buffer'[index][q] = buffer[index][q])
          \/ (q > l /\ buffer'[index][q] = written + (q - l))
    <2>1. \A q \in 1..(l + w) : q \in 1..l \/ (q > l /\ q \in (l + 1)..(l + w))
      BY <1>3
    <2>2. QED
      BY <1>1, <2>1 DEF WriteEffect
  <1>7. \A p \in Sending : buffer'[on][p] = buffer[on][p]
    <2>1. SUFFICES ASSUME NEW p \in Sending, on = index PROVE buffer'[on][p] = buffer[on][p]
      BY <1>1, <1>2 DEF WriteEffect
    <2>2. valid /\ isr = "swap"
      BY <2>1, OrderTypes DEF BInv, IInv, Known, Separate, Typed
    <2>3. p \in (at + 1)..(at + Width * left)
      BY <2>1 DEF Sending
    <2>4. p \in 1..l
      BY <1>2, <1>3, <1>5, <2>2, <2>3
    <2>5. QED
      BY <1>1, <2>1, <2>4 DEF WriteEffect
  <1>8. /\ isr # "setLength" =>
              /\ \A q \in 1..(l + w) : buffer'[index][q] <= written'
              /\ \A p, q \in 1..(l + w) : p < q => buffer'[index][p] < buffer'[index][q]
        /\ isr \notin {"swap", "setLength"} =>
              /\ \A q \in 1..(l + w), p \in Sending : buffer[on][p] < buffer'[index][q]
              /\ \A q \in 1..(l + w), i \in DOMAIN out : out[i] < buffer'[index][q]
    <2>1. isr # "setLength" => \A q \in 1..(l + w) : buffer'[index][q] <= written'
      BY <1>2, <1>3, <1>5, <1>6
    <2>2. ASSUME isr # "setLength", NEW p \in 1..(l + w), NEW q \in 1..(l + w), p < q
          PROVE  buffer'[index][p] < buffer'[index][q]
      <3>1. CASE q \in 1..l
        BY <1>3, <1>5, <1>6, <2>2, <3>1
      <3>2. CASE q > l
        BY <1>2, <1>3, <1>5, <1>6, <2>2, <3>2
      <3>3. QED
        BY <1>3, <2>2, <3>1, <3>2
    <2>3. ASSUME isr \notin {"swap", "setLength"}, NEW q \in 1..(l + w), NEW p \in Sending
          PROVE  buffer[on][p] < buffer'[index][q]
      BY <1>2, <1>3, <1>5, <1>6, <2>3
    <2>4. ASSUME isr \notin {"swap", "setLength"}, NEW q \in 1..(l + w), NEW i \in DOMAIN out
          PROVE  out[i] < buffer'[index][q]
      BY <1>2, <1>3, <1>5, <1>6, <2>4 DEF TxOrder, Sent
    <2>5. QED
      BY <2>1, <2>2, <2>3, <2>4
  <1>9. CASE /\ ~progress /\ progress' = TRUE /\ Transfer(index, l + w)
             /\ skipped' = skipped \cup OddBytes(buffer', index, l + w)
             /\ index' = 1 - index /\ length'[1 - index] = 0
    <2>1. ~valid /\ isr = "idle"
      BY <1>9 DEF BInv, IInv, Known
    <2>2. /\ on' = index /\ at' = (l + w) % Width /\ left' = (l + w) \div Width
          /\ length'[index'] = 0 /\ isr' = "idle"
      BY <1>3, <1>9, <2>1 DEF Transfer
    <2>3. /\ at' \in Nat /\ left' \in Nat /\ at' + Width * left' = l + w
      BY <1>3, <2>2, Sizes
    <2>4. \A p \in Sending' : p \in 1..(l + w)
      <3>1. Sending' \subseteq (at' + 1)..(l + w)
        BY <2>3 DEF Sending
      <3>2. (at' + 1)..(l + w) \subseteq 1..(l + w)
        BY <1>3, <2>3, Positions
      <3>3. QED
        BY <3>1, <3>2
    <2>5. QED
      BY <1>3, <1>4, <1>8, <2>1, <2>2, <2>4 DEF TxOrder, Chain
  <1>10. CASE /\ length'[index] = l + w
              /\ UNCHANGED <<progress, valid, on, at, left, tcmpl, terr, skipped, index, readOffset>>
    <2>1. Sending' = Sending
      BY <1>10 DEF Sending, Moving
    <2>2. valid' /\ isr' = "swap" => at' + Width * left' <= length'[index']
      <3>1. SUFFICES ASSUME valid, isr = "swap" PROVE at + Width * left <= l + w
        BY <1>3, <1>10
      <3>2. at + Width * left <= l /\ at + Width * left \in Nat
        BY <1>2, <1>5, <3>1
      <3>3. QED
        BY <1>3, <3>2
    <2>3. \A p \in Sending : buffer'[on][p] <= written'
      BY <1>2, <1>3, <1>5, <1>7
    <2>4. QED
      BY <1>3, <1>4, <1>5, <1>7, <1>8, <1>10, <2>1, <2>2, <2>3 DEF TxOrder, Chain
  <1>11. QED
    BY <1>1, <1>9, <1>10 DEF WriteEffect

LEMMA HandlerOrder == ASSUME BInv, TxOrder, Handler PROVE TxOrder'
  <1>0. UNCHANGED <<mode, buffer, out, written>>
    BY DEF Handler, ServiceError, Service, Test, Start, SwapIndex, SetLength, ResetOffset,
           Stop, double, tx
  <1>1. Sent'
    BY <1>0 DEF TxOrder, Sent, Increasing
  <1>2. SUFFICES ASSUME mode = "tx", Chain PROVE Chain'
    BY <1>0, <1>1 DEF TxOrder
  <1>3. CASE ServiceError \/ Service
    <2>1. /\ valid' = FALSE /\ isr = "idle" /\ UNCHANGED <<index, length>>
      BY <1>3 DEF ServiceError, Service, double
    <2>2. Sending' = {}
      BY <2>1 DEF Sending, Moving
    <2>3. QED
      BY <1>0, <1>2, <2>1, <2>2 DEF Chain
  <1>4. CASE Test \/ Stop
    <2>1. isr \in {"test", "stop"} /\ ~valid /\ UNCHANGED <<index, length, valid>>
      BY <1>4 DEF Test, Stop, double, dma, BInv, IInv, Known
    <2>2. Sending' = {}
      BY <2>1 DEF Sending, Moving, BInv, TypeOK
    <2>3. QED
      BY <1>0, <1>2, <2>1, <2>2 DEF Chain
  <1>5. CASE Start
    <2>1. /\ Transfer(index, available) /\ isr = "start" /\ isr' = "swap" /\ ~valid
          /\ UNCHANGED <<index, length>>
      BY <1>2, <1>5 DEF Start, double, BInv, IInv, Known
    <2>2. available = length[index] /\ length[index] \in 0..Size
      BY <1>2 DEF available, BInv, Offsets, TypeOK
    <2>3. /\ on' = index /\ at' \in Nat /\ left' \in Nat
          /\ at' + Width * left' = length[index] /\ length[index] \in Nat
      <3>1. on' = index /\ at' = length[index] % Width /\ left' = length[index] \div Width
        BY <2>1, <2>2 DEF Transfer
      <3>2. /\ length[index] % Width \in 0..Size /\ length[index] \div Width \in 0..Beats
            /\ (length[index] % Width) + Width * (length[index] \div Width) = length[index]
        BY <2>2, Sizes
      <3>3. Size \in Nat /\ Beats \in Nat
        BY Sizes
      <3>4. QED
        BY <2>2, <3>1, <3>2, <3>3
    <2>4. \A p \in Sending' : p \in 1..length[index]
      <3>1. Sending' \subseteq (at' + 1)..length[index]
        BY <2>3 DEF Sending
      <3>2. (at' + 1)..length[index] \subseteq 1..length[index]
        BY <2>3, Positions
      <3>3. QED
        BY <3>1, <3>2
    <2>5. valid' /\ isr' = "swap" => at' + Width * left' <= length'[index']
      BY <2>1, <2>3
    <2>6. QED
      BY <1>0, <1>2, <2>1, <2>3, <2>4, <2>5 DEF Chain
  <1>6. CASE SwapIndex
    <2>1. isr' = "setLength" /\ UNCHANGED <<valid, on, at, left>>
      BY <1>6 DEF SwapIndex, dma
    <2>2. Sending' = Sending
      BY <2>1 DEF Sending, Moving
    <2>3. QED
      BY <1>0, <1>2, <2>1, <2>2 DEF Chain
  <1>7. CASE SetLength
    <2>1. /\ isr = "setLength" /\ isr' = "setOffset" /\ UNCHANGED <<index, valid, on, at, left>>
          /\ length' = [length EXCEPT ![index] = 0]
      BY <1>2, <1>7 DEF SetLength, dma
    <2>2. length'[index'] = 0 /\ Sending' = Sending
      BY <2>1 DEF Sending, Moving, BInv, TypeOK
    <2>3. QED
      BY <1>0, <1>2, <2>1, <2>2 DEF Chain
  <1>8. CASE ResetOffset
    <2>1. isr = "setOffset" /\ isr' = "idle" /\ UNCHANGED <<index, length, valid, on, at, left>>
      BY <1>8 DEF ResetOffset, dma
    <2>2. Sending' = Sending
      BY <2>1 DEF Sending, Moving
    <2>3. QED
      BY <1>0, <1>2, <2>1, <2>2 DEF Chain
  <1>9. QED
    BY <1>3, <1>4, <1>5, <1>6, <1>7, <1>8 DEF Handler

LEMMA TxOrderNext == BInv /\ TxOrder /\ [Next]_vars => TxOrder'
  <1> SUFFICES ASSUME BInv, TxOrder, [Next]_vars PROVE TxOrder'
    OBVIOUS
  <1>1. ASSUME NEW n \in Width..MaxLen, Write(n) PROVE TxOrder'
    BY <1>1, WriteOrder
  <1>2. ASSUME NEW n \in 0..MaxLen, Read(n) PROVE TxOrder'
    BY <1>2 DEF Read, tx, TxOrder, Sent, Increasing
  <1>3. CASE EndBegin
    BY <1>3 DEF EndBegin, TxOrder, Sent, Increasing
  <1>4. CASE SendBeat
    BY <1>4, SendOrder
  <1>5. CASE ReceiveBeat
    BY <1>5 DEF ReceiveBeat, tx, TxOrder, Sent, Increasing
  <1>6. CASE Error
    <2>1. left' = 0 /\ UNCHANGED <<mode, index, length, buffer, out, written, isr, valid, on, at>>
      BY <1>6 DEF Error, double, tx
    <2>2. Sending' = {}
      BY <2>1 DEF Sending, Moving
    <2>3. Sent'
      BY <2>1 DEF TxOrder, Sent, Increasing
    <2>4. mode = "tx" => Chain'
      <3>1. SUFFICES ASSUME Chain PROVE Chain'
        BY DEF TxOrder
      <3>2. valid' /\ isr' = "swap" => at' + Width * left' <= length'[index']
        <4>1. valid /\ isr = "swap" => at + Width * left <= length[index]
          BY <3>1 DEF Chain
        <4>2. Width * left >= 0 /\ Width * 0 = 0 /\ Width * left \in Nat
          BY OrderTypes
        <4>3. at \in Nat /\ length[index] \in Nat
          BY OrderTypes
        <4>4. QED
          BY <2>1, <4>1, <4>2, <4>3
      <3>3. QED
        BY <2>1, <2>2, <3>1, <3>2 DEF Chain
    <2>5. QED
      BY <2>1, <2>3, <2>4 DEF TxOrder
  <1>7. CASE Handler
    BY <1>7, HandlerOrder
  <1>8. CASE UNCHANGED vars
    <2>1. UNCHANGED <<mode, index, length, buffer, out, written, isr, valid, on, at, left>>
      BY <1>8 DEF vars, double, dma, tx
    <2>2. Sending' = Sending
      BY <2>1 DEF Sending, Moving
    <2>3. QED
      BY <2>1, <2>2 DEF TxOrder, Sent, Chain, Increasing
  <1>9. QED
    BY <1>1, <1>2, <1>3, <1>4, <1>5, <1>6, <1>7, <1>8 DEF Next

-----------------------------------------------------------------------------
(* The order of the samples that arrive: those read, those left in the      *)
(* buffer in use, those of a complete transfer that waits for the swap, and *)
(* those of the transfer in progress.  Within the swap the buffer in use is *)
(* the complete one, all of it unread.                                      *)
Run(b, n) == \A p \in 1..n : buffer[b][p] = buffer[b][1] + (p - 1)
Unread == (readOffset[index] + 1)..length[index]

\* the samples at the positions P of buffer b are known, and not yet read
Pending(b, P) == \A p \in P : /\ buffer[b][p] <= arrived
                              /\ \A i \in DOMAIN got : got[i] < buffer[b][p]

Taken ==
    /\ \A i \in DOMAIN got : got[i] <= arrived
    /\ Increasing(got)

Filling ==
    /\ readOffset[index] < length[index] => Run(index, Size)
    /\ Pending(index, Unread)
    /\ valid => /\ Run(on, at) /\ Pending(on, 1..at)
                /\ Moving /\ at > 0 => buffer[on][at] = arrived
                /\ ~terr => at + Width * left = Size
    /\ valid /\ isr = "idle" => \A p \in 1..at, q \in Unread : buffer[index][q] < buffer[on][p]
    /\ isr \in {"test", "start", "swap"} =>
          /\ Run(1 - index, Size) /\ Pending(1 - index, 1..Size)
          /\ \A p \in 1..Size, q \in Unread : buffer[index][q] < buffer[1 - index][p]
    /\ isr = "swap" => \A p \in 1..at, q \in 1..Size : buffer[1 - index][q] < buffer[on][p]

Crossing ==
    /\ Run(index, Size) /\ Pending(index, 1..Size)
    /\ valid => /\ Run(on, at) /\ Pending(on, 1..at)
                /\ Moving /\ at > 0 => buffer[on][at] = arrived
                /\ ~terr => at + Width * left = Size
                /\ \A p \in 1..at, q \in 1..Size : buffer[index][q] < buffer[on][p]

RxOrder == Taken /\ (mode = "rx" => IF Swapping THEN Crossing ELSE Filling)

LEMMA FullTransfer ==
  /\ Size % Width = 0 /\ Size \div Width = Beats
  /\ Width * Beats = Size /\ 1..0 = {}
  <1>1. /\ Width \in Nat \ {0} /\ Beats \in Nat \ {0} /\ Size = Width * Beats /\ Size \in Nat
        /\ Size \in 0..Size
    BY Sizes DEF Size
  <1> DEFINE q == Size \div Width
             r == Size % Width
  <1>2. /\ r \in 0..(Width - 1) /\ q \in 0..Beats /\ r + Width * q = Width * Beats
    BY <1>1, Sizes
  <1> HIDE DEF q, r
  <1>3. q = Beats
    <2>1. SUFFICES ASSUME Beats - q >= 1 PROVE FALSE
      BY <1>1, <1>2
    <2>2. Width * (Beats - q) = r /\ Width * (Beats - q) >= Width
      BY <1>1, <1>2, <2>1
    <2>3. QED
      BY <1>1, <1>2, <2>2
  <1>4. r = 0
    BY <1>1, <1>2, <1>3
  <1>5. QED
    BY <1>1, <1>3, <1>4 DEF q, r

\* A read, in the terms the proofs need.
ReadEffect(r) ==
    /\ r \in 0..available /\ readOffset[index] + r <= length[index]
    /\ readOffset[index] \in 0..Size /\ length[index] \in 0..Size
    /\ available = length[index] - readOffset[index]
    /\ Len(got) \in Nat /\ DOMAIN got = 1..Len(got) /\ DOMAIN got' = 1..(Len(got) + r)
    /\ \A i \in 1..Len(got) : got'[i] = got[i]
    /\ \A i \in 1..r : got'[Len(got) + i] = buffer[index][readOffset[index] + i]
    /\ \/ /\ ~progress /\ ~valid /\ isr = "idle" /\ readOffset[index] + r = length[index]
          /\ progress' = TRUE
          /\ valid' = TRUE /\ on' = index /\ at' = 0 /\ left' = Beats /\ terr' = terr
          /\ index' = 1 - index /\ length'[1 - index] = 0 /\ readOffset'[1 - index] = 0
       \/ /\ readOffset'[index] = readOffset[index] + r
          /\ UNCHANGED <<progress, valid, on, at, left, tcmpl, terr, index, length>>
    /\ UNCHANGED <<buffer, isr, arrived, ends>>
    /\ reread' = (reread \/ (isr = "setOffset" /\ r > 0))
    /\ mode \in {"idle", "rx"} /\ mode' = "rx"

LEMMA ReadDoes ==
  ASSUME BInv, NEW n \in 0..MaxLen, Read(n)
  PROVE  \E r \in 0..available : ReadEffect(r)
  <1> USE DEF BInv
  <1>1. Size \in Nat \ {0} /\ n \in Nat
    BY Sizes, I2sAssumption
  <1>2. /\ index \in Buffers /\ length[index] \in 0..Size /\ readOffset[index] \in 0..length[index]
        /\ available = length[index] - readOffset[index]
    BY DEF TypeOK, Offsets, available
  <1> DEFINE r == IF n > available THEN available ELSE n
             o == readOffset[index]
             off == [readOffset EXCEPT ![index] = @ + r]
             packet == SubSeq(buffer[index], o + 1, o + r)
  <1>3. r \in 0..available /\ available \in 0..Size
    BY <1>1, <1>2
  <1>4. /\ got' = got \o packet
        /\ IF ~progress /\ availableIn(length, off, index) = 0
           THEN progress' = TRUE /\ Transfer(index, Size) /\ Swapped(length, off, 0)
           ELSE readOffset' = off /\ UNCHANGED <<progress, dma, index, length>>
        /\ UNCHANGED <<buffer, isr, arrived, ends>>
        /\ reread' = (reread \/ (isr = "setOffset" /\ r > 0))
        /\ mode \in {"idle", "rx"} /\ mode' = "rx"
    BY DEF Read
  <1>5. off[index] = o + r /\ off \in [Buffers -> Int]
    <2>1. readOffset \in [Buffers -> Int] /\ o + r \in Int
      BY <1>2, <1>3 DEF TypeOK
    <2>2. QED
      BY <1>2, <2>1, ExceptTyped
  <1> HIDE DEF r
  <1>6. /\ packet \in Seq(Nat) /\ Len(packet) = r
        /\ \A i \in 1..r : packet[i] = buffer[index][o + i]
    BY <1>3, Gathered
  <1> HIDE DEF packet, off
  <1>7. /\ got' \in Seq(Nat) /\ got \in Seq(Nat) /\ Len(got) \in Nat /\ Len(got') = Len(got) + r
        /\ \A i \in 1..(Len(got) + r) :
              got'[i] = IF i <= Len(got) THEN got[i] ELSE packet[i - Len(got)]
    <2>1. got \in Seq(Nat)
      BY DEF TypeOK
    <2>2. QED
      BY <1>4, <1>6, <2>1, ConcatProperties, LenProperties
  <1>8. DOMAIN got = 1..Len(got) /\ DOMAIN got' = 1..(Len(got) + r)
    BY <1>7, LenProperties
  <1>9. \A i \in 1..Len(got) : got'[i] = got[i]
    BY <1>3, <1>7
  <1>10. \A i \in 1..r : got'[Len(got) + i] = buffer[index][o + i]
    <2>1. SUFFICES ASSUME NEW i \in 1..r PROVE got'[Len(got) + i] = buffer[index][o + i]
      OBVIOUS
    <2>2. /\ Len(got) + i \in 1..(Len(got) + r) /\ ~(Len(got) + i <= Len(got))
          /\ (Len(got) + i) - Len(got) = i
      BY <1>3, <1>7, <2>1
    <2>3. QED
      BY <1>6, <1>7, <2>2
  <1>11. o + r <= length[index] /\ o \in 0..Size
    BY <1>1, <1>2, <1>3
  <1>12. ASSUME ~progress, availableIn(length, off, index) = 0 PROVE ReadEffect(r)
    <2>1. ~valid /\ isr = "idle"
      BY <1>12 DEF IInv, Known
    <2>2. o + r = length[index]
      BY <1>2, <1>3, <1>5, <1>12 DEF availableIn
    <2>3. valid' = TRUE /\ on' = index /\ at' = 0 /\ left' = Beats /\ terr' = terr
      BY <1>4, <1>12, <2>1, FullTransfer DEF Transfer
    <2>4. index' = 1 - index /\ length'[1 - index] = 0 /\ readOffset'[1 - index] = 0
      <3>1. /\ index' = 1 - index /\ length' = [length EXCEPT ![1 - index] = 0]
            /\ readOffset' = [off EXCEPT ![1 - index] = 0]
        BY <1>4, <1>12 DEF Swapped
      <3>2. 1 - index \in Buffers /\ DOMAIN length = Buffers /\ DOMAIN off = Buffers
        BY <1>2, <1>5 DEF Buffers, TypeOK
      <3>3. QED
        BY <3>1, <3>2
    <2>5. QED
      <3>1. /\ progress' = TRUE /\ UNCHANGED <<buffer, isr, arrived, ends>>
            /\ reread' = (reread \/ (isr = "setOffset" /\ r > 0))
            /\ mode \in {"idle", "rx"} /\ mode' = "rx"
        BY <1>4, <1>12
      <3>2. QED
        BY <1>2, <1>3, <1>7, <1>8, <1>9, <1>10, <1>11, <1>12, <2>1, <2>2, <2>3, <2>4, <3>1, Zenon
        DEF ReadEffect
  <1>13. ASSUME ~(~progress /\ availableIn(length, off, index) = 0) PROVE ReadEffect(r)
    BY <1>1, <1>2, <1>3, <1>4, <1>5, <1>7, <1>8, <1>9, <1>10, <1>11, <1>13 DEF ReadEffect, dma
  <1>14. QED
    BY <1>3, <1>12, <1>13

LEMMA RxTypes ==
  ASSUME BInv
  PROVE  /\ Size \in Nat \ {0} /\ Width \in Nat \ {0} /\ arrived \in Nat /\ at \in 0..Size
         /\ left \in Nat /\ index \in Buffers /\ on \in Buffers /\ 1 - index \in Buffers
         /\ length[index] \in 0..Size /\ readOffset[index] \in 0..length[index]
         /\ \A i \in DOMAIN got : got[i] \in Nat
         /\ \A b \in Buffers, p \in 1..Size : buffer[b][p] \in Nat
         /\ \A q \in Unread : q \in 1..Size
  <1> USE DEF BInv
  <1>1. /\ Size \in Nat \ {0} /\ Width \in Nat \ {0} /\ arrived \in Nat /\ at \in 0..Size
        /\ left \in Nat /\ index \in Buffers /\ on \in Buffers
        /\ length[index] \in 0..Size /\ readOffset[index] \in 0..length[index]
    BY Sizes, I2sAssumption DEF TypeOK, Offsets
  <1>2. 1 - index \in Buffers
    BY <1>1 DEF Buffers
  <1>3. \A i \in DOMAIN got : got[i] \in Nat
    BY LenProperties DEF TypeOK
  <1>4. \A b \in Buffers, p \in 1..Size : buffer[b][p] \in Nat
    BY DEF TypeOK
  <1>5. \A q \in Unread : q \in 1..Size
    BY <1>1 DEF Unread
  <1>6. QED
    BY <1>1, <1>2, <1>3, <1>4, <1>5

(* Within the swap a read gets nothing, but for what it will get again.     *)
LEMMA SwapReads ==
  ASSUME BInv, Swapping, NEW n \in 0..MaxLen, Read(n), ~reread'
  PROVE  /\ Swapping' /\ mode = "rx" /\ mode' = "rx" /\ Len(got') = Len(got)
         /\ DOMAIN got' = DOMAIN got /\ \A i \in DOMAIN got : got'[i] = got[i]
         /\ UNCHANGED <<valid, on, at, left, terr, index, length, buffer, isr, arrived, ends>>
  <1>1. PICK r \in 0..available : ReadEffect(r)
    BY ReadDoes
  <1>2. progress /\ mode = "rx"
    BY <1>1 DEF BInv, IInv, Known, Offsets, Swapping, ReadEffect
  <1>3. r = 0
    <2>1. CASE isr = "setLength"
      BY <1>1, <1>2, <2>1 DEF ReadEffect, BInv, Drained
    <2>2. CASE isr = "setOffset"
      <3>1. ~(r > 0)
        BY <1>1, <2>2, Zenon DEF ReadEffect
      <3>2. r \in Int /\ 0 <= r
        BY <1>1 DEF ReadEffect
      <3> QED
        BY <3>1, <3>2
    <2> QED
      BY <2>1, <2>2 DEF Swapping
  <1>4. /\ Len(got) \in Nat /\ DOMAIN got = 1..Len(got) /\ DOMAIN got' = 1..Len(got)
        /\ \A i \in 1..Len(got) : got'[i] = got[i]
    BY <1>1, <1>3 DEF ReadEffect
  <1>5. Len(got') = Len(got)
    <2>1. got' \in Seq(Nat)
      BY ReadTyped DEF BInv, TypeOK
    <2>2. DOMAIN got' = 1..Len(got') /\ Len(got') \in Nat
      BY <2>1, LenProperties
    <2> QED
      BY <1>4, <2>2
  <1>6. /\ UNCHANGED <<valid, on, at, left, terr, index, length, buffer, isr, arrived, ends>>
        /\ mode' = "rx"
    BY <1>1, <1>2 DEF ReadEffect
  <1> QED
    BY <1>2, <1>4, <1>5, <1>6 DEF Swapping

LEMMA ReadOrder ==
  ASSUME BInv, RxOrder, NEW n \in 0..MaxLen, Read(n), ~reread' PROVE RxOrder'
  <1>0. SUFFICES ASSUME ~Swapping PROVE RxOrder'
    <2>1. SUFFICES ASSUME Swapping PROVE RxOrder'
      BY <2>1
    <2>2. /\ Swapping' /\ mode = "rx" /\ mode' = "rx"
          /\ DOMAIN got' = DOMAIN got /\ \A i \in DOMAIN got : got'[i] = got[i]
          /\ UNCHANGED <<valid, on, at, left, terr, index, length, buffer, isr, arrived>>
      BY <2>1, SwapReads
    <2>3. Taken' /\ Crossing
      BY <2>1, <2>2 DEF RxOrder, Taken, Increasing
    <2>4. Moving' = Moving
      BY <2>2 DEF Moving
    <2>5. Crossing'
      BY <2>2, <2>3, <2>4 DEF Crossing, Run, Pending
    <2> QED
      BY <2>2, <2>3, <2>5 DEF RxOrder
  <1>1. PICK r \in 0..available : ReadEffect(r)
    BY ReadDoes
  <1> DEFINE o == readOffset[index]
             l == length[index]
  <1>2. /\ r \in Nat /\ o \in 0..Size /\ l \in 0..Size /\ o + r <= l /\ Len(got) \in Nat
        /\ Size \in Nat \ {0}
    BY <1>1, RxTypes DEF ReadEffect
  <1>3. /\ index \in Buffers /\ 1 - index \in Buffers /\ \A i \in DOMAIN got : got[i] \in Nat
        /\ arrived \in Nat /\ \A p \in 1..Size : buffer[index][p] \in Nat
    BY RxTypes
  <1>4. Taken
    BY DEF RxOrder
  \* what the call takes comes from the unread samples, in their order
  <1>5. /\ \A q \in Unread : buffer[index][q] <= arrived /\ \A i \in DOMAIN got : got[i] < buffer[index][q]
        /\ \A q1, q2 \in Unread : q1 < q2 => buffer[index][q1] < buffer[index][q2]
    <2>1. CASE mode = "idle"
      <3>1. l = 0
        BY <2>1, <1>3 DEF BInv, Offsets
      <3>2. Unread = {}
        BY <1>2, <3>1 DEF Unread
      <3>3. QED
        BY <3>2
    <2>2. CASE mode = "rx"
      <3>1. Filling
        BY <1>0, <2>2 DEF RxOrder
      <3>2. ASSUME NEW q1 \in Unread, NEW q2 \in Unread, q1 < q2
            PROVE  buffer[index][q1] < buffer[index][q2]
        <4>1. Run(index, Size) /\ q1 \in 1..Size /\ q2 \in 1..Size
          BY <1>2, <3>1, <3>2 DEF Filling, Unread
        <4>2. /\ buffer[index][q1] = buffer[index][1] + (q1 - 1)
              /\ buffer[index][q2] = buffer[index][1] + (q2 - 1)
          BY <4>1 DEF Run
        <4>3. buffer[index][1] \in Nat /\ q1 \in Nat /\ q2 \in Nat
          BY <1>2, <1>3, <4>1
        <4>4. QED
          BY <3>2, <4>2, <4>3
      <3>3. QED
        BY <3>1, <3>2 DEF Filling, Pending
    <2>3. QED
      BY <1>1, <2>1, <2>2 DEF ReadEffect
  <1>6. \A i \in 1..r : o + i \in Unread
    BY <1>2 DEF Unread
  <1>7. \A i \in DOMAIN got' :
          (i \in DOMAIN got /\ got'[i] = got[i])
          \/ (i - Len(got) \in 1..r /\ got'[i] = buffer[index][o + (i - Len(got))])
    <2>1. SUFFICES ASSUME NEW i \in DOMAIN got', i \notin DOMAIN got
                   PROVE  i - Len(got) \in 1..r /\ got'[i] = buffer[index][o + (i - Len(got))]
      BY <1>1 DEF ReadEffect
    <2>2. i - Len(got) \in 1..r /\ Len(got) + (i - Len(got)) = i
      BY <1>1, <1>2, <2>1 DEF ReadEffect
    <2>3. QED
      BY <1>1, <2>2 DEF ReadEffect
  <1>8. Taken'
    <2>1. \A i \in DOMAIN got' : got'[i] <= arrived'
      BY <1>1, <1>4, <1>5, <1>6, <1>7 DEF Taken, ReadEffect
    <2>2. ASSUME NEW i \in DOMAIN got', NEW j \in DOMAIN got', i < j PROVE got'[i] < got'[j]
      <3>1. CASE i \in DOMAIN got /\ j \in DOMAIN got
        BY <1>1, <1>4, <2>2, <3>1 DEF Taken, Increasing, ReadEffect
      <3>2. CASE i \in DOMAIN got /\ j \notin DOMAIN got
        BY <1>1, <1>5, <1>6, <1>7, <3>2 DEF ReadEffect
      <3>3. CASE i \notin DOMAIN got
        <4>1. j \notin DOMAIN got /\ i \in Nat /\ j \in Nat
          BY <1>1, <1>2, <2>2, <3>3 DEF ReadEffect
        <4>2. /\ i - Len(got) \in 1..r /\ got'[i] = buffer[index][o + (i - Len(got))]
              /\ j - Len(got) \in 1..r /\ got'[j] = buffer[index][o + (j - Len(got))]
          BY <1>7, <3>3, <4>1
        <4>3. o + (i - Len(got)) \in Unread /\ o + (j - Len(got)) \in Unread
          BY <1>6, <4>2
        <4>4. o + (i - Len(got)) < o + (j - Len(got))
          BY <1>2, <2>2, <4>1
        <4>5. QED
          BY <1>5, <4>2, <4>3, <4>4
      <3>4. QED
        BY <3>1, <3>2, <3>3
    <2>3. QED
      BY <2>1, <2>2 DEF Taken, Increasing
  <1>9. CASE /\ ~progress /\ ~valid /\ isr = "idle" /\ o + r = l
             /\ progress' = TRUE
             /\ valid' = TRUE /\ on' = index /\ at' = 0 /\ left' = Beats /\ terr' = terr
             /\ index' = 1 - index /\ length'[1 - index] = 0 /\ readOffset'[1 - index] = 0
    <2>1. Unread' = {} /\ 1..at' = {}
      BY <1>9 DEF Unread
    <2>2. at' + Width * left' = Size
      BY <1>2, <1>9, FullTransfer
    <2>3. ~(at' > 0) /\ isr' = "idle" /\ length'[index'] = 0 /\ ~(readOffset'[index'] < length'[index'])
      BY <1>1, <1>9 DEF ReadEffect
    <2>4. Filling'
      BY <1>9, <2>1, <2>2, <2>3 DEF Filling, Pending, Run
    <2>5. ~Swapping'
      BY <1>0, <1>1 DEF Swapping, ReadEffect
    <2>6. QED
      BY <1>8, <2>4, <2>5 DEF RxOrder
  <1>10. CASE /\ readOffset'[index] = o + r
              /\ UNCHANGED <<progress, valid, on, at, left, tcmpl, terr, index, length>>
    <2>1. mode = "idle" => ~valid /\ isr = "idle" /\ l = 0
      BY <1>3 DEF BInv, IInv, Known, TypeOK, Offsets
    <2>2. \A q \in Unread' : q \in Unread /\ q > o + r
      BY <1>2, <1>10 DEF Unread
    <2>3. \A i \in DOMAIN got' : \/ i \in DOMAIN got /\ got'[i] = got[i]
                               \/ \E q \in Unread : q <= o + r /\ got'[i] = buffer[index][q]
      <3>1. SUFFICES ASSUME NEW i \in DOMAIN got', i - Len(got) \in 1..r,
                            got'[i] = buffer[index][o + (i - Len(got))]
                     PROVE  \E q \in Unread : q <= o + r /\ got'[i] = buffer[index][q]
        BY <1>7
      <3>2. o + (i - Len(got)) \in Unread
        BY <1>6, <3>1
      <3>3. \A k \in 1..r : o + k <= o + r
        BY <1>2
      <3>4. QED
        BY <3>1, <3>2, <3>3
    <2>4. Pending(index, Unread)'
      <3>1. SUFFICES ASSUME NEW q \in Unread', NEW i \in DOMAIN got'
                     PROVE  buffer[index][q] <= arrived /\ got'[i] < buffer[index][q]
        BY <1>1, <1>5, <1>10, <2>2 DEF Pending, ReadEffect
      <3>2. CASE i \in DOMAIN got /\ got'[i] = got[i]
        BY <1>5, <2>2, <3>1, <3>2
      <3>3. CASE \E k \in Unread : k <= o + r /\ got'[i] = buffer[index][k]
        <4>1. PICK k \in Unread : k <= o + r /\ got'[i] = buffer[index][k]
          BY <3>3
        <4>2. k < q
          BY <1>2, <2>2, <3>1, <4>1 DEF Unread
        <4>3. QED
          BY <1>5, <2>2, <3>1, <4>1, <4>2
      <3>4. QED
        BY <2>3, <3>1, <3>2, <3>3
    <2>5. ASSUME NEW b, NEW P, Pending(b, P), \A p \in P, q \in Unread : buffer[index][q] < buffer[b][p]
          PROVE  Pending(b, P)'
      <3>1. SUFFICES ASSUME NEW p \in P, NEW i \in DOMAIN got'
                     PROVE  got'[i] < buffer[b][p]
        BY <1>1, <2>5 DEF Pending, ReadEffect
      <3>2. QED
        BY <2>3, <2>5, <3>1 DEF Pending
    <2>12. ~Swapping'
      BY <1>0, <1>1 DEF Swapping, ReadEffect
    <2>6. SUFFICES ASSUME mode = "rx", Filling PROVE Filling'
      <3>1. CASE mode = "idle"
        <4>1. length'[index'] = 0 /\ ~(readOffset'[index'] < length'[index']) /\ ~valid' /\ isr' = "idle"
          BY <1>1, <1>2, <1>10, <2>1, <3>1 DEF ReadEffect
        <4>2. Filling'
          BY <1>10, <2>4, <4>1 DEF Filling
        <4>3. QED
          BY <1>8, <2>12, <4>2 DEF RxOrder
      <3>2. QED
        BY <1>0, <1>1, <1>8, <2>12, <3>1 DEF ReadEffect, RxOrder
    <2>7. UNCHANGED <<buffer, isr, valid, on, at, left, terr, index, length>> /\ Moving' = Moving
      BY <1>1, <1>10 DEF ReadEffect, Moving
    <2>8. readOffset'[index'] < length'[index'] => Run(index, Size)'
      <3>1. readOffset'[index'] < length'[index'] => o < l
        BY <1>2, <1>10
      <3>2. QED
        BY <2>6, <2>7, <3>1 DEF Filling, Run
    <2>9. valid' => /\ Run(on, at)' /\ Pending(on, 1..at)'
                    /\ Moving' /\ at' > 0 => buffer'[on'][at'] = arrived'
                    /\ ~terr' => at' + Width * left' = Size
      <3>1. SUFFICES ASSUME valid PROVE Pending(on, 1..at)'
        BY <1>1, <2>6, <2>7 DEF Filling, Run, ReadEffect
      <3>2. \A p \in 1..at, q \in Unread : buffer[index][q] < buffer[on][p]
        <4>1. CASE isr = "idle"
          BY <2>6, <3>1, <4>1 DEF Filling
        <4>2. CASE isr = "swap"
          <5>1. \A p \in 1..at : \A x \in 1..Size : buffer[1 - index][x] < buffer[on][p]
            BY <2>6, <4>2 DEF Filling
          <5>2. \A q \in Unread : \A x \in 1..Size : buffer[index][q] < buffer[1 - index][x]
            BY <2>6, <4>2 DEF Filling
          <5>3. 1 \in 1..Size
            BY <1>2
          <5>4. \A p \in 1..at : p \in 1..Size
            BY RxTypes
          <5>5. QED
            BY <5>1, <5>2, <5>3, <5>4, RxTypes
        <4>3. QED
          BY <1>0, <3>1, <4>1, <4>2 DEF BInv, IInv, Known, Typed, Swapping
      <3>3. Pending(on, 1..at)
        BY <2>6, <3>1 DEF Filling
      <3>4. QED
        BY <2>5, <2>7, <3>2, <3>3 DEF Pending
    <2>10. isr' \in {"test", "start", "swap"} =>
              /\ Run(1 - index, Size)' /\ Pending(1 - index, 1..Size)'
              /\ \A p \in 1..Size, q \in Unread' : buffer'[index'][q] < buffer'[1 - index'][p]
      <3>1. SUFFICES ASSUME isr \in {"test", "start", "swap"}
                     PROVE  /\ Run(1 - index, Size)' /\ Pending(1 - index, 1..Size)'
                            /\ \A p \in 1..Size, q \in Unread' : buffer[index][q] < buffer[1 - index][p]
        BY <2>7
      <3>2. /\ Run(1 - index, Size) /\ Pending(1 - index, 1..Size)
            /\ \A p \in 1..Size, q \in Unread : buffer[index][q] < buffer[1 - index][p]
        BY <2>6, <3>1 DEF Filling
      <3>3. Run(1 - index, Size)'
        BY <2>7, <3>2 DEF Run
      <3>4. Pending(1 - index, 1..Size)'
        BY <2>5, <2>7, <3>2 DEF Pending
      <3>5. QED
        BY <2>2, <3>2, <3>3, <3>4
    <2>11. QED
      BY <2>2, <2>4, <2>6, <2>7, <2>8, <2>9, <2>10 DEF Filling
  <1>11. QED
    BY <1>1, <1>9, <1>10 DEF ReadEffect

LEMMA ReceiveOrder == ASSUME BInv, ReceiverWaits, RxOrder, ReceiveBeat PROVE RxOrder'
  <1>1. /\ mode = "rx" /\ arrived' = arrived + Width
        /\ UNCHANGED <<mode, index, length, readOffset, progress, valid, on, terr, isr, got, ends>>
    BY DEF ReceiveBeat
  <1>2. /\ Size \in Nat \ {0} /\ Width \in Nat \ {0} /\ arrived \in Nat /\ at \in 0..Size
        /\ left \in Nat /\ index \in Buffers /\ on \in Buffers /\ 1 - index \in Buffers
        /\ length[index] \in 0..Size /\ readOffset[index] \in 0..length[index]
        /\ \A i \in DOMAIN got : got[i] \in Nat
        /\ \A b \in Buffers, p \in 1..Size : buffer[b][p] \in Nat
        /\ \A q \in Unread : q \in 1..Size
    BY RxTypes
  <1>3. /\ Taken /\ (~Swapping => Filling) /\ (Swapping => Crossing) /\ mode' = "rx"
        /\ Swapping' = Swapping
    BY <1>1 DEF RxOrder, Swapping
  <1>4. Taken'
    BY <1>1, <1>2, <1>3 DEF Taken, Increasing
  <1>5. Unread' = Unread
    BY <1>1 DEF Unread
  <1>6. CASE ~Moving
    <2>1. UNCHANGED <<buffer, at, left, tcmpl>>
      BY <1>6 DEF ReceiveBeat
    <2>2. ~Moving'
      BY <1>1, <1>6, <2>1 DEF Moving
    <2>3. ASSUME NEW b \in Buffers, NEW P \in SUBSET (1..Size), Pending(b, P) PROVE Pending(b, P)'
      BY <1>1, <1>2, <2>1, <2>3 DEF Pending
    <2>4. SUFFICES ASSUME ~Swapping, Filling PROVE Filling'
      <3>1. SUFFICES ASSUME Swapping, Crossing PROVE Crossing'
        BY <1>3, <1>4 DEF RxOrder
      <3>2. 1..at \in SUBSET (1..Size) /\ 1..Size \in SUBSET (1..Size)
        BY <1>2
      <3>3. Pending(index, 1..Size)' /\ (valid => Pending(on, 1..at)')
        BY <1>1, <1>2, <2>1, <2>3, <3>1, <3>2 DEF Crossing, Pending
      <3> QED
        BY <1>1, <2>1, <2>2, <3>1, <3>3 DEF Crossing, Run
    <2>9. Pending(index, Unread)'
      BY <1>1, <1>2, <2>4, <1>5, <2>3 DEF Filling, Pending
    <2>5. valid => Pending(on, 1..at)'
      <3>1. 1..at \in SUBSET (1..Size)
        BY <1>2
      <3>2. QED
        BY <1>1, <1>2, <2>1, <2>3, <2>4, <3>1 DEF Filling, Pending
    <2>6. isr \in {"test", "start", "swap"} => Pending(1 - index, 1..Size)'
      BY <1>1, <1>2, <2>3, <2>4 DEF Filling, Pending
    <2>7. QED
      BY <1>1, <1>5, <2>1, <2>2, <2>4, <2>5, <2>6, <2>9 DEF Filling, Run
  <1>7. CASE Moving
    <2>1. /\ buffer' = [buffer EXCEPT ![on] = [i \in 1..Size |->
                             IF i \in (at + 1)..(at + Width) THEN arrived + i - at
                             ELSE buffer[on][i]]]
          /\ at' = at + Width /\ left' = left - 1
      BY <1>7 DEF ReceiveBeat
    <2>2. /\ at' \in 0..Size /\ at' + Width * left' = at + Width * left
          /\ valid /\ (isr \in {"idle", "swap"} \/ Swapping)
      BY <1>7, <2>1, BeatRoom DEF Moving, BInv, IInv, Known, Typed, Swapping
    <2>3. /\ \A b \in Buffers : b # on => buffer'[b] = buffer[b]
          /\ \A p \in 1..at : buffer'[on][p] = buffer[on][p]
          /\ \A p \in (at + 1)..at' : buffer'[on][p] = arrived + (p - at)
      <3>1. DOMAIN buffer = Buffers
        BY DEF BInv, TypeOK
      <3>2. /\ \A b \in Buffers : b # on => buffer'[b] = buffer[b]
            /\ buffer'[on] = [i \in 1..Size |-> IF i \in (at + 1)..(at + Width)
                                               THEN arrived + i - at ELSE buffer[on][i]]
        BY <1>2, <2>1, <3>1
      <3>3. \A p \in 1..at : p \in 1..Size /\ p \notin (at + 1)..(at + Width)
        BY <1>2
      <3>4. \A p \in (at + 1)..at' : /\ p \in 1..Size /\ p \in (at + 1)..(at + Width)
                                    /\ arrived + p - at = arrived + (p - at)
        BY <1>2, <2>1, <2>2
      <3>5. QED
        BY <3>2, <3>3, <3>4
    <2>4. \A p \in 1..at' : p \in 1..at \/ p \in (at + 1)..at'
      BY <1>2, <2>1
    <2>5. /\ Run(on, at) /\ Pending(on, 1..at) /\ (at > 0 => buffer[on][at] = arrived)
          /\ (~terr => at + Width * left = Size)
      BY <1>3, <1>7, <2>2 DEF Filling, Crossing
    <2>6. Run(on, at)'
      <3>1. SUFFICES ASSUME NEW p \in 1..at' PROVE buffer'[on][p] = buffer'[on][1] + (p - 1)
        BY <1>1 DEF Run
      <3>2. CASE at = 0
        <4>1. 1 \in (at + 1)..at' /\ p \in (at + 1)..at' /\ at' \in Nat
          BY <1>2, <2>1, <3>1, <3>2
        <4>2. buffer'[on][p] = arrived + (p - at) /\ buffer'[on][1] = arrived + (1 - at)
          BY <2>3, <4>1
        <4>3. QED
          BY <1>2, <3>1, <3>2, <4>1, <4>2
      <3>3. CASE at > 0
        <4>1. 1 \in 1..at /\ at \in 1..at /\ at \in Nat
          BY <1>2, <3>3
        <4>2. /\ buffer'[on][1] = buffer[on][1] /\ buffer[on][at] = buffer[on][1] + (at - 1)
              /\ buffer[on][at] = arrived /\ buffer[on][1] \in Nat
          BY <1>2, <2>3, <2>5, <3>3, <4>1 DEF Run
        <4>3. CASE p \in 1..at
          BY <2>3, <2>5, <4>2, <4>3 DEF Run
        <4>4. CASE p \in (at + 1)..at'
          <5>1. buffer'[on][p] = arrived + (p - at)
            BY <2>3, <4>4
          <5>2. QED
            BY <1>2, <3>1, <4>1, <4>2, <5>1
        <4>5. QED
          BY <2>4, <4>3, <4>4
      <3>4. QED
        BY <1>2, <3>2, <3>3
    <2>7. \A p \in 1..at' : /\ buffer'[on][p] <= arrived'
                            /\ \/ p \in 1..at /\ buffer'[on][p] = buffer[on][p]
                               \/ buffer'[on][p] > arrived
      <3>1. SUFFICES ASSUME NEW p \in 1..at'
                     PROVE  /\ buffer'[on][p] <= arrived'
                            /\ \/ p \in 1..at /\ buffer'[on][p] = buffer[on][p]
                               \/ buffer'[on][p] > arrived
        OBVIOUS
      <3>2. CASE p \in 1..at
        <4>1. buffer'[on][p] = buffer[on][p] /\ buffer[on][p] <= arrived /\ buffer[on][p] \in Nat
          BY <1>2, <2>3, <2>5, <3>2 DEF Pending
        <4>2. QED
          BY <1>1, <1>2, <3>2, <4>1
      <3>3. CASE p \in (at + 1)..at'
        <4>1. buffer'[on][p] = arrived + (p - at)
          BY <2>3, <3>3
        <4>2. QED
          BY <1>1, <1>2, <2>1, <3>3, <4>1
      <3>4. QED
        BY <2>4, <3>1, <3>2, <3>3
    <2>8. Pending(on, 1..at)'
      <3>1. SUFFICES ASSUME NEW p \in 1..at', NEW i \in DOMAIN got PROVE got[i] < buffer'[on][p]
        BY <1>1, <2>7 DEF Pending
      <3>2. CASE p \in 1..at /\ buffer'[on][p] = buffer[on][p]
        BY <2>5, <3>1, <3>2 DEF Pending
      <3>3. CASE buffer'[on][p] > arrived
        <4>1. got[i] <= arrived /\ got[i] \in Nat /\ buffer'[on][p] \in Int
          BY <1>2, <1>3, <2>3, <2>4, <3>1 DEF Taken
        <4>2. QED
          BY <1>2, <3>3, <4>1
      <3>4. QED
        BY <2>7, <3>1, <3>2, <3>3
    <2>9. at' > 0 => buffer'[on][at'] = arrived'
      <3>1. at' \in (at + 1)..at' /\ at' - at = Width
        BY <1>2, <2>1
      <3>2. buffer'[on][at'] = arrived + (at' - at)
        BY <2>3, <3>1
      <3>3. QED
        BY <1>1, <3>1, <3>2
    <2>10. CASE isr = "idle"
      <3>0. Filling /\ ~Swapping /\ ~Swapping'
        BY <1>1, <1>3, <2>10 DEF Swapping
      <3>1. on # index
        BY <2>2, <2>10 DEF BInv, IInv, Separate
      <3>2. buffer'[index] = buffer[index]
        BY <1>2, <2>3, <3>1
      <3>3. Pending(index, Unread)' /\ (readOffset[index] < length[index] => Run(index, Size)')
        BY <1>1, <1>2, <1>5, <3>0, <3>2 DEF Filling, Pending, Run
      <3>4. \A p \in 1..at', q \in Unread : buffer'[index][q] < buffer'[on][p]
        <4>1. SUFFICES ASSUME NEW p \in 1..at', NEW q \in Unread
                       PROVE  buffer[index][q] < buffer'[on][p]
          BY <3>2
        <4>2. CASE p \in 1..at /\ buffer'[on][p] = buffer[on][p]
          BY <2>2, <2>10, <3>0, <4>1, <4>2 DEF Filling
        <4>3. CASE buffer'[on][p] > arrived
          <5>1. buffer[index][q] <= arrived /\ buffer[index][q] \in Nat
            BY <1>2, <3>0, <4>1 DEF Filling, Pending
          <5>2. buffer'[on][p] \in Int
            BY <1>2, <2>3, <2>4, <4>1
          <5>3. QED
            BY <1>2, <4>3, <5>1, <5>2
        <4>4. QED
          BY <2>7, <4>1, <4>2, <4>3
      <3>5. Filling'
        BY <1>1, <1>5, <2>2, <2>5, <2>6, <2>8, <2>9, <2>10, <3>0, <3>3, <3>4 DEF Filling
      <3>6. QED
        BY <1>4, <3>0, <3>5 DEF RxOrder
    <2>11. CASE isr = "swap"
      <3>0. Filling /\ ~Swapping /\ ~Swapping'
        BY <1>1, <1>3, <2>11 DEF Swapping
      <3>1. on = index /\ Unread = {} /\ ~(readOffset[index] < length[index])
        <4>1. available = 0 /\ available = length[index] - readOffset[index]
          BY <1>1, <2>11 DEF ReceiverWaits, available
        <4>2. readOffset[index] = length[index]
          BY <1>2, <4>1
        <4>3. QED
          BY <1>2, <2>2, <2>11, <4>2 DEF BInv, IInv, Separate, Unread
      <3>2. 1 - index # on /\ buffer'[1 - index] = buffer[1 - index]
        BY <1>2, <2>3, <3>1 DEF Buffers
      <3>3. Run(1 - index, Size) /\ Pending(1 - index, 1..Size)
        BY <2>11, <3>0 DEF Filling
      <3>4. Run(1 - index, Size)' /\ Pending(1 - index, 1..Size)'
        <4>1. \A p \in 1..Size : buffer[1 - index][p] <= arrived'
          BY <1>1, <1>2, <3>3 DEF Pending
        <4>2. QED
          BY <1>1, <3>2, <3>3, <4>1 DEF Run, Pending
      <3>5. \A p \in 1..at', q \in 1..Size : buffer'[1 - index][q] < buffer'[on][p]
        <4>1. SUFFICES ASSUME NEW p \in 1..at', NEW q \in 1..Size
                       PROVE  buffer[1 - index][q] < buffer'[on][p]
          BY <3>2
        <4>2. CASE p \in 1..at /\ buffer'[on][p] = buffer[on][p]
          BY <2>11, <3>0, <4>1, <4>2 DEF Filling
        <4>3. CASE buffer'[on][p] > arrived
          <5>1. buffer[1 - index][q] <= arrived /\ buffer[1 - index][q] \in Nat
            BY <1>2, <3>3, <4>1 DEF Pending
          <5>2. buffer'[on][p] \in Int
            BY <1>2, <2>3, <2>4, <4>1
          <5>3. QED
            BY <1>2, <4>3, <5>1, <5>2
        <4>4. QED
          BY <2>7, <4>1, <4>2, <4>3
      <3>6. Pending(index, Unread)'
        BY <1>5, <3>1 DEF Pending
      <3>7. Filling'
        BY <1>1, <1>5, <2>2, <2>5, <2>6, <2>8, <2>9, <2>11, <3>0, <3>1, <3>4, <3>5, <3>6 DEF Filling
      <3>8. QED
        BY <1>4, <3>0, <3>7 DEF RxOrder
    <2>12. CASE Swapping
      <3>1. Crossing /\ Swapping' /\ on # index
        BY <1>3, <2>2, <2>12 DEF Swapping, BInv, IInv, Separate
      <3>2. buffer'[index] = buffer[index]
        BY <1>2, <2>3, <3>1
      <3>3. Run(index, Size) /\ Pending(index, 1..Size)
        BY <3>1 DEF Crossing
      <3>4. Run(index, Size)' /\ Pending(index, 1..Size)'
        <4>1. \A p \in 1..Size : buffer[index][p] <= arrived'
          BY <1>1, <1>2, <3>3 DEF Pending
        <4>2. QED
          BY <1>1, <3>2, <3>3, <4>1 DEF Run, Pending
      <3>5. \A p \in 1..at', q \in 1..Size : buffer'[index][q] < buffer'[on][p]
        <4>1. SUFFICES ASSUME NEW p \in 1..at', NEW q \in 1..Size
                       PROVE  buffer[index][q] < buffer'[on][p]
          BY <3>2
        <4>2. CASE p \in 1..at /\ buffer'[on][p] = buffer[on][p]
          BY <2>2, <3>1, <4>1, <4>2 DEF Crossing
        <4>3. CASE buffer'[on][p] > arrived
          <5>1. buffer[index][q] <= arrived /\ buffer[index][q] \in Nat
            BY <1>2, <3>3, <4>1 DEF Pending
          <5>2. buffer'[on][p] \in Int
            BY <1>2, <2>3, <2>4, <4>1
          <5>3. QED
            BY <1>2, <4>3, <5>1, <5>2
        <4>4. QED
          BY <2>7, <4>1, <4>2, <4>3
      <3>6. Crossing'
        BY <1>1, <2>2, <2>5, <2>6, <2>8, <2>9, <3>4, <3>5 DEF Crossing
      <3>7. QED
        BY <1>4, <3>1, <3>6 DEF RxOrder
    <2>13. QED
      BY <2>2, <2>10, <2>11, <2>12
  <1>8. QED
    BY <1>6, <1>7

LEMMA HandlerRx == ASSUME BInv, ReceiverWaits, RxOrder, Handler PROVE RxOrder'
  <1>0. UNCHANGED <<mode, buffer, got, arrived>>
    BY DEF Handler, ServiceError, Service, Test, Start, SwapIndex, SetLength, ResetOffset,
           Stop, double, rx
  <1>1. Taken'
    BY <1>0 DEF RxOrder, Taken, Increasing
  <1>2. SUFFICES ASSUME mode = "rx", IF Swapping THEN Crossing ELSE Filling
                 PROVE  IF Swapping' THEN Crossing' ELSE Filling'
    BY <1>0, <1>1 DEF RxOrder
  <1>3. /\ Size \in Nat \ {0} /\ index \in Buffers /\ on \in Buffers
        /\ length[index] \in 0..Size /\ readOffset[index] \in 0..length[index]
        /\ 1 - (1 - index) = index
    BY RxTypes DEF Buffers
  <1>6. CASE ServiceError
    <2>1. valid' = FALSE /\ isr = "idle" /\ UNCHANGED <<index, length, readOffset, isr>>
          /\ ~Swapping /\ ~Swapping'
      BY <1>6 DEF ServiceError, double, Swapping
    <2>2. Unread' = Unread
      BY <2>1 DEF Unread
    <2>3. QED
      BY <1>0, <1>2, <2>1, <2>2 DEF Filling, Run, Pending
  <1>7. CASE Service
    <2>1. valid' = FALSE /\ isr = "idle" /\ isr' = "test" /\ UNCHANGED <<index, length, readOffset>>
          /\ ~Swapping /\ ~Swapping'
      BY <1>7 DEF Service, double, Swapping
    <2>2. Unread' = Unread
      BY <2>1 DEF Unread
    <2>3. valid /\ left = 0 /\ ~terr /\ on # index
      BY <1>7, <2>1 DEF Service, BInv, IInv, Known, Separate, Typed
    <2>4. at = Size
      <3>1. at + Width * left = Size /\ Width * 0 = 0 /\ at \in Nat
        BY <1>2, <2>1, <2>3, RxTypes DEF Filling
      <3>2. QED
        BY <2>3, <3>1
    <2>5. on = 1 - index
      BY <1>3, <2>3 DEF Buffers
    <2>6. /\ Run(1 - index, Size) /\ Pending(1 - index, 1..Size)
          /\ \A p \in 1..Size, q \in Unread : buffer[index][q] < buffer[1 - index][p]
      BY <1>2, <2>1, <2>3, <2>4, <2>5 DEF Filling
    <2>7. QED
      BY <1>0, <1>2, <2>1, <2>2, <2>6 DEF Filling, Run, Pending
  <1>8. CASE Test \/ Stop
    <2>1. /\ ~valid /\ UNCHANGED <<index, length, readOffset, valid>>
          /\ isr' # "swap" /\ (isr' \in {"test", "start", "swap"} => isr = "test")
          /\ ~Swapping /\ ~Swapping'
      BY <1>8 DEF Test, Stop, double, dma, BInv, IInv, Known, Swapping
    <2>2. Unread' = Unread
      BY <2>1 DEF Unread
    <2>3. QED
      BY <1>0, <1>2, <2>1, <2>2 DEF Filling, Run, Pending
  <1>9. CASE Start
    <2>1. /\ Transfer(index, availableForWrite) /\ isr = "start" /\ isr' = "swap" /\ ~valid
          /\ UNCHANGED <<index, length, readOffset>> /\ ~Swapping /\ ~Swapping'
      BY <1>2, <1>9 DEF Start, double, BInv, IInv, Known, Swapping
    <2>2. available = 0 /\ availableForWrite = Size
      BY <1>2, <1>3, <2>1 DEF ReceiverWaits, availableForWrite
    <2>3. valid' /\ on' = index /\ at' = 0 /\ left' = Beats
      BY <2>1, <2>2, FullTransfer DEF Transfer
    <2>4. at' + Width * left' = Size /\ 1..at' = {} /\ ~(at' > 0)
      BY <1>3, <2>3, FullTransfer
    <2>5. Unread' = Unread
      BY <2>1 DEF Unread
    <2>6. QED
      BY <1>0, <1>2, <2>1, <2>3, <2>4, <2>5 DEF Filling, Run, Pending
  <1>10. CASE SwapIndex
    <2>1. /\ isr = "swap" /\ isr' = "setLength" /\ index' = 1 - index
          /\ UNCHANGED <<valid, on, at, left, terr>>
      BY <1>10 DEF SwapIndex, dma
    <2>2. Filling /\ Swapping'
      BY <1>2, <2>1 DEF Swapping
    <2>3. /\ Run(1 - index, Size) /\ Pending(1 - index, 1..Size)
          /\ \A p \in 1..at, q \in 1..Size : buffer[1 - index][q] < buffer[on][p]
      BY <2>1, <2>2 DEF Filling
    <2>4. Moving' = Moving
      BY <2>1 DEF Moving
    <2>5. Run(index, Size)' /\ Pending(index, 1..Size)'
      BY <1>0, <2>1, <2>3 DEF Run, Pending
    <2>6. valid' => /\ Run(on, at)' /\ Pending(on, 1..at)'
                    /\ Moving' /\ at' > 0 => buffer'[on'][at'] = arrived'
                    /\ ~terr' => at' + Width * left' = Size
      BY <1>0, <2>1, <2>2, <2>4 DEF Filling, Run, Pending
    <2>7. \A p \in 1..at', q \in 1..Size : buffer'[index'][q] < buffer'[on'][p]
      BY <1>0, <2>1, <2>3
    <2>8. QED
      BY <2>2, <2>5, <2>6, <2>7 DEF Crossing
  <1>11. CASE SetLength
    <2>1. /\ isr = "setLength" /\ isr' = "setOffset" /\ UNCHANGED <<index, valid, on, at, left, terr>>
      BY <1>11 DEF SetLength, dma
    <2>2. Crossing /\ Swapping' /\ Moving' = Moving
      BY <1>2, <2>1 DEF Swapping, Moving
    <2>3. QED
      BY <1>0, <2>1, <2>2 DEF Crossing, Run, Pending
  <1>12. CASE ResetOffset
    <2>1. /\ isr = "setOffset" /\ isr' = "idle" /\ UNCHANGED <<index, length, valid, on, at, left, terr>>
          /\ readOffset' = [readOffset EXCEPT ![index] = 0]
      BY <1>12 DEF ResetOffset, dma
    <2>2. Crossing /\ ~Swapping' /\ Moving' = Moving
      BY <1>2, <2>1 DEF Swapping, Moving
    <2>3. length'[index'] = Size /\ readOffset'[index'] = 0
      BY <1>2, <1>3, <2>1 DEF BInv, TypeOK, Drained
    <2>4. Unread' = 1..Size
      BY <1>3, <2>3 DEF Unread
    <2>5. Run(index, Size)' /\ Pending(index, Unread)'
      BY <1>0, <2>1, <2>2, <2>4 DEF Crossing, Run, Pending
    <2>6. valid' => /\ Run(on, at)' /\ Pending(on, 1..at)'
                    /\ Moving' /\ at' > 0 => buffer'[on'][at'] = arrived'
                    /\ ~terr' => at' + Width * left' = Size
      BY <1>0, <2>1, <2>2 DEF Crossing, Run, Pending
    <2>7. valid' => \A p \in 1..at', q \in Unread' : buffer'[index'][q] < buffer'[on'][p]
      BY <1>0, <2>1, <2>2, <2>4 DEF Crossing
    <2>8. Filling'
      BY <2>1, <2>5, <2>6, <2>7 DEF Filling
    <2>9. QED
      BY <2>2, <2>8
  <1>13. QED
    BY <1>6, <1>7, <1>8, <1>9, <1>10, <1>11, <1>12 DEF Handler

LEMMA RxOrderNext == BInv /\ ReceiverWaits /\ RxOrder /\ [Next]_vars /\ ~reread' => RxOrder'
  <1> SUFFICES ASSUME BInv, ReceiverWaits, RxOrder, [Next]_vars, ~reread' PROVE RxOrder'
    OBVIOUS
  <1>1. ASSUME NEW n \in Width..MaxLen, Write(n) PROVE RxOrder'
    BY <1>1 DEF Write, rx, RxOrder, Taken, Increasing
  <1>2. ASSUME NEW n \in 0..MaxLen, Read(n) PROVE RxOrder'
    BY <1>2, ReadOrder
  <1>3. CASE EndBegin
    BY <1>3 DEF EndBegin, rx, RxOrder, Taken, Increasing
  <1>4. CASE SendBeat
    BY <1>4 DEF SendBeat, rx, RxOrder, Taken, Increasing
  <1>5. CASE ReceiveBeat
    BY <1>5, ReceiveOrder
  <1>6. CASE Error
    <2>1. /\ terr' = TRUE /\ left' = 0
          /\ UNCHANGED <<mode, index, length, readOffset, buffer, got, arrived, isr, valid, on, at>>
      BY <1>6 DEF Error, double, rx
    <2>2. Unread' = Unread /\ ~Moving' /\ Swapping' = Swapping
      BY <2>1 DEF Unread, Moving, Swapping
    <2>3. Taken' /\ (Filling => Filling') /\ (Crossing => Crossing')
      BY <2>1, <2>2 DEF RxOrder, Taken, Increasing, Filling, Crossing, Run, Pending
    <2>4. QED
      BY <2>1, <2>2, <2>3 DEF RxOrder
  <1>7. CASE Handler
    BY <1>7, HandlerRx
  <1>8. CASE UNCHANGED vars
    <2>1. UNCHANGED <<mode, index, length, readOffset, buffer, got, arrived, isr, valid, on, at,
                     left, terr>>
      BY <1>8 DEF vars, double, dma, rx
    <2>2. Unread' = Unread /\ Moving' = Moving /\ Swapping' = Swapping
      BY <2>1 DEF Unread, Moving, Swapping
    <2>3. Taken' /\ (Filling => Filling') /\ (Crossing => Crossing')
      BY <2>1, <2>2 DEF RxOrder, Taken, Increasing, Filling, Crossing, Run, Pending
    <2>4. QED
      BY <2>1, <2>2, <2>3 DEF RxOrder
  <1>9. QED
    BY <1>1, <1>2, <1>3, <1>4, <1>5, <1>6, <1>7, <1>8 DEF Next

-----------------------------------------------------------------------------
(* What the sketch misses it misses in whole buffers: the bytes read fill   *)
(* buffers, and the last of them sits before the reading position.          *)
Whole ==
    ends = 0 =>
      /\ mode # "rx" => got = <<>>
      /\ \A i \in DOMAIN got : i > 1 /\ got[i] # got[i - 1] + 1 => (i - 1) % Size = 0
      /\ mode = "rx" /\ Swapping => \E k \in Nat : Len(got) = k * Size + 0
      /\ mode = "rx" /\ ~Swapping =>
            /\ \E k \in Nat : Len(got) = k * Size + readOffset[index]
            /\ 0 < readOffset[index] /\ readOffset[index] < length[index] =>
                  got[Len(got)] = buffer[index][readOffset[index]]

LEMMA Multiple == ASSUME NEW k \in Nat, NEW n \in Nat \ {0} PROVE (k * n) % n = 0
  <1> DEFINE q == (k * n) \div n
             r == (k * n) % n
  <1>1. k * n \in Nat
    OBVIOUS
  <1>2. r \in 0..(n - 1) /\ q \in Int /\ k * n = n * q + r
    BY <1>1
  <1> HIDE DEF q, r
  <1>3. n * (k - q) = r
    BY <1>2
  <1>4. k - q >= 1 => n * (k - q) >= n
    BY <1>2
  <1>5. k - q <= -1 => n * (k - q) <= -n
    BY <1>2
  <1>6. k = q
    BY <1>2, <1>3, <1>4, <1>5
  <1>7. QED
    BY <1>2, <1>3, <1>6 DEF r

\* Where in the stream, and where in the buffer, a byte that Read takes lies.
LEMMA Taking ==
  ASSUME NEW g \in Nat, NEW r \in Nat, NEW o \in Nat, NEW l \in Nat, NEW s \in Nat,
         o + r <= l, l <= s, NEW i \in (g + 1)..(g + r)
  PROVE  \E j \in 1..r : /\ i = g + j /\ o < l /\ o + j \in 1..s
                         /\ j > 1 => /\ j - 1 \in 1..r /\ i - 1 = g + (j - 1)
                                     /\ o + (j - 1) \in 1..s
                         /\ j = 1 => i - 1 = g
                         /\ o > 0 => o \in 1..s
  <1> DEFINE j == i - g
  <1>1. j \in 1..r /\ i = g + j /\ o < l /\ o + j \in 1..s
    OBVIOUS
  <1>2. (j > 1 => j - 1 \in 1..r /\ i - 1 = g + (j - 1) /\ o + (j - 1) \in 1..s)
    OBVIOUS
  <1>3. (j = 1 => i - 1 = g) /\ (o > 0 => o \in 1..s)
    OBVIOUS
  <1> HIDE DEF j
  <1>4. QED
    BY <1>1, <1>2, <1>3

LEMMA ReadWhole ==
  ASSUME BInv, RxOrder, Whole, NEW n \in 0..MaxLen, Read(n), ~reread' PROVE Whole'
  <1>0. SUFFICES ASSUME ~Swapping PROVE Whole'
    <2>1. SUFFICES ASSUME Swapping PROVE Whole'
      BY <2>1
    <2>2. /\ Swapping' /\ mode = "rx" /\ mode' = "rx" /\ Len(got') = Len(got) /\ ends' = ends
          /\ DOMAIN got' = DOMAIN got /\ \A i \in DOMAIN got : got'[i] = got[i]
      BY <2>1, SwapReads
    <2>3. ASSUME ends = 0, NEW i \in DOMAIN got', i > 1, got'[i] # got'[i - 1] + 1
          PROVE  (i - 1) % Size = 0
      <3>1. i \in DOMAIN got /\ i - 1 \in DOMAIN got
        <4>1. got \in Seq(Nat)
          BY DEF BInv, TypeOK
        <4> QED
          BY <2>2, <2>3, <4>1, LenProperties
      <3> QED
        BY <2>2, <2>3, <3>1 DEF Whole
    <2> QED
      BY <2>1, <2>2, <2>3 DEF Whole
  <1>1. PICK r \in 0..available : ReadEffect(r)
    BY ReadDoes
  <1>2. SUFFICES ASSUME ends = 0 PROVE Whole'
    BY <1>1 DEF ReadEffect, Whole
  <1> DEFINE o == readOffset[index]
             l == length[index]
  <1>3. /\ r \in Nat /\ o \in 0..Size /\ l \in 0..Size /\ o + r <= l /\ Len(got) \in Nat
        /\ Size \in Nat \ {0} /\ mode' = "rx" /\ buffer' = buffer
        /\ index \in Buffers /\ \A p \in 1..Size : buffer[index][p] \in Nat
        /\ DOMAIN got = 1..Len(got) /\ DOMAIN got' = 1..(Len(got) + r)
        /\ \A i \in 1..Len(got) : got'[i] = got[i]
        /\ \A i \in 1..r : got'[Len(got) + i] = buffer[index][o + i]
    BY <1>1, RxTypes DEF ReadEffect
  <1>4. Len(got') = Len(got) + r
    <2>1. got' \in Seq(Nat)
      BY ReadTyped DEF BInv, TypeOK
    <2>2. DOMAIN got' = 1..Len(got') /\ Len(got') \in Nat
      BY <2>1, LenProperties
    <2>3. QED
      BY <1>3, <2>2
  <1>5. /\ \E k \in Nat : Len(got) = k * Size + o
        /\ 0 < o /\ o < l => got[Len(got)] = buffer[index][o]
        /\ o < l => Run(index, Size)
        /\ l \in {0, Size}
    <2>1. CASE mode = "rx"
      BY <1>0, <1>2, <1>3, <2>1 DEF Whole, RxOrder, Filling, BInv, Drained
    <2>2. CASE mode = "idle"
      <3>1. got = <<>> /\ o = 0 /\ l = 0
        BY <1>2, <1>3, <2>2 DEF Whole, BInv, Offsets
      <3>2. Len(got) = 0 * Size + o /\ 0 \in Nat
        BY <1>3, <3>1, EmptySeq
      <3>3. QED
        BY <3>1, <3>2
    <2>3. QED
      BY <1>1, <2>1, <2>2 DEF ReadEffect
  <1>11. ~Swapping'
    BY <1>0, <1>1 DEF Swapping, ReadEffect
  <1>6. PICK k \in Nat : Len(got) = k * Size + o
    BY <1>5
  <1>7. ASSUME NEW i \in DOMAIN got', i > 1, got'[i] # got'[i - 1] + 1
        PROVE  (i - 1) % Size = 0
    <2>1. CASE i \in 1..Len(got)
      <3>1. i - 1 \in 1..Len(got)
        BY <1>3, <1>7, <2>1
      <3>2. got[i] # got[i - 1] + 1
        BY <1>3, <1>7, <2>1, <3>1
      <3>3. QED
        BY <1>2, <1>3, <1>7, <2>1, <3>2 DEF Whole
    <2>2. CASE i \notin 1..Len(got)
      <3>0. i \in (Len(got) + 1)..(Len(got) + r) /\ o \in Nat /\ l \in Nat /\ Size \in Nat
            /\ o + r <= l /\ l <= Size /\ Len(got) \in Nat /\ r \in Nat
        BY <1>3, <1>7, <2>2
      <3> HIDE DEF o, l
      <3>1. PICK j \in 1..r : /\ i = Len(got) + j /\ o < l /\ o + j \in 1..Size
                              /\ j > 1 => /\ j - 1 \in 1..r /\ i - 1 = Len(got) + (j - 1)
                                          /\ o + (j - 1) \in 1..Size
                              /\ j = 1 => i - 1 = Len(got)
                              /\ o > 0 => o \in 1..Size
        BY <3>0, Taking
      <3>2. got'[i] = buffer[index][o + j]
        BY <1>3, <3>1
      <3>3. \A p \in 1..Size : buffer[index][p] = buffer[index][1] + (p - 1)
        BY <1>5, <3>1 DEF Run
      <3>4. buffer[index][1] \in Nat
        BY <1>3
      <3> DEFINE f == buffer[index][1]
      <3>9. f \in Nat
        BY <3>4
      <3>10. got'[i] = f + ((o + j) - 1)
        BY <3>1, <3>2, <3>3
      <3>5. CASE j > 1
        <4>2. got'[i - 1] = f + ((o + (j - 1)) - 1)
          BY <1>3, <3>1, <3>3, <3>5
        <4> HIDE DEF f
        <4>4. got'[i] = got'[i - 1] + 1
          BY <3>0, <3>9, <3>10, <4>2
        <4>5. QED
          BY <1>7, <4>4
      <3>6. CASE j = 1 /\ o > 0
        <4>1. i - 1 = Len(got) /\ o \in 1..Size
          BY <3>1, <3>6
        <4>2. got[Len(got)] = buffer[index][o]
          BY <1>5, <3>1, <3>6
        <4>3. Len(got) \in 1..Len(got)
          BY <1>7, <3>0, <4>1
        <4>6. got'[i - 1] = f + (o - 1)
          BY <1>3, <3>3, <4>1, <4>2, <4>3
        <4> HIDE DEF f
        <4>4. got'[i] = got'[i - 1] + 1
          BY <3>0, <3>6, <3>9, <3>10, <4>6
        <4>5. QED
          BY <1>7, <4>4
      <3>7. CASE j = 1 /\ o = 0
        <4>1. i - 1 = k * Size
          <5>1. Len(got) = k * Size + 0
            BY <1>6, <3>7
          <5>2. k * Size \in Nat
            BY <3>0
          <5>3. QED
            BY <3>1, <3>7, <5>1, <5>2
        <4>2. QED
          BY <1>3, <4>1, Multiple
      <3>8. QED
        BY <3>0, <3>5, <3>6, <3>7
    <2>3. QED
      BY <2>1, <2>2
  <1>8. CASE /\ ~progress /\ ~valid /\ isr = "idle" /\ o + r = l
             /\ progress' = TRUE
             /\ valid' = TRUE /\ on' = index /\ at' = 0 /\ left' = Beats /\ terr' = terr
             /\ index' = 1 - index /\ length'[1 - index] = 0 /\ readOffset'[1 - index] = 0
    <2>1. readOffset'[index'] = 0
      BY <1>8
    <2>2. Len(got') = k * Size + l
      BY <1>3, <1>4, <1>6, <1>8
    <2>3. Len(got') = k * Size + 0 \/ Len(got') = (k + 1) * Size + 0
      BY SMTT(30), <1>3, <1>5, <2>2
    <2>4. \E m \in Nat : Len(got') = m * Size + readOffset'[index']
      BY <2>1, <2>3
    <2>5. QED
      BY <1>3, <1>7, <1>11, <2>1, <2>4, ~(0 < 0) DEF Whole
  <1>9. CASE /\ readOffset'[index] = o + r
             /\ UNCHANGED <<progress, valid, on, at, left, tcmpl, terr, index, length>>
    <2>1. Len(got') = k * Size + readOffset'[index']
      BY <1>3, <1>4, <1>6, <1>9
    <2>2. ASSUME 0 < readOffset'[index'], readOffset'[index'] < length'[index']
          PROVE  got'[Len(got')] = buffer'[index'][readOffset'[index']]
      <3>1. 0 < o + r /\ o < l
        BY <1>3, <1>9, <2>2
      <3>2. CASE r = 0
        <4>1. got[Len(got)] = buffer[index][o]
          BY <1>3, <1>5, <3>1, <3>2
        <4>2. Len(got) \in 1..Len(got) /\ Len(got') = Len(got)
          BY <1>3, <1>4, <1>6, <3>1, <3>2
        <4>3. QED
          BY <1>3, <1>9, <3>2, <4>1, <4>2
      <3>3. CASE r > 0
        <4>1. r \in 1..r
          BY <1>3, <3>3
        <4>2. QED
          BY <1>3, <1>4, <1>9, <4>1
      <3>4. QED
        BY <1>3, <3>2, <3>3
    <2>3. QED
      BY <1>3, <1>7, <1>11, <2>1, <2>2 DEF Whole
  <1>10. QED
    BY <1>1, <1>8, <1>9 DEF ReadEffect

LEMMA WholeNext ==
  BInv /\ ReceiverWaits /\ RxOrder /\ Whole /\ [Next]_vars /\ ~reread' => Whole'
  <1> SUFFICES ASSUME BInv, ReceiverWaits, RxOrder, Whole, [Next]_vars, ~reread' PROVE Whole'
    OBVIOUS
  <1>1. ASSUME NEW n \in Width..MaxLen, Write(n) PROVE Whole'
    <2>1. mode \in {"idle", "tx"} /\ mode' = "tx" /\ UNCHANGED <<got, ends>>
      BY <1>1 DEF Write, rx
    <2>2. QED
      BY <2>1 DEF Whole
  <1>2. ASSUME NEW n \in 0..MaxLen, Read(n) PROVE Whole'
    BY <1>2, ReadWhole
  <1>3. CASE EndBegin
    <2>1. ends' # 0
      <3>1. ends \in Nat
        BY I2sAssumption DEF BInv, TypeOK
      <3>2. QED
        BY <1>3, <3>1 DEF EndBegin
    <2>2. QED
      BY <2>1 DEF Whole
  <1>4. CASE SendBeat
    <2>1. mode # "rx" /\ UNCHANGED <<mode, got, ends>>
      BY <1>4 DEF SendBeat, rx
    <2>2. QED
      BY <2>1 DEF Whole
  <1>5. CASE ReceiveBeat
    <2>1. UNCHANGED <<mode, got, ends, index, length, readOffset>> /\ Swapping' = Swapping
      BY <1>5 DEF ReceiveBeat, Swapping
    <2>2. 0 < readOffset[index] /\ readOffset[index] < length[index] =>
              buffer'[index][readOffset[index]] = buffer[index][readOffset[index]]
      <3>1. SUFFICES ASSUME Moving, readOffset[index] < length[index]
                     PROVE  buffer'[index] = buffer[index]
        BY <1>5 DEF ReceiveBeat
      <3>2. /\ mode = "rx" /\ length[index] \in Nat /\ readOffset[index] \in Nat
        BY <1>5, RxTypes DEF ReceiveBeat
      <3>3. isr # "swap"
        BY <3>1, <3>2 DEF ReceiverWaits, available
      <3>4. on # index
        BY <3>1, <3>3 DEF BInv, IInv, Known, Separate, Typed, Moving
      <3>5. QED
        BY <1>5, <3>1, <3>4, RxTypes DEF ReceiveBeat, BInv, TypeOK
    <2>3. QED
      BY <2>1, <2>2 DEF Whole
  <1>6. CASE Error \/ ServiceError \/ Service \/ Test \/ Start \/ Stop
    <2>1. UNCHANGED <<mode, got, ends, index, length, readOffset, buffer>> /\ Swapping' = Swapping
      BY <1>6 DEF Error, ServiceError, Service, Test, Start, Stop, double, rx, Swapping
    <2>2. QED
      BY <2>1 DEF Whole
  <1>7. CASE SwapIndex
    <2>1. isr = "swap" /\ ~Swapping /\ Swapping' /\ UNCHANGED <<mode, got, ends>>
      BY <1>7 DEF SwapIndex, rx, Swapping
    <2>2. SUFFICES ASSUME mode = "rx", ends = 0
                   PROVE  \E k \in Nat : Len(got) = k * Size + 0
      BY <2>1 DEF Whole
    <2>3. PICK k \in Nat : Len(got) = k * Size + readOffset[index]
      BY <2>1, <2>2 DEF Whole
    <2>4. readOffset[index] = length[index] /\ length[index] \in {0, Size} /\ Size \in Nat
      BY <2>1, <2>2, RxTypes DEF BInv, Drained
    <2>5. Len(got) = k * Size + 0 \/ Len(got) = (k + 1) * Size + 0
      BY <2>3, <2>4
    <2>6. QED
      BY <2>5
  <1>10. CASE SetLength
    <2>1. Swapping /\ Swapping' /\ UNCHANGED <<mode, got, ends>>
      BY <1>10 DEF SetLength, rx, Swapping
    <2>2. QED
      BY <2>1 DEF Whole
  <1>11. CASE ResetOffset
    <2>1. Swapping /\ ~Swapping' /\ UNCHANGED <<mode, index, got, ends>>
          /\ readOffset' = [readOffset EXCEPT ![index] = 0]
      BY <1>11 DEF ResetOffset, rx, Swapping
    <2>2. readOffset'[index'] = 0
      BY <2>1, RxTypes DEF BInv, TypeOK
    <2>3. QED
      BY <2>1, <2>2 DEF Whole
  <1>8. CASE UNCHANGED vars
    <2>1. UNCHANGED <<mode, got, ends, index, length, readOffset, buffer>> /\ Swapping' = Swapping
      BY <1>8 DEF vars, double, rx, Swapping
    <2>2. QED
      BY <2>1 DEF Whole
  <1>9. QED
    BY <1>1, <1>2, <1>3, <1>4, <1>5, <1>6, <1>7, <1>8, <1>10, <1>11 DEF Next, Handler

(* What is said of the receiver holds until a handler has read between the  *)
(* last two stores of the swap.                                             *)
ReceivedWell == ~reread => RxOrder /\ Whole

LEMMA RereadNext == BInv /\ [Next]_vars /\ ~reread' => ~reread
  <1> SUFFICES ASSUME BInv, [Next]_vars, reread PROVE reread'
    BY DEF BInv, TypeOK
  <1>1. ASSUME NEW n \in Width..MaxLen, Write(n) PROVE reread'
    BY <1>1 DEF Write
  <1>2. ASSUME NEW n \in 0..MaxLen, Read(n) PROVE reread'
    BY <1>2 DEF Read
  <1>3. CASE EndBegin \/ SendBeat \/ ReceiveBeat \/ Error
    BY <1>3 DEF EndBegin, SendBeat, ReceiveBeat, Error, history
  <1>4. CASE Handler
    BY <1>4 DEF Handler, ServiceError, Service, Test, Start, Stop, SwapIndex, SetLength,
       ResetOffset, history
  <1>5. CASE UNCHANGED vars
    BY <1>5 DEF vars, history
  <1> QED
    BY <1>1, <1>2, <1>3, <1>4, <1>5 DEF Next

LEMMA ReceivedNext == BInv /\ ReceiverWaits /\ ReceivedWell /\ [Next]_vars => ReceivedWell'
  BY RereadNext, RxOrderNext, WholeNext DEF ReceivedWell

(* Samples go out in the order of the writes, and are read in the order of  *)
(* their arrival, each once and missing only in whole buffers, whatever the *)
(* sizes and the handlers, until a handler has read between the last two    *)
(* stores of a swap (I2S.cpp 303-387 and 480-512, I2SDoubleBuffer.cpp       *)
(* 120-130).                                                                *)
THEOREM SamplesInOrder == Spec => []InOrder
<1>1. Init => ReceiverWaits /\ TxOrder /\ ReceivedWell
  <2>1. Init => /\ out = <<>> /\ got = <<>> /\ mode = "idle" /\ isr = "idle"
    BY DEF Init
  <2>2. DOMAIN <<>> = {}
    OBVIOUS
  <2>3. QED
    BY <2>1, <2>2 DEF ReceiverWaits, Restarts, TxOrder, Sent, ReceivedWell, RxOrder, Taken,
       Increasing, Whole
<1>2. TxOrder /\ ReceivedWell => InOrder
  BY DEF TxOrder, Sent, ReceivedWell, RxOrder, Taken, Whole, InOrder
<1> QED
  BY <1>1, <1>2, TypedInit, TypedNext, WaitsNext, TxOrderNext, ReceivedNext, PTL
  DEF Spec
=============================================================================
