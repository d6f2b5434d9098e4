----------------------------- MODULE Usb_proofs -----------------------------
(***************************************************************************)
(* Proofs about the USB device, for every size of ring, bank, packet, read  *)
(* and call.                                                                *)
(*                                                                         *)
(* UsbOut, an OUT endpoint: types, the handing over of banks, that the      *)
(* hardware is always released and that the bytes keep their order.         *)
(* Cdc, the port on top of it: it implements the endpoint, so inherits all  *)
(* of that, and reports honest counts.                                      *)
(* UsbIn, an IN endpoint: send keeps the order of the bytes, loses only     *)
(* what a failing call gives up, and fails only for a host that does not    *)
(* poll or after an interrupt took the flag it waits for.                   *)
(* Time, which counts down to the reset the port's requests arm: the        *)
(* application is erased only when the host wants it; micros tells the time *)
(* and delay takes its time, for every rate, tick and width of the count.   *)
(***************************************************************************)
EXTENDS Cdc, UsbIn, Time, RingBuffer_proofs, TLAPS

(* The bank the sketch is working on.  While it gives a bank back, current  *)
(* names the next one already.                                              *)
Reading == IF pc = "release" THEN Other(current) ELSE current

(* Who owns the banks.  Either both are the sketch's and the hardware       *)
(* waits, or the one the next packet goes to is the hardware's.             *)
Handover ==
    /\ address = incoming
    /\ trcpt => full /\ ~notify
    /\ full => trcpt \/ notify
    /\ notify => full /\ ready[0] /\ ready[1] /\ Reading = incoming
    /\ ~notify => /\ ~ready[incoming]
                  /\ ready[Other(incoming)] <=> (Reading # incoming)
    /\ pc \in {"copy", "release"} => ready[Reading]

(* The counts a bank comes with are those of its contents.                  *)
Loaded ==
    /\ \A b \in Banks : ready[b] => last[b] <= Len(data[b])
    /\ trcpt => byteCount <= Len(data[address])

IInv == TypeOK /\ Handover /\ Loaded

LEMMA InitIInv == Init => IInv
  <1> SUFFICES ASSUME Init PROVE IInv
    OBVIOUS
  <1>1. EmptyRing \in Ring(Nat)
    BY RingAssumption DEF EmptyRing, Ring
  <1>2. /\ 0 \in 0 .. Size /\ 0 \in 0 .. N-1 /\ 0 \in 0 .. MaxRead
        /\ << >> \in Seq(Nat)
    BY RingAssumption, UsbAssumption
  <1>3. /\ [b \in Banks |-> 0] \in [Banks -> 0 .. Size]
        /\ [b \in Banks |-> FALSE] \in [Banks -> BOOLEAN]
        /\ [b \in Banks |-> << >>] \in [Banks -> Seq(Nat)]
    BY <1>2
  <1>4. TypeOK
    BY <1>1, <1>2, <1>3 DEF Init, TypeOK, Banks
  <1>5. Handover /\ Loaded
    BY DEF Init, Handover, Loaded, Reading, Banks, Other
  <1>6. QED
    BY <1>4, <1>5 DEF IInv

LEMMA HostPacketIInv ==
    ASSUME IInv, NEW n \in 0 .. Size, HostPacket(n)
    PROVE  IInv'
  <1> USE DEF IInv, bank
  <1> DEFINE packet == [i \in 1 .. n |-> sent + i]
  <1>1. packet \in Seq(Nat) /\ Len(packet) = n
    <2>1. n \in Nat /\ packet \in [1 .. n -> Nat]
      BY UsbAssumption DEF TypeOK
    <2>2. QED
      BY <2>1, SeqDef
  <1>2. TypeOK'
    BY <1>1, UsbAssumption DEF HostPacket, TypeOK, Banks
  <1>3. Handover'
    BY DEF HostPacket, Handover, Reading, TypeOK
  <1>4. Loaded'
    BY <1>1 DEF HostPacket, Handover, Loaded, TypeOK
  <1>5. QED
    BY <1>2, <1>3, <1>4

LEMMA HandleEndpointIInv ==
    ASSUME IInv, HandleEndpoint
    PROVE  IInv'
  <1> USE DEF IInv, Banks, Other, endpoint, EpRelease
  <1>1. CASE byteCount = 0
    BY <1>1 DEF HandleEndpoint, TypeOK, Handover, Loaded, Reading
  <1>2. CASE byteCount # 0
    <2>1. TypeOK'
      <3>1. last' \in [Banks -> 0 .. Size] /\ ready' \in [Banks -> BOOLEAN]
        BY <1>2 DEF HandleEndpoint, TypeOK
      <3>2. notify' \in BOOLEAN /\ full' \in BOOLEAN /\ trcpt' \in BOOLEAN
        <4>1. ready[Other(incoming)] \in BOOLEAN
          BY DEF TypeOK
        <4>2. /\ notify' = ready[Other(incoming)] /\ trcpt' = FALSE
              /\ full' \in {full, FALSE}
          BY <1>2 DEF HandleEndpoint
        <4>3. QED
          BY <4>1, <4>2 DEF TypeOK
      <3>3. incoming' \in Banks /\ address' \in Banks
        BY <1>2 DEF HandleEndpoint, TypeOK
      <3>4. UNCHANGED <<ring, current, first, data, sent, zlps,
                        pc, len, count, want, got>>
        BY DEF HandleEndpoint
      <3>5. byteCount' \in 0 .. Size
        BY <1>2, UsbAssumption DEF HandleEndpoint, TypeOK
      <3>6. QED
        BY <3>1, <3>2, <3>3, <3>4, <3>5 DEF TypeOK
    <2>2. ~notify /\ ~ready[incoming] /\ address = incoming
      BY DEF HandleEndpoint, Handover
    <2>3. CASE ready[Other(incoming)]
      <3>1. /\ full' /\ ~trcpt' /\ notify' /\ ready'[0] /\ ready'[1]
            /\ incoming' = Other(incoming) /\ Reading' = Reading
            /\ Reading # incoming
        BY <1>2, <2>2, <2>3 DEF HandleEndpoint, TypeOK, Handover, Reading
      <3>2. QED
        BY SMTT(30), <1>2, <2>1, <2>2, <2>3, <3>1
           DEF HandleEndpoint, TypeOK, Handover, Loaded, Reading
    <2>4. CASE ~ready[Other(incoming)]
      <3>1. /\ ~full' /\ ~trcpt' /\ ~notify'
            /\ ready'[incoming] /\ ~ready'[Other(incoming)]
            /\ incoming' = Other(incoming) /\ Reading' = Reading
            /\ Reading = incoming
        <4>1. /\ ready' = [ready EXCEPT ![incoming] = TRUE]
              /\ notify' = ready[Other(incoming)]
              /\ incoming' = Other(incoming) /\ Reading' = Reading
              /\ ~trcpt' /\ IF notify' THEN UNCHANGED endpoint ELSE EpRelease
          BY <1>2 DEF HandleEndpoint, Reading
        <4>2. Other(incoming) \in Banks /\ Other(incoming) # incoming
          BY DEF TypeOK
        <4>3. Reading = incoming
          BY <2>2, <2>4 DEF Handover
        <4>4. QED
          BY <2>4, <4>1, <4>2, <4>3 DEF TypeOK
      <3>2. QED
        BY <1>2, <2>1, <2>2, <2>4, <3>1
           DEF HandleEndpoint, TypeOK, Handover, Loaded, Reading
    <2>5. QED
      BY <2>3, <2>4
  <1>3. QED
    BY <1>1, <1>2

(* The calls of the sketch.                                                 *)
LEMMA RecvIInv ==
    ASSUME IInv, (\E n \in 0 .. MaxRead : Call(n)) \/ RecvStep
    PROVE  IInv'
  <1> USE DEF IInv, Go, bank, hw, Banks, Other, endpoint, EpRelease
  <1>1. CASE \E n \in 0 .. MaxRead : Call(n)
    BY <1>1, RingAssumption DEF Call, TypeOK, Handover, Loaded, Reading
  <1>2. CASE Room
    <2>1. AvailableForStore(ring) \in 0 .. N-1
      <3>1. AvailableForStore(ring) \in Int
        BY SMTT(30), RingAssumption DEF AvailableForStore, SpaceFrom, TypeOK, Ring
      <3>2. QED
        BY <3>1, RingAccount, RingAssumption DEF TypeOK
    <2>2. QED
      BY <1>2, <2>1 DEF Room, TypeOK, Handover, Loaded, Reading
  <1>3. CASE TestReady
    BY <1>3 DEF TestReady, TypeOK, Handover, Loaded, Reading
  <1>4. CASE CopyByte
    <2>1. data[current][first[current] + 1] \in Nat
      <3>1. ready[current] /\ first[current] < last[current]
        BY <1>4 DEF CopyByte, Handover, Reading
      <3>2. first[current] + 1 \in 1 .. Len(data[current])
        BY SMTT(30), <3>1, UsbAssumption DEF TypeOK, Loaded
      <3>3. QED
        BY <3>2, ElementOfSeq DEF TypeOK
    <2>2. ring' \in Ring(Nat)
      BY <1>4, <2>1, StoreCharType DEF CopyByte, TypeOK
    <2>3. first' \in [Banks -> 0 .. Size] /\ count' \in 0 .. N-1
      BY <1>4, RingAssumption, UsbAssumption DEF CopyByte, TypeOK
    <2>4. QED
      BY <1>4, <2>2, <2>3 DEF CopyByte, TypeOK, Handover, Loaded, Reading
  <1>5. CASE CopyEnd
    <2>1. TypeOK' /\ Loaded'
      BY <1>5, UsbAssumption DEF CopyEnd, TypeOK, Loaded
    <2>2. Reading' = Reading
      BY <1>5 DEF CopyEnd, TypeOK, Reading
    <2>3. Handover'
      BY <1>5, <2>2 DEF CopyEnd, TypeOK, Handover
    <2>4. QED
      BY <2>1, <2>3
  <1>6. CASE Release
    <2>1. TypeOK' /\ Loaded'
      <3>1. ready' \in [Banks -> BOOLEAN] /\ notify' = FALSE
        BY <1>6 DEF Release, TypeOK
      <3>2. full' \in BOOLEAN /\ byteCount' \in 0 .. Size
        <4>1. full' \in {full, FALSE} /\ byteCount' \in {byteCount, 0}
          BY <1>6 DEF Release
        <4>2. full' \in BOOLEAN
          BY <4>1, Zenon DEF TypeOK
        <4>3. byteCount' \in 0 .. Size
          BY <4>1, UsbAssumption, SMT DEF TypeOK
        <4>4. QED
          BY <4>2, <4>3
      <3>3. pc' = "answer" /\ UNCHANGED <<ring, current, first, hw, len, count,
                                         want, got>>
        BY <1>6 DEF Release
      <3>4. TypeOK'
        BY <3>1, <3>2, <3>3 DEF TypeOK
      <3>5. \A b \in Banks : ready'[b] => ready[b]
        BY <1>6 DEF Release, TypeOK
      <3>6. trcpt => byteCount' = byteCount
        BY <1>6 DEF Release, Handover
      <3>7. Loaded'
        BY <3>3, <3>5, <3>6 DEF Loaded
      <3>8. QED
        BY <3>4, <3>7
    <2>2. /\ Reading = Other(current) /\ Reading' = current
          /\ ~ready'[Other(current)] /\ ready'[current] = ready[current]
      <3>1. pc = "release" /\ pc' = "answer" /\ current' = current
        BY <1>6 DEF Release
      <3>2. Reading = Other(current) /\ Reading' = current
        BY <3>1 DEF Reading
      <3>3. Other(current) \in Banks /\ Other(current) # current
        BY DEF TypeOK
      <3>4. ready' = [ready EXCEPT ![Other(current)] = FALSE]
        BY <1>6 DEF Release
      <3>5. QED
        BY <3>2, <3>3, <3>4 DEF TypeOK
    <2>3. Handover'
      BY <1>6, <2>2 DEF Release, TypeOK, Handover
    <2>4. QED
      BY <2>1, <2>3
  <1>7. CASE Answer
    <2> DEFINE n == IF want < Available(ring) THEN want ELSE Available(ring)
    <2>1. n \in Nat /\ n <= Available(ring)
      BY RingAccount, RingAssumption, UsbAssumption DEF TypeOK
    <2>2. SubSeq(Contents(ring), 1, n) \in Seq(Nat)
      <3>1. Contents(ring) \in Seq(Nat) /\ Len(Contents(ring)) = Available(ring)
        BY ContentsSeq DEF TypeOK
      <3>2. \A i \in 1 .. Len(Contents(ring)) : Contents(ring)[i] \in Nat
        BY <3>1, ElementOfSeq
      <3>3. \A i \in 1 .. n : Contents(ring)[i] \in Nat
        <4> HIDE DEF n
        <4>1. QED
          BY <2>1, <3>1, <3>2
      <3>4. QED
        <4> HIDE DEF n
        <4>1. QED
          BY <2>1, <3>3, SubSeqProperties
    <2>3. ring' \in Ring(Nat)
      <3>1. (ring.tail + n) % N \in 0 .. N-1
        <4>1. ring.tail + n \in Nat
          <5> HIDE DEF n
          <5>1. QED
            BY <2>1, RingAssumption DEF TypeOK, Ring
        <4>2. \A k \in Nat : k % N \in 0 .. N-1
          BY RingAssumption
        <4>3. QED
          BY <4>1, <4>2
      <3>2. ring' = [ring EXCEPT !.tail = (@ + n) % N]
        BY <1>7 DEF Answer
      <3>3. QED
        BY <3>1, <3>2 DEF TypeOK, Ring
    <2>4. got' \in Seq(Nat)
      BY <1>7, <2>2 DEF Answer, TypeOK
    <2>5. QED
      <3>1. TypeOK'
        <4>1. 0 \in 0 .. N-1 /\ 0 \in 0 .. MaxRead
          BY RingAssumption, UsbAssumption
        <4>2. QED
          BY <1>7, <2>3, <2>4, <4>1 DEF Answer, TypeOK
      <3>2. Handover' /\ Loaded'
        BY <1>7 DEF Answer, TypeOK, Handover, Loaded, Reading
      <3>3. QED
        BY <3>1, <3>2
  <1>8. QED
    BY <1>1, <1>2, <1>3, <1>4, <1>5, <1>6, <1>7 DEF RecvStep

LEMMA NextIInv == IInv /\ [Next]_vars => IInv'
  <1> SUFFICES ASSUME IInv, [Next]_vars PROVE IInv'
    OBVIOUS
  <1>1. ASSUME NEW n \in 0 .. Size, HostPacket(n) PROVE IInv'
    BY <1>1, HostPacketIInv
  <1>2. CASE HandleEndpoint
    BY <1>2, HandleEndpointIInv
  <1>3. CASE (\E n \in 0 .. MaxRead : Call(n)) \/ RecvStep
    BY <1>3, RecvIInv
  <1>4. CASE UNCHANGED vars
    BY <1>4 DEF IInv, vars, bank, hw, endpoint, TypeOK, Handover, Loaded, Reading
  <1>5. QED
    BY <1>1, <1>2, <1>3, <1>4 DEF Next

-----------------------------------------------------------------------------
(* Indices, counts and flags of the endpoint keep their types.              *)
THEOREM EndpointTyped == Spec => []TypeOK
  <1>1. IInv => TypeOK
    BY DEF IInv
  <1>2. QED
    BY InitIInv, NextIInv, <1>1, PTL DEF Spec

(* While the hardware refuses packets there is an interrupt to be served or *)
(* a sketch that finds a bank to read and will release it: the flags of     *)
(* handleEndpoint and _recv lose no release in any interleaving.            *)
THEOREM ReleaseNeverLost == Spec => []NoLostRelease
  <1>1. IInv => NoLostRelease
    BY DEF IInv, TypeOK, Handover, NoLostRelease, Banks
  <1>2. QED
    BY InitIInv, NextIInv, <1>1, PTL DEF Spec

(* Neither host nor interrupt touches a bank that is the sketch's.          *)
THEOREM BankNeverOverwritten == Spec => BankStable
  <1> DEFINE Kept == \A b \in Banks :
                 ready[b] => data'[b] = data[b] /\ last'[b] = last[b]
  <1>1. IInv /\ [Next]_vars => [Kept]_vars
    <2> SUFFICES ASSUME IInv, [Next]_vars PROVE Kept
      OBVIOUS
    <2> USE DEF IInv, TypeOK, Handover, Banks, Other
    <2>1. ASSUME NEW n \in 0 .. Size, HostPacket(n) PROVE Kept
      BY <2>1 DEF HostPacket
    <2>2. CASE HandleEndpoint
      BY <2>2 DEF HandleEndpoint
    <2>3. CASE (\E n \in 0 .. MaxRead : Call(n)) \/ RecvStep
      BY <2>3 DEF Call, RecvStep, Room, TestReady, CopyByte, CopyEnd,
                  Release, Answer, hw
    <2>4. CASE UNCHANGED vars
      BY <2>4 DEF vars, hw
    <2>5. QED
      BY <2>1, <2>2, <2>3, <2>4 DEF Next
  <1>2. QED
    BY InitIInv, NextIInv, <1>1, PTL DEF Spec, BankStable

-----------------------------------------------------------------------------
(* The order of the bytes.                                                  *)

(* The bytes of a bank still to copy, and those the ring has or had.        *)
Unread(b) == IF ready[b] /\ (pc = "release" => b = current) THEN last[b] - first[b] ELSE 0
Stored == Len(got) + Available(ring)

(* The counts are exact, and a call copies no more than the ring has room   *)
(* for.                                                                     *)
Exact ==
    /\ \A b \in Banks : ready[b] => last[b] = Len(data[b]) /\ first[b] <= last[b]
    /\ \A b \in Banks : ~ready[b] \/ b # current => first[b] = 0
    /\ trcpt => byteCount = Len(data[address])
    /\ pc \in {"room", "test"} => count = 0
    /\ pc \in {"test", "copy"} => len - count <= AvailableForStore(ring)

(* Every byte is where its number puts it: read, in the ring, in the bank   *)
(* being read, in the other one, or in the packet just received.            *)
Ordered ==
    /\ \A i \in 1 .. Len(got) : got[i] = i
    /\ \A k \in 1 .. Available(ring) : Contents(ring)[k] = Len(got) + k
    /\ \A k \in 1 .. Unread(current) : data[current][first[current] + k] = Stored + k
    /\ \A k \in 1 .. Unread(Other(current)) :
          data[Other(current)][first[Other(current)] + k] = Stored + Unread(current) + k
    /\ trcpt => \A k \in 1 .. Len(data[address]) :
          data[address][k] = Stored + Unread(current) + Unread(Other(current)) + k
    /\ sent = Stored + Unread(current) + Unread(Other(current))
                 + (IF trcpt THEN Len(data[address]) ELSE 0)

OInv == IInv /\ Exact /\ Ordered

LEMMA OTypes ==
    ASSUME OInv
    PROVE  /\ Len(got) \in Nat /\ Available(ring) \in Nat /\ Stored \in Nat /\ sent \in Nat
           /\ current \in Banks /\ Other(current) \in Banks /\ Other(current) # current
           /\ \A b \in Banks : b = current \/ b = Other(current)
           /\ incoming \in Banks /\ address = incoming
           /\ \A b \in Banks : /\ Unread(b) \in Nat /\ Len(data[b]) \in Nat
                              /\ first[b] \in Nat /\ last[b] \in Nat
                              /\ ready[b] \in BOOLEAN
  <1> USE DEF OInv, IInv
  <1>1. Len(got) \in Nat /\ \A b \in Banks : Len(data[b]) \in Nat
    BY DEF TypeOK
  <1>2. Available(ring) \in Nat
    BY RingAccount, RingAssumption DEF TypeOK
  <1>3. /\ current \in Banks /\ Other(current) \in Banks /\ Other(current) # current
        /\ \A b \in Banks : b = current \/ b = Other(current)
        /\ incoming \in Banks /\ address = incoming
    BY DEF TypeOK, Banks, Other, Handover
  <1>4. \A b \in Banks : first[b] \in Nat /\ last[b] \in Nat /\ ready[b] \in BOOLEAN
    BY UsbAssumption DEF TypeOK
  <1>5. \A b \in Banks : Unread(b) \in Nat
    BY <1>4 DEF Unread, Exact
  <1>6. sent \in Nat
    BY DEF TypeOK
  <1>7. Stored \in Nat
    BY <1>1, <1>2 DEF Stored
  <1>8. QED
    BY <1>1, <1>2, <1>3, <1>4, <1>5, <1>6, <1>7

LEMMA InitOInv == Init => OInv
  <1> SUFFICES ASSUME Init PROVE OInv
    OBVIOUS
  <1>1. IInv
    BY InitIInv
  <1>2. Available(ring) = 0
    BY DEF Init, EmptyRing, Available
  <1>3. Len(got) = 0 /\ \A b \in Banks : Unread(b) = 0
    BY DEF Init, Unread, Banks
  <1>4. current \in Banks /\ Other(current) \in Banks
    BY DEF Init, Banks, Other
  <1>5. Exact
    BY DEF Init, Exact, Banks
  <1>6. Ordered
    BY <1>2, <1>3, <1>4 DEF Init, Ordered, Stored
  <1>7. QED
    BY <1>1, <1>5, <1>6 DEF OInv

LEMMA HostPacketOInv ==
    ASSUME OInv, NEW n \in 0 .. Size, HostPacket(n)
    PROVE  OInv'
  <1>1. IInv'
    BY HostPacketIInv DEF OInv
  <1> DEFINE packet == [i \in 1 .. n |-> sent + i]
  <1>2. Len(packet) = n /\ n \in Nat /\ \A k \in 1 .. n : packet[k] = sent + k
    <2>1. n \in Nat /\ packet \in [1 .. n -> Nat]
      BY UsbAssumption DEF OInv, IInv, TypeOK
    <2>2. QED
      BY <2>1, SeqDef
  <1>3. ~trcpt /\ ~ready[incoming] /\ address = incoming
    BY DEF HostPacket, OInv, IInv, Handover
  <1>4. /\ data' = [data EXCEPT ![address] = packet] /\ byteCount' = n /\ trcpt' = TRUE
        /\ sent' = sent + n
        /\ UNCHANGED <<ring, bank, incoming, last, address, pc, len, count, want, got>>
    BY DEF HostPacket
  <1>5. /\ \A b \in Banks : Unread(b)' = Unread(b)
        /\ Stored' = Stored /\ Other(current)' = Other(current)
    BY <1>4 DEF bank, Unread, Stored, Other
  <1>6. /\ \A b \in Banks : b # address => data'[b] = data[b]
        /\ data'[address] = packet /\ address \in Banks
    BY <1>4, OTypes DEF OInv, IInv, TypeOK
  <1>7. Exact'
    BY <1>2, <1>3, <1>4, <1>6 DEF OInv, Exact, bank
  <1>8. Unread(incoming) = 0
    BY <1>3 DEF Unread
  <1>9. Ordered'
    <2>1. \A b \in Banks : \A k \in 1 .. Unread(b) :
             data'[b][first'[b] + k] = data[b][first[b] + k]
      BY <1>3, <1>4, <1>6, <1>8 DEF bank
    <2>2. current' = current /\ got' = got /\ ring' = ring /\ address' = address
      BY <1>4 DEF bank
    <2>3. \A k \in 1 .. Unread(current)' : data'[current'][first'[current'] + k] = Stored' + k
      BY <1>5, <2>1, <2>2, OTypes DEF OInv, Ordered
    <2>4. \A k \in 1 .. Unread(Other(current))' :
             data'[Other(current)'][first'[Other(current)'] + k] = Stored' + Unread(current)' + k
      BY <1>5, <2>1, <2>2, OTypes DEF OInv, Ordered
    <2>5. sent = Stored + Unread(current) + Unread(Other(current))
      BY <1>3, OTypes DEF OInv, Ordered
    <2>6. \A k \in 1 .. Len(data'[address']) :
             data'[address'][k] = Stored' + Unread(current)' + Unread(Other(current))' + k
      BY <1>2, <1>5, <1>6, <2>2, <2>5, OTypes
    <2>7. sent' = Stored' + Unread(current)' + Unread(Other(current))' + Len(data'[address'])
      BY <1>2, <1>4, <1>5, <1>6, <2>2, <2>5, OTypes
    <2>8. QED
      BY <1>4, <2>2, <2>3, <2>4, <2>6, <2>7 DEF OInv, Ordered
  <1>10. QED
    BY <1>1, <1>7, <1>9 DEF OInv

LEMMA HandleEndpointOInv ==
    ASSUME OInv, HandleEndpoint
    PROVE  OInv'
  <1>1. IInv'
    BY HandleEndpointIInv DEF OInv
  <1>2. trcpt /\ trcpt' = FALSE /\ ~notify /\ ~ready[incoming] /\ address = incoming
    BY DEF HandleEndpoint, OInv, IInv, Handover
  <1>3. UNCHANGED <<ring, current, first, data, sent, pc, len, count, got>>
    BY DEF HandleEndpoint
  <1>4. Stored' = Stored /\ Other(current)' = Other(current)
    BY <1>3 DEF Stored, Other
  <1>5. CASE byteCount = 0
    <2>1. ready' = ready /\ last' = last
      BY <1>5 DEF HandleEndpoint
    <2>2. \A b \in Banks : Unread(b)' = Unread(b)
      BY <1>3, <2>1 DEF Unread
    <2>3. Exact'
      BY <1>2, <1>3, <2>1 DEF OInv, Exact
    <2>4. Len(data[address]) = 0
      BY <1>2, <1>5 DEF OInv, Exact
    <2>5. sent = Stored + Unread(current) + Unread(Other(current))
      BY <1>2, <2>4, OTypes DEF OInv, Ordered
    <2>6. Ordered'
      BY <1>2, <1>3, <1>4, <2>2, <2>5, OTypes DEF OInv, Ordered
    <2>7. QED
      BY <1>1, <2>3, <2>6 DEF OInv
  <1>6. CASE byteCount # 0
    <2>1. /\ last' = [last EXCEPT ![incoming] = byteCount]
          /\ ready' = [ready EXCEPT ![incoming] = TRUE]
      BY <1>6 DEF HandleEndpoint
    <2>2. /\ last'[incoming] = Len(data[incoming]) /\ ready'[incoming]
          /\ \A b \in Banks : b # incoming => last'[b] = last[b] /\ ready'[b] = ready[b]
      BY <1>2, <2>1, OTypes DEF OInv, IInv, TypeOK, Exact
    <2>3. first[incoming] = 0
      BY <1>2, OTypes DEF OInv, Exact
    <2>4. Exact'
      <3>1. \A b \in Banks : ready'[b] => last'[b] = Len(data'[b]) /\ first'[b] <= last'[b]
        <4> TAKE b \in Banks
        <4>1. CASE b = incoming
          BY <1>3, <2>2, <2>3, <4>1, OTypes
        <4>2. CASE b # incoming
          BY <1>3, <2>2, <4>2 DEF OInv, Exact
        <4>3. QED
          BY <4>1, <4>2
      <3>2. \A b \in Banks : ~ready'[b] \/ b # current' => first'[b] = 0
        BY <1>3, <2>2, <2>3 DEF OInv, Exact
      <3>3. QED
        BY <1>2, <1>3, <3>1, <3>2 DEF OInv, Exact
    <2>5. Unread(incoming) = 0
      BY <1>2 DEF Unread
    <2>6. \A b \in Banks : b # incoming => Unread(b)' = Unread(b)
      BY <1>3, <2>2 DEF Unread
    <2>7. CASE incoming = current
      <3>1. pc # "release" => ~ready[Other(current)]
        BY <1>2, <2>7, OTypes DEF OInv, IInv, Handover, Reading
      <3>2. Unread(Other(current)) = 0 /\ Unread(Other(current))' = 0
        BY <1>4, <2>6, <2>7, <3>1, OTypes DEF Unread
      <3>3. Unread(current)' = Len(data[current])
        BY <1>3, <2>2, <2>3, <2>7, OTypes DEF Unread
      <3>4. \A k \in 1 .. Len(data[current]) : data[current][k] = Stored + k
        BY <1>2, <2>5, <2>7, <3>2, OTypes DEF OInv, Ordered
      <3>5. sent = Stored + Len(data[current])
        BY <1>2, <2>5, <2>7, <3>2, OTypes DEF OInv, Ordered
      <3>6. ASSUME NEW k \in 1 .. Unread(current)'
            PROVE  data'[current'][first'[current'] + k] = Stored' + k
        <4>1. k \in 1 .. Len(data[current]) /\ k \in Nat
          BY <3>3, OTypes
        <4>2. first'[current'] + k = k
          BY <1>3, <2>3, <2>7, <4>1
        <4>3. QED
          BY <1>3, <1>4, <3>4, <4>1, <4>2
      <3>7. Ordered'
        <4>1. /\ \A i \in 1 .. Len(got) : got[i] = i
              /\ \A k \in 1 .. Available(ring) : Contents(ring)[k] = Len(got) + k
          BY DEF OInv, Ordered
        <4>2. /\ \A i \in 1 .. Len(got') : got'[i] = i
              /\ \A k \in 1 .. Available(ring') : Contents(ring')[k] = Len(got') + k
          BY <1>3, <4>1
        <4>3. sent' = Stored' + Unread(current)' + Unread(Other(current))'
                         + (IF trcpt' THEN Len(data'[address']) ELSE 0)
          BY <1>2, <1>3, <1>4, <3>2, <3>3, <3>5, OTypes
        <4>4. \A k \in 1 .. Unread(Other(current))' : FALSE
          BY <3>2
        <4> QED
          BY <1>2, <3>6, <4>2, <4>3, <4>4 DEF Ordered
      <3>8. QED
        BY <1>1, <2>4, <3>7 DEF OInv
    <2>8. CASE incoming # current
      <3>1. incoming = Other(current)
        BY <2>8, OTypes
      <3>2. pc # "release"
        BY <1>2, <2>8, <3>1, OTypes DEF OInv, IInv, Handover, Reading
      <3>3. Unread(current)' = Unread(current) /\ Unread(Other(current)) = 0
        BY <1>3, <2>5, <2>6, <2>8, <3>1, OTypes
      <3>4. Unread(Other(current))' = Len(data[incoming])
        BY <1>3, <1>4, <2>2, <2>3, <3>1, <3>2, OTypes DEF Unread
      <3>5. \A k \in 1 .. Len(data[incoming]) : data[incoming][k] = Stored + Unread(current) + k
        BY <1>2, <3>3, OTypes DEF OInv, Ordered
      <3>6. sent = Stored + Unread(current) + Len(data[incoming])
        BY <1>2, <3>3, OTypes DEF OInv, Ordered
      <3>7. \A k \in 1 .. Unread(Other(current))' :
               data'[Other(current)'][first'[Other(current)'] + k] = Stored' + Unread(current)' + k
        BY <1>3, <1>4, <2>3, <3>1, <3>3, <3>4, <3>5, OTypes
      <3>8. \A k \in 1 .. Unread(current)' : data'[current'][first'[current'] + k] = Stored' + k
        BY <1>3, <1>4, <3>3 DEF OInv, Ordered
      <3>9. Ordered'
        BY <1>2, <1>3, <1>4, <3>3, <3>4, <3>6, <3>7, <3>8, OTypes DEF OInv, Ordered
      <3>10. QED
        BY <1>1, <2>4, <3>9 DEF OInv
    <2>9. QED
      BY <2>7, <2>8
  <1>7. QED
    BY <1>5, <1>6

LEMMA CopyByteOInv ==
    ASSUME OInv, CopyByte
    PROVE  OInv'
  <1>1. IInv'
    BY RecvIInv DEF OInv, RecvStep
  <1> DEFINE byte == data[current][first[current] + 1]
  <1>2. /\ pc = "copy" /\ count < len /\ first[current] < last[current]
        /\ ring' = StoreChar(ring, byte)
        /\ first' = [first EXCEPT ![current] = @ + 1] /\ count' = count + 1
        /\ UNCHANGED <<current, ready, last, data, address, trcpt, byteCount, sent, pc,
                       len, got>>
    BY DEF CopyByte, endpoint, hw
  <1>3. ready[current]
    BY <1>2 DEF OInv, IInv, Handover, Reading
  <1>4. Unread(current) = last[current] - first[current] /\ Unread(current) > 0
    BY <1>2, <1>3, OTypes DEF Unread
  <1>5. byte = Stored + 1 /\ byte \in Nat
    <2>1. 1 \in 1 .. Unread(current)
      BY <1>4, OTypes
    <2>2. QED
      BY SMTT(30), <2>1, OTypes DEF OInv, Ordered
  <1>6. ring \in Ring(Nat) /\ AvailableForStore(ring) \in Int /\ len \in Nat /\ count \in Nat
    <2>1. ring \in Ring(Nat) /\ len \in Nat /\ count \in Nat
      BY RingAssumption DEF OInv, IInv, TypeOK
    <2>2. AvailableForStore(ring) \in Int
      BY <2>1, RingAssumption DEF AvailableForStore, SpaceFrom, Ring
    <2>3. QED
      BY <2>1, <2>2
  <1>7. ~IsFull(ring)
    <2>1. len - count <= AvailableForStore(ring)
      BY <1>2 DEF OInv, Exact
    <2>2. AvailableForStore(ring) # 0
      BY <1>2, <1>6, <2>1
    <2>3. QED
      BY <1>6, <2>2, RingAccount
  <1>8. /\ ring' \in Ring(Nat) /\ ring'.head = NextIndex(ring.head) /\ ring'.tail = ring.tail
        /\ ring'.buf[ring.head] = byte
        /\ \A i \in 0 .. N-1 : i # ring.head => ring'.buf[i] = ring.buf[i]
    <2>1. ring' \in Ring(Nat)
      BY <1>2, <1>5, <1>6, StoreCharType
    <2>2. ring' = [ring EXCEPT !.buf[ring.head] = byte, !.head = NextIndex(@)]
      BY <1>2, <1>7 DEF StoreChar
    <2>3. QED
      BY <1>6, <2>1, <2>2 DEF Ring
  <1>9. /\ Available(ring') = Available(ring) + 1
        /\ \A k \in 1 .. Available(ring) : Contents(ring')[k] = Contents(ring)[k]
        /\ Contents(ring')[Available(ring) + 1] = byte
    BY <1>6, <1>7, <1>8, HeadMoves
  <1>10. first'[current] = first[current] + 1 /\ \A b \in Banks : b # current => first'[b] = first[b]
    BY <1>2, OTypes DEF OInv, IInv, TypeOK
  <1>11. Exact'
    <2>1. AvailableForStore(ring') = AvailableForStore(ring) - 1
      <3>1. /\ Available(ring) + AvailableForStore(ring) = N - 1
            /\ Available(ring') + AvailableForStore(ring') = N - 1
        BY <1>6, <1>8, RingAccount
      <3>2. AvailableForStore(ring') \in Int
        BY <1>8, RingAssumption DEF AvailableForStore, SpaceFrom, Ring
      <3>3. QED
        BY <1>6, <1>9, <3>1, <3>2, OTypes, RingAssumption
    <2>2. len' - count' <= AvailableForStore(ring')
      BY <1>2, <1>6, <2>1 DEF OInv, Exact
    <2>3. \A b \in Banks : ready[b] => last[b] = Len(data[b]) /\ first'[b] <= last[b]
      BY SMTT(30), <1>2, <1>10, OTypes DEF OInv, Exact
    <2>4. \A b \in Banks : ~ready[b] \/ b # current => first'[b] = 0
      BY <1>3, <1>10 DEF OInv, Exact
    <2>5. QED
      BY <1>2, <2>2, <2>3, <2>4 DEF OInv, Exact
  <1>12. /\ Stored' = Stored + 1 /\ Unread(current)' = Unread(current) - 1
         /\ Unread(Other(current))' = Unread(Other(current))
         /\ Other(current)' = Other(current)
    <2>1. Stored' = Stored + 1
      BY <1>2, <1>9, OTypes DEF Stored
    <2>2. Other(current)' = Other(current)
      BY <1>2 DEF Other
    <2>3. Unread(Other(current))' = Unread(Other(current))
      BY <1>2, <1>10, <2>2, OTypes DEF Unread
    <2>4. Unread(current)' = Unread(current) - 1
      BY <1>2, <1>3, <1>10, OTypes DEF Unread
    <2>5. QED
      BY <2>1, <2>2, <2>3, <2>4
  <1>13. Ordered'
    <2>1. \A k \in 1 .. Available(ring)' : Contents(ring')[k] = Len(got) + k
      <3>1. \A k \in 1 .. Available(ring) : Contents(ring')[k] = Len(got) + k
        BY <1>9 DEF OInv, Ordered
      <3>2. Contents(ring')[Available(ring) + 1] = Len(got) + (Available(ring) + 1)
        BY <1>5, <1>9, OTypes DEF Stored
      <3>3. QED
        BY <1>9, <3>1, <3>2, OTypes
    <2>2. ASSUME NEW k \in 1 .. Unread(current)'
          PROVE  data'[current'][first'[current'] + k] = Stored' + k
      <3>1. k + 1 \in 1 .. Unread(current)
        BY <1>12, OTypes
      <3>2. data[current][first[current] + (k + 1)] = Stored + (k + 1)
        BY <3>1 DEF OInv, Ordered
      <3>3. k \in Nat /\ first[current] \in Nat /\ Stored \in Nat
        BY <3>1, OTypes
      <3>4. first'[current'] = first[current] + 1
        BY <1>2, <1>10
      <3>5. first'[current'] + k = first[current] + (k + 1)
        BY <3>3, <3>4
      <3>6. Stored' + k = Stored + (k + 1)
        BY <1>12, <3>3
      <3>7. QED
        BY <1>2, <3>2, <3>5, <3>6
    <2>3. \A k \in 1 .. Unread(Other(current))' :
             data'[Other(current)'][first'[Other(current)'] + k] = Stored' + Unread(current)' + k
      <3>1. Stored' + Unread(current)' = Stored + Unread(current)
        BY <1>12, OTypes
      <3>2. first'[Other(current)'] = first[Other(current)]
        BY <1>10, <1>12, OTypes
      <3>3. \A k \in 1 .. Unread(Other(current)) :
               data[Other(current)][first[Other(current)] + k] = Stored + Unread(current) + k
        BY DEF OInv, Ordered
      <3>4. QED
        BY <1>2, <1>12, <3>1, <3>2, <3>3
    <2>4. trcpt' => \A k \in 1 .. Len(data'[address']) :
             data'[address'][k] = Stored' + Unread(current)' + Unread(Other(current))' + k
      <3>1. Stored' + Unread(current)' = Stored + Unread(current)
        BY <1>12, OTypes
      <3>2. trcpt => \A k \in 1 .. Len(data[address]) :
               data[address][k] = Stored + Unread(current) + Unread(Other(current)) + k
        BY DEF OInv, Ordered
      <3>3. QED
        BY <1>2, <1>12, <3>1, <3>2
    <2>5. sent' = Stored' + Unread(current)' + Unread(Other(current))'
                     + (IF trcpt' THEN Len(data'[address']) ELSE 0)
      <3>1. Stored' + Unread(current)' = Stored + Unread(current)
        BY <1>12, OTypes
      <3>2. sent = Stored + Unread(current) + Unread(Other(current))
                      + (IF trcpt THEN Len(data[address]) ELSE 0)
        BY DEF OInv, Ordered
      <3>3. QED
        BY <1>2, <1>12, <3>1, <3>2
    <2>6. QED
      BY <1>2, <2>1, <2>2, <2>3, <2>4, <2>5 DEF OInv, Ordered
  <1>14. QED
    BY <1>1, <1>11, <1>13 DEF OInv

LEMMA CopyEndOInv ==
    ASSUME OInv, CopyEnd
    PROVE  OInv'
  <1>1. IInv'
    BY RecvIInv DEF OInv, RecvStep
  <1>2. /\ pc = "copy"
        /\ UNCHANGED <<ring, ready, last, data, address, trcpt, byteCount, sent, len, count, got>>
    BY DEF CopyEnd, endpoint, hw
  <1>3. Stored' = Stored
    BY <1>2 DEF Stored
  <1>4. CASE first[current] = last[current]
    <2>1. /\ pc' = "release" /\ first' = [first EXCEPT ![current] = 0]
          /\ current' = Other(current)
      BY <1>4 DEF CopyEnd
    <2>2. Other(current)' = current
      BY <2>1, OTypes DEF Other, Banks
    <2>3. \A b \in Banks : first'[b] = 0
      BY <2>1, OTypes DEF OInv, IInv, TypeOK, Exact
    <2>4. Unread(current) = 0
      BY <1>4, OTypes DEF Unread
    <2>5. Unread(Other(current))' = 0
      BY <2>1, <2>2, OTypes DEF Unread
    <2>6. first[Other(current)] = 0
      BY OTypes DEF OInv, Exact
    <2>7. Unread(current)' = Unread(Other(current))
      BY <1>2, <2>1, <2>3, <2>6, OTypes DEF Unread
    <2>8. Exact'
      BY <1>2, <2>1, <2>3, OTypes DEF OInv, Exact
    <2>9. \A k \in 1 .. Unread(current)' : data'[current'][first'[current'] + k] = Stored' + k
      BY <1>2, <1>3, <2>1, <2>3, <2>4, <2>6, <2>7, OTypes DEF OInv, Ordered
    <2>10. Ordered'
      BY <1>2, <1>3, <2>4, <2>5, <2>7, <2>9, OTypes DEF OInv, Ordered
    <2>11. QED
      BY <1>1, <2>8, <2>10 DEF OInv
  <1>5. CASE first[current] # last[current]
    <2>1. pc' = "answer" /\ first' = first /\ current' = current
      BY <1>5 DEF CopyEnd
    <2>2. /\ \A b \in Banks : Unread(b)' = Unread(b)
          /\ Other(current)' = Other(current)
      BY <1>2, <2>1 DEF Unread, Other
    <2>3. Exact'
      BY <1>2, <2>1 DEF OInv, Exact
    <2>4. Unread(current)' = Unread(current) /\ Unread(Other(current))' = Unread(Other(current))
      BY <2>1, <2>2, OTypes
    <2>5. Ordered'
      BY <1>2, <1>3, <2>1, <2>2, <2>4 DEF OInv, Ordered
    <2>6. QED
      BY <1>1, <2>3, <2>5 DEF OInv
  <1>6. QED
    BY <1>4, <1>5

LEMMA ReleaseOInv ==
    ASSUME OInv, Release
    PROVE  OInv'
  <1>1. IInv'
    BY RecvIInv DEF OInv, RecvStep
  <1>2. /\ pc = "release" /\ pc' = "answer"
        /\ ready' = [ready EXCEPT ![Other(current)] = FALSE]
        /\ UNCHANGED <<ring, current, first, last, data, address, trcpt, sent, len, count, got>>
    BY DEF Release, Go, hw
  <1>3. Stored' = Stored /\ Other(current)' = Other(current)
    BY <1>2 DEF Stored, Other
  <1>4. ~ready'[Other(current)] /\ ready'[current] = ready[current]
    BY <1>2, OTypes DEF OInv, IInv, TypeOK
  <1>5. trcpt => byteCount' = byteCount
    BY DEF Release, OInv, IInv, Handover, endpoint
  <1>6. Unread(current)' = Unread(current)
    BY <1>2, <1>4 DEF Unread
  <1>7. Unread(Other(current)) = 0 /\ Unread(Other(current))' = 0
    BY <1>2, <1>3, <1>4, OTypes DEF Unread
  <1>8. Exact'
    <2>1. \A b \in Banks : ready'[b] => ready[b] /\ b = current
      BY <1>4, OTypes
    <2>2. \A b \in Banks : ~ready'[b] => ~ready[b] \/ b # current
      BY <1>4
    <2>3. QED
      BY <1>2, <1>5, <2>1, <2>2 DEF OInv, Exact
  <1>9. Ordered'
    BY <1>2, <1>3, <1>6, <1>7 DEF OInv, Ordered
  <1>10. QED
    BY <1>1, <1>8, <1>9 DEF OInv

LEMMA AnswerOInv ==
    ASSUME OInv, Answer
    PROVE  OInv'
  <1>1. IInv'
    BY RecvIInv DEF OInv, RecvStep
  <1> DEFINE n == IF want < Available(ring) THEN want ELSE Available(ring)
             taken == SubSeq(Contents(ring), 1, n)
  <1>2. /\ pc = "answer" /\ pc' = "idle" /\ got' = got \o taken
        /\ ring' = [ring EXCEPT !.tail = (@ + n) % N]
        /\ UNCHANGED <<current, first, ready, last, data, address, trcpt, byteCount, sent>>
    BY DEF Answer, Go, bank, endpoint, hw
  <1>3. ring \in Ring(Nat) /\ want \in Nat /\ got \in Seq(Nat)
    BY UsbAssumption DEF OInv, IInv, TypeOK
  <1>4. n \in 0 .. Available(ring)
    BY <1>3, OTypes
  <1>5. Contents(ring) \in Seq(Nat) /\ Len(Contents(ring)) = Available(ring)
    BY <1>3, ContentsSeq
  <1>6. /\ taken \in Seq(Nat) /\ Len(taken) = n
        /\ \A k \in 1 .. n : taken[k] = Contents(ring)[k]
    <2> HIDE DEF n
    <2>1. \A k \in 1 .. n : k \in 1 .. Len(Contents(ring))
      BY <1>4, <1>5, OTypes
    <2>2. n \in Nat /\ n <= Len(Contents(ring))
      BY <1>4, <1>5, OTypes
    <2>3. QED
      BY <1>5, <2>1, <2>2
  <1> HIDE DEF n, taken
  <1>7. /\ Available(ring') = Available(ring) - n
        /\ \A k \in 1 .. (Available(ring) - n) : Contents(ring')[k] = Contents(ring)[n + k]
    BY <1>2, <1>3, <1>4, TailMoves
  <1>8. /\ Len(got') = Len(got) + n
        /\ \A i \in 1 .. Len(got) : got'[i] = got[i]
        /\ \A k \in 1 .. n : got'[Len(got) + k] = taken[k]
    <2>1. got' = got \o taken /\ got \in Seq(Nat) /\ taken \in Seq(Nat) /\ Len(taken) = n
      BY <1>2, <1>3, <1>6
    <2>2. Len(got') = Len(got) + n
      <3>1. Len(got \o taken) = Len(got) + Len(taken)
        BY <2>1, ConcatProperties
      <3>2. QED
        BY <2>1, <3>1, Zenon
    <2>3. ASSUME NEW i \in 1 .. Len(got) PROVE got'[i] = got[i]
      BY <2>1
    <2>4. ASSUME NEW k \in 1 .. n PROVE got'[Len(got) + k] = taken[k]
      <3>1. Len(got) + k \in 1 .. (Len(got) + Len(taken)) /\ Len(got) + k > Len(got)
        BY <1>4, <2>1, OTypes
      <3>2. QED
        BY <2>1, <3>1
    <2>5. QED
      BY <2>2, <2>3, <2>4
  <1>9. Stored' = Stored /\ Other(current)' = Other(current)
    <2>1. Stored' = Len(got') + Available(ring')
      BY DEF Stored
    <2>2. QED
      BY <1>2, <1>4, <1>7, <1>8, <2>1, OTypes DEF Other, Stored
  <1>10. Unread(current)' = Unread(current) /\ Unread(Other(current))' = Unread(Other(current))
    BY <1>2, <1>9 DEF Unread
  <1>11. Exact'
    BY <1>2 DEF OInv, Exact
  <1>12. ASSUME NEW i \in 1 .. Len(got') PROVE got'[i] = i
    <2>1. CASE i \in 1 .. Len(got)
      BY <1>8, <2>1 DEF OInv, Ordered
    <2>2. CASE i \notin 1 .. Len(got)
      <3>1. PICK k \in 1 .. n : i = Len(got) + k
        <4>1. i - Len(got) \in 1 .. n /\ i = Len(got) + (i - Len(got))
          BY <1>4, <1>8, <2>2, OTypes
        <4>2. QED
          BY <4>1
      <3>2. k \in 1 .. Available(ring)
        BY <1>4, OTypes
      <3>3. Contents(ring)[k] = Len(got) + k
        BY <3>2 DEF OInv, Ordered
      <3>4. QED
        BY <1>6, <1>8, <3>1, <3>3
    <2>3. QED
      BY <2>1, <2>2
  <1>13. ASSUME NEW k \in 1 .. Available(ring') PROVE Contents(ring')[k] = Len(got') + k
    <2>1. k \in 1 .. (Available(ring) - n) /\ n + k \in 1 .. Available(ring)
      BY <1>4, <1>7, OTypes
    <2>2. Contents(ring)[n + k] = Len(got) + (n + k)
      BY <2>1 DEF OInv, Ordered
    <2>3. Len(got') + k = Len(got) + (n + k)
      BY <1>4, <1>8, <2>1, OTypes
    <2>4. QED
      BY <1>7, <2>1, <2>2, <2>3
  <1>14. Ordered'
    BY <1>2, <1>9, <1>10, <1>12, <1>13 DEF OInv, Ordered
  <1>15. QED
    BY <1>1, <1>11, <1>14 DEF OInv

LEMMA NextOInv == OInv /\ [Next]_vars => OInv'
  <1> SUFFICES ASSUME OInv, [Next]_vars PROVE OInv'
    OBVIOUS
  <1>1. IInv'
    BY NextIInv DEF OInv
  <1>2. ASSUME UNCHANGED <<ring, current, first, ready, last, data, address, trcpt, byteCount,
                           sent, got>>,
               pc # "release", pc' # "release",
               pc' \in {"room", "test"} => count' = 0,
               pc' \in {"test", "copy"} => len' - count' <= AvailableForStore(ring')
        PROVE  OInv'
    <2>1. Stored' = Stored /\ Other(current)' = Other(current)
      BY <1>2 DEF Stored, Other
    <2>2. Unread(current)' = Unread(current) /\ Unread(Other(current))' = Unread(Other(current))
      BY <1>2, <2>1 DEF Unread
    <2>3. Exact'
      BY <1>2 DEF OInv, Exact
    <2>4. Ordered'
      BY <1>2, <2>1, <2>2 DEF OInv, Ordered
    <2>5. QED
      BY <1>1, <2>3, <2>4 DEF OInv
  <1>3. ASSUME NEW n \in 0 .. Size, HostPacket(n) PROVE OInv'
    BY <1>3, HostPacketOInv
  <1>4. CASE HandleEndpoint
    BY <1>4, HandleEndpointOInv
  <1>5. ASSUME NEW n \in 0 .. MaxRead, Call(n) PROVE OInv'
    BY <1>2, <1>5 DEF Call, Go, bank, endpoint, hw
  <1>6. CASE Room
    <2>1. AvailableForStore(ring) \in Int
      <3>1. ring \in Ring(Nat)
        BY DEF OInv, IInv, TypeOK
      <3>2. QED
        BY <3>1, RingAssumption DEF AvailableForStore, SpaceFrom, Ring
    <2>2. pc = "room" /\ pc' = "test" /\ len' = AvailableForStore(ring) /\ count' = count
          /\ UNCHANGED <<ring, bank, endpoint, hw, want, got>>
      BY <1>6 DEF Room, Go
    <2>3. count = 0
      BY <2>2 DEF OInv, Exact
    <2>4. len' - count' <= AvailableForStore(ring')
      BY <2>1, <2>2, <2>3
    <2>5. QED
      BY <1>2, <2>2, <2>3, <2>4 DEF bank, endpoint, hw
  <1>7. CASE TestReady
    <2>1. /\ pc = "test" /\ pc' \in {"copy", "answer"}
          /\ UNCHANGED <<ring, bank, endpoint, hw, len, count, want, got>>
      BY <1>7 DEF TestReady, Go
    <2>2. len' - count' <= AvailableForStore(ring')
      BY <2>1 DEF OInv, Exact
    <2>3. QED
      BY <1>2, <2>1, <2>2 DEF bank, endpoint, hw
  <1>8. CASE UNCHANGED vars
    <2>1. UNCHANGED <<ring, bank, endpoint, hw, pc, len, count, want, got>>
      BY <1>8 DEF vars
    <2>2. Exact'
      BY <2>1 DEF OInv, Exact, bank, endpoint, hw
    <2>3. Stored' = Stored /\ Other(current)' = Other(current)
      BY <2>1 DEF Stored, Other, bank
    <2>4. Unread(current)' = Unread(current) /\ Unread(Other(current))' = Unread(Other(current))
      BY <2>1, <2>3 DEF Unread, bank, hw
    <2>5. Ordered'
      BY <2>1, <2>3, <2>4 DEF OInv, Ordered, bank, hw
    <2>6. QED
      BY <1>1, <2>2, <2>5 DEF OInv
  <1>9. QED
    BY <1>3, <1>4, <1>5, <1>6, <1>7, <1>8, CopyByteOInv, CopyEndOInv, ReleaseOInv, AnswerOInv
       DEF Next, RecvStep

(* A stretch of a sequence, element by element.                             *)
LEMMA Stretch ==
    ASSUME NEW s \in Seq(Nat), NEW m \in 1 .. (Len(s) + 1), NEW l \in (m - 1) .. Len(s)
    PROVE  /\ SubSeq(s, m, l) \in Seq(Nat) /\ Len(SubSeq(s, m, l)) = l - m + 1
           /\ \A k \in 1 .. (l - m + 1) : SubSeq(s, m, l)[k] = s[m + k - 1]
  <1>1. m \in Int /\ l \in Int
    OBVIOUS
  <1>2. \A i \in m .. l : s[i] \in Nat
    <2> TAKE i \in m .. l
    <2>1. i \in 1 .. Len(s)
      OBVIOUS
    <2>2. QED
      BY <2>1
  <1>3. /\ SubSeq(s, m, l) \in Seq(Nat)
        /\ Len(SubSeq(s, m, l)) = IF m <= l THEN l - m + 1 ELSE 0
        /\ \A k \in 1 .. l - m + 1 : SubSeq(s, m, l)[k] = s[m + k - 1]
    BY SMTT(30), <1>1, <1>2, SubSeqProperties
  <1>4. Len(SubSeq(s, m, l)) = l - m + 1
    BY <1>3
  <1>5. QED
    BY <1>3, <1>4

LEMMA LeftBytes ==
    ASSUME OInv, NEW b \in Banks
    PROVE  /\ Left(b) \in Seq(Nat) /\ Len(Left(b)) = Unread(b)
           /\ \A k \in 1 .. Unread(b) : Left(b)[k] = data[b][first[b] + k]
  <1>1. data[b] \in Seq(Nat)
    BY DEF OInv, IInv, TypeOK
  <1>2. CASE ready[b] /\ (pc = "release" => b = current)
    <2>1. /\ Left(b) = SubSeq(data[b], first[b] + 1, last[b])
          /\ Unread(b) = last[b] - first[b]
          /\ last[b] = Len(data[b]) /\ first[b] <= last[b]
      BY <1>2 DEF Left, Unread, OInv, Exact
    <2> DEFINE m == first[b] + 1
               l == last[b]
    <2>2. m \in 1 .. (Len(data[b]) + 1) /\ l \in (m - 1) .. Len(data[b])
      BY <2>1, OTypes
    <2>3. /\ SubSeq(data[b], m, l) \in Seq(Nat) /\ Len(SubSeq(data[b], m, l)) = l - m + 1
          /\ \A k \in 1 .. (l - m + 1) : SubSeq(data[b], m, l)[k] = data[b][m + k - 1]
      BY <1>1, <2>2, Stretch
    <2>4. l - m + 1 = Unread(b)
      BY <2>1, OTypes
    <2>5. \A k \in 1 .. Unread(b) : m + k - 1 = first[b] + k
      BY OTypes
    <2>6. QED
      BY <2>1, <2>3, <2>4, <2>5
  <1>3. CASE ~(ready[b] /\ (pc = "release" => b = current))
    BY <1>3 DEF Left, Unread
  <1>4. QED
    BY <1>2, <1>3

LEMMA OrderedInOrder == OInv => InOrder
  <1> SUFFICES ASSUME OInv PROVE InOrder
    OBVIOUS
  <1> DEFINE o == Other(current)
             s1 == got \o Contents(ring)
             s2 == s1 \o Left(current)
             s3 == s2 \o Left(o)
             s4 == s3 \o InFlight
  <1>1. got \in Seq(Nat) /\ ring \in Ring(Nat) /\ data[address] \in Seq(Nat)
    BY OTypes DEF OInv, IInv, TypeOK
  <1>2. Contents(ring) \in Seq(Nat) /\ Len(Contents(ring)) = Available(ring)
    BY <1>1, ContentsSeq
  <1>3. s1 \in Seq(Nat) /\ Len(s1) = Stored /\ \A i \in 1 .. Len(s1) : s1[i] = i
    <2>1. \A i \in 1 .. Len(got) : got[i] = i
      BY OTypes DEF OInv, Ordered
    <2>2. \A i \in 1 .. Len(Contents(ring)) : Contents(ring)[i] = Len(got) + i
      BY <1>2, OTypes DEF OInv, Ordered
    <2>3. QED
      BY <1>1, <1>2, <2>1, <2>2, Joined DEF Stored
  <1>4. /\ s2 \in Seq(Nat) /\ Len(s2) = Stored + Unread(current)
        /\ \A i \in 1 .. Len(s2) : s2[i] = i
    <2> HIDE DEF s1
    <2>1. \A i \in 1 .. Len(Left(current)) : Left(current)[i] = Len(s1) + i
      BY <1>3, LeftBytes, OTypes DEF OInv, Ordered
    <2>2. Left(current) \in Seq(Nat) /\ Len(Left(current)) = Unread(current)
      BY LeftBytes, OTypes
    <2>3. QED
      BY <1>3, <2>1, <2>2, Joined
  <1>5. /\ s3 \in Seq(Nat) /\ Len(s3) = Stored + Unread(current) + Unread(o)
        /\ \A i \in 1 .. Len(s3) : s3[i] = i
    <2> HIDE DEF s2
    <2>1. \A i \in 1 .. Len(Left(o)) : Left(o)[i] = Len(s2) + i
      BY <1>4, LeftBytes, OTypes DEF OInv, Ordered
    <2>2. Left(o) \in Seq(Nat) /\ Len(Left(o)) = Unread(o)
      BY LeftBytes, OTypes
    <2>3. QED
      BY <1>4, <2>1, <2>2, Joined
  <1>6. s4 \in Seq(Nat) /\ Len(s4) = sent /\ \A i \in 1 .. Len(s4) : s4[i] = i
    <2> HIDE DEF s3
    <2>1. InFlight \in Seq(Nat) /\ Len(InFlight) = (IF trcpt THEN Len(data[address]) ELSE 0)
      BY <1>1 DEF InFlight
    <2>2. \A i \in 1 .. Len(InFlight) : InFlight[i] = Len(s3) + i
      BY <1>5, OTypes DEF InFlight, OInv, Ordered
    <2>3. /\ s4 \in Seq(Nat) /\ Len(s4) = Len(s3) + Len(InFlight)
          /\ \A i \in 1 .. Len(s4) : s4[i] = i
      BY <1>5, <2>1, <2>2, Joined
    <2>4. Len(s3) + Len(InFlight) = sent
      BY <1>5, <2>1 DEF OInv, Ordered
    <2>5. QED
      BY <2>3, <2>4
  <1>7. s4 = [i \in 1 .. sent |-> i]
    <2> HIDE DEF s4
    <2>1. DOMAIN s4 = 1 .. sent /\ s4 = [i \in DOMAIN s4 |-> s4[i]]
      BY <1>6
    <2>2. \A i \in 1 .. sent : s4[i] = i
      BY <1>6, OTypes
    <2>3. QED
      BY <2>1, <2>2
  <1>8. QED
    BY <1>7 DEF InOrder

(* What the host sent reaches the ring and the sketch in order, each byte   *)
(* once, for every size of bank, ring and read (SAMD21_USBDevice.h          *)
(* 280-432).                                                                *)
THEOREM BytesInOrder == Spec => []InOrder
  BY InitOInv, NextOInv, OrderedInOrder, PTL DEF Spec

-----------------------------------------------------------------------------
(* The port.                                                                *)

(* What the call in progress has asked the endpoint for.                    *)
Asked ==
    /\ pc # "idle" => configured /\ op # "none"
    /\ pc # "idle" /\ op = "readBytes" => total < length /\ want = length - total
    /\ op \in {"available", "peek", "read"} => pc # "idle"
    /\ op = "available" => want = 0
    /\ op \in {"peek", "read"} => want = 1 /\ peeked = NoChar
    /\ op = "readBytes" /\ ~jumped => peeked = NoChar
    /\ op = "readBytes" /\ ~configured => early /\ total \in {0, Modulus - 1}

CdcTypes ==
    /\ configured \in BOOLEAN /\ peeked \in Nat \cup {NoChar}
    /\ op \in {"none", "available", "peek", "read", "readBytes"}
    /\ length \in 0 .. MaxRead /\ total \in 0 .. Modulus - 1 /\ base \in Nat
    /\ expired \in BOOLEAN /\ early \in BOOLEAN /\ jumped \in BOOLEAN
    /\ delivered \in Seq(Nat)

CInv == IInv /\ CdcTypes /\ Asked /\ CountHonest /\ StreamOrder

LEMMA CInvInit == CdcInit => CInv
  <1> SUFFICES ASSUME CdcInit PROVE CInv
    OBVIOUS
  <1>1. IInv
    BY InitIInv DEF CdcInit
  <1>2. CdcTypes /\ Asked /\ CountHonest
    <2>1. length = 0 /\ total = 0 /\ base = 0 /\ pc = "idle" /\ op = "none"
      BY DEF CdcInit, Init
    <2>2. 0 \in 0 .. MaxRead /\ 0 \in 0 .. Modulus - 1 /\ 0 \in Nat
          /\ <<>> \in Seq(Nat)
      BY UsbAssumption, CdcAssumption
    <2>3. CdcTypes
      BY <2>1, <2>2 DEF CdcInit, CdcTypes
    <2>4. Asked /\ CountHonest
      BY <2>1 DEF Asked, CountHonest
    <2>5. QED
      BY <2>3, <2>4
  <1>3. StreamOrder
    BY DEF CdcInit, Init, StreamOrder, One
  <1>4. QED
    BY <1>1, <1>2, <1>3 DEF CInv

(* Every step of the port is a step of the endpoint, or leaves it alone.    *)
LEMMA PortStep == CInv /\ [CdcNext]_allVars => [Next]_vars
  <1> SUFFICES ASSUME CInv, [CdcNext]_allVars PROVE [Next]_vars
    OBVIOUS
  <1>1. CASE Host
    BY <1>1 DEF Host, Next
  <1>2. CASE UsbInterrupt
    BY <1>2 DEF UsbInterrupt, Next
  <1>3. CASE SerialAvailable \/ SerialPeek \/ ReadEndpoint
    <2>1. 0 \in 0 .. MaxRead /\ 1 \in 0 .. MaxRead
      BY UsbAssumption
    <2>2. QED
      BY <1>3, <2>1 DEF SerialAvailable, SerialPeek, ReadEndpoint, Next
  <1>4. CASE BytesRecv
    <2>1. length - total \in 0 .. MaxRead
      BY <1>4, UsbAssumption, CdcAssumption DEF BytesRecv, CInv, CdcTypes
    <2>2. QED
      BY <1>4, <2>1 DEF BytesRecv, Next
  <1>5. CASE Endpoint \/ EndpointAnswer
    BY <1>5 DEF Endpoint, EndpointAnswer, RecvStep, Next
  <1>6. CASE ReadPeeked \/ Configure \/ Timeout \/ BytesUnconfigured \/ BytesEnd
    BY <1>6 DEF ReadPeeked, Configure, Timeout, BytesUnconfigured, BytesEnd
  <1>7. CASE \E n \in 1 .. MaxRead : ReadBytes(n)
    BY <1>7 DEF ReadBytes
  <1>8. CASE UNCHANGED allVars
    BY <1>8 DEF allVars
  <1>9. QED
    BY <1>1, <1>2, <1>3, <1>4, <1>5, <1>6, <1>7, <1>8
       DEF CdcNext, CdcStep, SerialRead

(* What an answer of the endpoint adds to got.                              *)
LEMMA AnswerBytes ==
    ASSUME TypeOK, Answer
    PROVE  /\ NewBytes \in Seq(Nat) /\ Len(NewBytes) <= want
           /\ got' = got \o NewBytes
  <1> DEFINE n == IF want < Available(ring) THEN want ELSE Available(ring)
             s == SubSeq(Contents(ring), 1, n)
  <1>1. n \in Nat /\ n <= Available(ring) /\ n <= want
    BY RingAccount, RingAssumption, UsbAssumption DEF TypeOK
  <1>2. Contents(ring) \in Seq(Nat) /\ Len(Contents(ring)) = Available(ring)
    BY ContentsSeq DEF TypeOK
  <1>3. s \in Seq(Nat) /\ Len(s) = n
    <2> HIDE DEF n
    <2>1. QED
      BY <1>1, <1>2
  <1>4. got' = got \o s
    BY DEF Answer
  <1>5. NewBytes = s
    <2> HIDE DEF s
    <2>1. QED
      BY <1>3, <1>4 DEF NewBytes, TypeOK
  <1> HIDE DEF n, s
  <1>6. QED
    BY <1>1, <1>3, <1>4, <1>5

(* The answers: bytes go to the caller, who counts them.                    *)
LEMMA AnswerCInv ==
    ASSUME CInv, EndpointAnswer
    PROVE  (CdcTypes /\ Asked /\ CountHonest /\ StreamOrder)'
  <1> USE DEF CInv, IInv
  <1>1. /\ NewBytes \in Seq(Nat) /\ Len(NewBytes) <= want
        /\ got' = got \o NewBytes
    BY AnswerBytes DEF EndpointAnswer
  <1>2. /\ pc = "answer" /\ pc' = "idle"
        /\ UNCHANGED <<configured, jumped>>
        /\ configured /\ op # "none"
    BY DEF EndpointAnswer, Answer, Go, Asked
  <1> HIDE DEF NewBytes
  <1>3. CASE BytesAnswer
    <2>1. delivered' = delivered \o NewBytes /\ peeked' = peeked
      BY <1>3 DEF BytesAnswer
    <2>2. Len(NewBytes) \in Nat /\ want = length - total /\ total < length
      BY <1>1, <1>2, <1>3 DEF BytesAnswer, Asked
    <2>3. ASSUME NewBytes = <<>> /\ expired
          PROVE  (CdcTypes /\ Asked /\ CountHonest)'
      <3>1. /\ op' = "none" /\ length' = 0 /\ total' = 0 /\ base' = 0
            /\ expired' = FALSE /\ early' = FALSE
        BY <1>3, <2>3 DEF BytesAnswer, Forget
      <3>2. 0 \in 0 .. MaxRead /\ 0 \in 0 .. Modulus - 1
        BY UsbAssumption, CdcAssumption
      <3>3. CdcTypes'
        <4>1. /\ configured' \in BOOLEAN /\ jumped' \in BOOLEAN
              /\ expired' \in BOOLEAN /\ early' \in BOOLEAN
          BY <1>2, <3>1 DEF CdcTypes
        <4>2. delivered' \in Seq(Nat) /\ peeked' \in Nat \cup {NoChar}
          BY <1>1, <2>1 DEF CdcTypes
        <4>3. QED
          BY <3>1, <3>2, <4>1, <4>2 DEF CdcTypes
      <3>4. Asked' /\ CountHonest'
        BY <1>2, <3>1 DEF Asked, CountHonest
      <3>5. QED
        BY <3>3, <3>4
    <2>4. ASSUME ~(NewBytes = <<>> /\ expired)
          PROVE  (CdcTypes /\ Asked /\ CountHonest)'
      <3>1. /\ total' = total + Len(NewBytes)
            /\ UNCHANGED <<op, length, base, expired, early>>
        BY <1>3, <2>4 DEF BytesAnswer
      <3>2. total' \in 0 .. Modulus - 1 /\ total' <= length
        BY <1>1, <2>2, <3>1, UsbAssumption, CdcAssumption DEF CdcTypes
      <3>3. CdcTypes'
        BY <1>1, <1>2, <2>1, <3>1, <3>2 DEF CdcTypes
      <3>4. CountHonest'
        <4>1. total = InBuffer
          BY <1>3, <2>2, UsbAssumption, CdcAssumption
             DEF BytesAnswer, CdcTypes, CountHonest
        <4>2. InBuffer' = InBuffer + Len(NewBytes)
          BY <1>1, <2>1, <3>1 DEF InBuffer, CdcTypes
        <4>3. QED
          BY <3>1, <3>2, <4>1, <4>2 DEF CountHonest
      <3>5. Asked'
        BY <1>2, <1>3, <2>1, <3>1 DEF BytesAnswer, Asked
      <3>6. QED
        BY <3>3, <3>4, <3>5
    <2>5. StreamOrder'
      <3>1. CASE jumped
        BY <1>2, <3>1 DEF StreamOrder
      <3>2. CASE ~jumped
        <4>1. peeked = NoChar /\ delivered \o <<>> = got
          BY <1>3, <3>2 DEF BytesAnswer, Asked, StreamOrder, One
        <4>2. delivered = got
          BY <4>1 DEF CdcTypes
        <4>3. QED
          BY <1>1, <2>1, <4>1, <4>2 DEF StreamOrder, One, CdcTypes
      <3>3. QED
        BY <3>1, <3>2
    <2>6. (CdcTypes /\ Asked /\ CountHonest)'
      BY <2>3, <2>4
    <2>7. QED
      BY <2>5, <2>6
  <1>4. CASE ByteAnswer
    <2>1. /\ op' = "none" /\ UNCHANGED callVars
          /\ op \in {"available", "peek", "read"}
      BY <1>2, <1>4 DEF ByteAnswer, CdcTypes
    <2>2. NewBytes # <<>> => NewBytes[1] \in Nat
      BY <1>1
    <2>3. (CdcTypes /\ Asked /\ CountHonest)'
      <3>1. CdcTypes'
        BY <1>1, <1>2, <1>4, <2>1, <2>2 DEF ByteAnswer, CdcTypes, callVars
      <3>2. Asked' /\ CountHonest'
        BY <1>2, <2>1 DEF Asked, CountHonest, callVars
      <3>3. QED
        BY <3>1, <3>2
    <2>4. StreamOrder'
      <3>1. CASE jumped
        BY <1>2, <3>1 DEF StreamOrder
      <3>2. CASE ~jumped /\ op = "available"
        <4>1. NewBytes = <<>>
          BY <1>1, <3>2 DEF Asked
        <4>2. UNCHANGED <<delivered, peeked, got, jumped>>
          BY <1>1, <1>2, <1>4, <3>2, <4>1 DEF ByteAnswer, TypeOK
        <4>3. QED
          BY <4>2 DEF StreamOrder, One
      <3>3. CASE ~jumped /\ op = "read"
        <4>1. peeked = NoChar /\ delivered = got
          BY <3>3 DEF Asked, StreamOrder, One, CdcTypes
        <4>2. delivered' = delivered \o NewBytes /\ peeked' = NoChar
          BY <1>4, <3>3, <4>1 DEF ByteAnswer
        <4>3. QED
          BY <1>1, <4>1, <4>2 DEF StreamOrder, One, CdcTypes
      <3>4. CASE ~jumped /\ op = "peek"
        <4>1. peeked = NoChar /\ delivered = got /\ Len(NewBytes) <= 1
          BY <1>1, <3>4 DEF Asked, StreamOrder, One, CdcTypes
        <4>2. CASE NewBytes = <<>>
          <5>1. delivered' = delivered /\ peeked' = NoChar
            BY <1>4, <3>4, <4>1, <4>2 DEF ByteAnswer
          <5>2. QED
            BY <1>1, <4>1, <4>2, <5>1 DEF StreamOrder, One, CdcTypes
        <4>3. CASE NewBytes # <<>>
          <5>1. /\ delivered' = delivered /\ peeked' = NewBytes[1]
                /\ NewBytes = <<NewBytes[1]>> /\ NewBytes[1] # NoChar
            <6>1. delivered' = delivered /\ peeked' = NewBytes[1]
              BY <1>4, <3>4, <4>3 DEF ByteAnswer
            <6>2. NewBytes = <<NewBytes[1]>>
              <7>1. Len(NewBytes) = 1
                <8>1. Len(NewBytes) \in Nat /\ Len(NewBytes) # 0
                  BY <1>1, <4>3, EmptySeq
                <8>2. \A k \in Nat : k # 0 /\ k <= 1 => k = 1
                  OBVIOUS
                <8>3. QED
                  BY <4>1, <8>1, <8>2
              <7>2. /\ <<NewBytes[1]>> \in Seq(Nat)
                    /\ Len(<<NewBytes[1]>>) = 1
                    /\ <<NewBytes[1]>>[1] = NewBytes[1]
                BY <2>2, <4>3
              <7>3. \A i \in 1 .. 1 : NewBytes[i] = <<NewBytes[1]>>[i]
                BY <7>2
              <7>4. QED
                BY <1>1, <7>1, <7>2, <7>3, SeqEqual
            <6>3. NewBytes[1] # NoChar
              BY <2>2, <4>3 DEF NoChar
            <6>4. QED
              BY <6>1, <6>2, <6>3
          <5>2. QED
            BY <1>1, <4>1, <5>1 DEF StreamOrder, One, CdcTypes
        <4>4. QED
          BY <4>2, <4>3
      <3>5. QED
        BY <2>1, <3>1, <3>2, <3>3, <3>4
    <2>5. QED
      BY <2>3, <2>4
  <1>5. QED
    BY <1>3, <1>4 DEF EndpointAnswer

LEMMA CInvNext == CInv /\ [CdcNext]_allVars => CInv'
  <1> SUFFICES ASSUME CInv, [CdcNext]_allVars PROVE CInv'
    OBVIOUS
  <1>1. IInv'
    BY PortStep, NextIInv DEF CInv
  <1> USE UsbAssumption, CdcAssumption
      DEF CdcTypes, Asked, CountHonest, InBuffer, callVars
  <1> DEFINE Rest == CdcTypes /\ Asked /\ CountHonest
  <1>2. CASE Host
    <2>1. UNCHANGED <<pc, want, got>>
      BY <1>2 DEF Host, HostPacket
    <2>2. QED
      BY <1>1, <1>2, <2>1 DEF Host, cdcVars, CInv, StreamOrder
  <1>3. CASE UsbInterrupt
    <2>1. UNCHANGED <<pc, want, got>>
      BY <1>3 DEF UsbInterrupt, HandleEndpoint
    <2>2. QED
      BY <1>1, <1>3, <2>1 DEF UsbInterrupt, cdcVars, CInv, StreamOrder
  <1>4. CASE SerialAvailable \/ SerialPeek \/ ReadEndpoint
    <2>1. /\ pc = "idle" /\ pc' = "room" /\ got' = got /\ configured
          /\ UNCHANGED <<configured, peeked, callVars, jumped, delivered>>
      BY <1>4 DEF SerialAvailable, SerialPeek, ReadEndpoint, Call, Go
    <2>2. \/ op' = "available" /\ want' = 0
          \/ op' \in {"peek", "read"} /\ want' = 1 /\ peeked = NoChar
      BY <1>4 DEF SerialAvailable, SerialPeek, ReadEndpoint, Call
    <2>3. QED
      BY <1>1, <2>1, <2>2 DEF CInv, StreamOrder
  <1>5. CASE ReadPeeked
    <2>1. UNCHANGED <<pc, want, got, op, jumped, configured, callVars>>
      BY <1>5 DEF ReadPeeked, vars
    <2>2. peeked # NoChar /\ delivered' = delivered \o <<peeked>>
          /\ peeked' = NoChar /\ op = "none"
      BY <1>5 DEF ReadPeeked, CInv
    <2>3. Rest'
      BY <2>1, <2>2 DEF CInv
    <2>4. StreamOrder'
      BY <2>1, <2>2 DEF CInv, StreamOrder, One
    <2>5. QED
      BY <1>1, <2>3, <2>4 DEF CInv
  <1>6. CASE \E n \in 1 .. MaxRead : ReadBytes(n)
    <2>1. PICK n \in 1 .. MaxRead : ReadBytes(n)
      BY <1>6
    <2>2. UNCHANGED <<pc, want, got>>
      BY <2>1 DEF ReadBytes, vars
    <2>3. pc = "idle"
      BY <2>1 DEF ReadBytes, CInv
    <2>4. /\ op' = "readBytes" /\ length' = n /\ total' = 0
          /\ base' = Len(delivered) /\ expired' = FALSE /\ early' = ~configured
          /\ jumped' = (jumped \/ peeked # NoChar)
          /\ UNCHANGED <<configured, peeked, delivered>>
      BY <2>1 DEF ReadBytes
    <2>5. CdcTypes'
      <3>1. 0 \in 0 .. Modulus - 1 /\ n \in 0 .. MaxRead
        BY UsbAssumption, CdcAssumption
      <3>2. jumped' \in BOOLEAN /\ early' \in BOOLEAN
        BY <2>4
      <3>5. base' \in Nat
        BY <2>4 DEF CInv
      <3>3. /\ op' = "readBytes" /\ length' = n /\ total' = 0
            /\ expired' \in BOOLEAN /\ configured' \in BOOLEAN
            /\ peeked' = peeked /\ delivered' = delivered
        BY <2>4 DEF CInv
      <3>4. QED
        BY <3>1, <3>2, <3>3, <3>5 DEF CInv
    <2>6. Asked' /\ CountHonest'
      <3>1. CountHonest'
        BY <2>4 DEF CInv
      <3>2. Asked'
        <4>1. pc' = "idle" /\ op' = "readBytes"
          BY <2>2, <2>3, <2>4
        <4>2. ~jumped' => peeked' = NoChar
          BY <2>4
        <4>3. ~configured' => early' /\ total' = 0
          BY <2>4
        <4>4. QED
          BY <4>1, <4>2, <4>3
      <3>3. QED
        BY <3>1, <3>2
    <2>7. StreamOrder'
      BY <2>2, <2>4 DEF CInv, StreamOrder, One
    <2>8. QED
      BY <1>1, <2>5, <2>6, <2>7 DEF CInv
  <1>7. CASE Configure \/ Timeout
    <2>1. UNCHANGED <<pc, want, got>>
      BY <1>7 DEF Configure, Timeout, vars
    <2>2. QED
      BY <1>1, <1>7, <2>1 DEF Configure, Timeout, CInv, StreamOrder
  <1>8. CASE BytesRecv
    <2>1. want' = length - total /\ pc' # "idle" /\ UNCHANGED got
      BY <1>8 DEF BytesRecv, Call, Go
    <2>2. QED
      BY <1>1, <1>8, <2>1 DEF BytesRecv, cdcVars, CInv, StreamOrder
  <1>9. CASE BytesUnconfigured
    <2>1. UNCHANGED <<pc, want, got>>
      BY <1>9 DEF BytesUnconfigured, vars
    <2>2. total = 0 /\ pc = "idle"
      BY <1>9 DEF BytesUnconfigured, CInv
    <2>3. total' = Modulus - 1
      BY <1>9, <2>2 DEF BytesUnconfigured
    <2>4. QED
      BY <1>1, <1>9, <2>1, <2>2, <2>3 DEF BytesUnconfigured, CInv, StreamOrder
  <1>10. CASE BytesEnd
    <2>1. UNCHANGED <<pc, want, got>>
      BY <1>10 DEF BytesEnd, vars
    <2>2. /\ pc = "idle" /\ op' = "none" /\ length' = 0 /\ total' = 0
          /\ base' = 0 /\ expired' = FALSE /\ early' = FALSE
          /\ UNCHANGED <<configured, peeked, jumped, delivered>>
      BY <1>10 DEF BytesEnd, Forget
    <2>3. 0 \in 0 .. MaxRead /\ 0 \in 0 .. Modulus - 1
      OBVIOUS
    <2>4. CdcTypes'
      BY <2>2, <2>3 DEF CInv
    <2>5. Asked' /\ CountHonest' /\ StreamOrder'
      BY <2>1, <2>2 DEF CInv, StreamOrder
    <2>6. QED
      BY <1>1, <2>4, <2>5 DEF CInv
  <1>11. CASE Endpoint
    <2>1. UNCHANGED <<want, got>> /\ pc # "idle" /\ pc' # "idle"
      BY <1>11 DEF Endpoint, Room, TestReady, CopyByte, CopyEnd, Release, Go
    <2>2. QED
      BY <1>1, <1>11, <2>1 DEF Endpoint, cdcVars, CInv, StreamOrder
  <1>12. CASE EndpointAnswer
    BY <1>1, <1>12, AnswerCInv DEF CInv
  <1>13. CASE UNCHANGED allVars
    BY <1>1, <1>13 DEF allVars, vars, cdcVars, CInv, StreamOrder
  <1>14. QED
    BY <1>2, <1>3, <1>4, <1>5, <1>6, <1>7, <1>8, <1>9, <1>10, <1>11, <1>12,
       <1>13 DEF CdcNext, CdcStep, SerialRead

(* Whatever the sketch calls, the endpoint under the port behaves as UsbOut *)
(* says: every theorem about UsbOut holds of it.                            *)
THEOREM PortImplementsEndpoint == CdcSpec => Spec
  <1>1. CdcInit => Init
    BY DEF CdcInit
  <1>2. QED
    BY <1>1, CInvInit, CInvNext, PortStep, PTL DEF CdcSpec, Spec

(* The hardware under the port is never left refusing packets with nobody   *)
(* to release it.                                                           *)
THEOREM PortReleaseNeverLost == CdcSpec => []NoLostRelease
  BY PortImplementsEndpoint, ReleaseNeverLost, PTL

(* Between the host and readBytes no byte is lost, repeated or overtaken:   *)
(* what was read, what the ring and the two banks hold and the packet in    *)
(* flight are together what the host sent.                                  *)
THEOREM PortInOrder == CdcSpec => []InOrder
  BY PortImplementsEndpoint, BytesInOrder, PTL

(* What readBytes counts is what it has put into the buffer and fits it,    *)
(* except for the -1 of a call before the host configured the device, for   *)
(* every size of ring, bank and request (CDC.cpp 241-253).                  *)
THEOREM CountsHonest == CdcSpec => []CountHonest
  <1>1. CInv => CountHonest
    BY DEF CInv
  <1>2. QED
    BY CInvInit, CInvNext, <1>1, PTL DEF CdcSpec

(* Peeked, read and bulk-read bytes come in the order of the endpoint.      *)
THEOREM StreamKept == CdcSpec => []StreamOrder
  <1>1. CInv => StreamOrder
    BY DEF CInv
  <1>2. QED
    BY CInvInit, CInvNext, <1>1, PTL DEF CdcSpec

-----------------------------------------------------------------------------
(* The IN endpoint.                                                         *)

(* While send waits, there is a reason for the wait: the hardware has the   *)
(* bank, or has just returned it and says so, or an interrupt took the flag *)
(* or clear made it unreliable.                                             *)
WaitJustified ==
    inPc \in {"poll", "tick"} => bk1Rdy \/ trcpt1 \/ stolen \/ overtaken

WaitInv == WaitJustified /\ bk1Rdy \in BOOLEAN /\ trcpt1 \in BOOLEAN

(* The wait is justified in every reachable state (USBCore.cpp 619-635).    *)
THEOREM WaitAlwaysJustified == InSpec => []WaitInv
<1>1. InInit => WaitInv
  BY DEF InInit, WaitInv, WaitJustified
<1>2. WaitInv /\ [InNext]_inVars => WaitInv'
  <2> SUFFICES ASSUME WaitInv, [InNext]_inVars PROVE WaitInv'
    OBVIOUS
  <2> USE DEF WaitInv, WaitJustified, inHw, call, history
  <2>1. CASE HostPolls
    BY <2>1 DEF HostPolls
  <2>2. CASE Completes
    BY <2>2 DEF Completes
  <2>3. CASE Interrupt
    BY <2>3 DEF Interrupt
  <2>4. ASSUME NEW n \in 1..MaxLen, Send(n) PROVE WaitInv'
    BY <2>4 DEF Send
  <2>5. CASE Clear
    BY <2>5 DEF Clear
  <2>6. CASE TestBank
    BY <2>6 DEF TestBank
  <2>7. CASE Poll
    BY <2>7 DEF Poll
  <2>8. CASE GiveUp
    BY <2>8 DEF GiveUp
  <2>9. CASE WaitOn
    BY <2>9 DEF WaitOn
  <2>10. CASE Copy
    BY <2>10 DEF Copy
  <2>11. CASE SetByteCount
    BY <2>11 DEF SetByteCount
  <2>12. CASE AckTransferComplete
    BY <2>12 DEF AckTransferComplete
  <2>13. CASE SetReady
    BY <2>13 DEF SetReady
  <2>14. CASE UNCHANGED inVars
    BY <2>14 DEF inVars
  <2> QED
    BY <2>1, <2>2, <2>3, <2>4, <2>5, <2>6, <2>7, <2>8, <2>9, <2>10, <2>11,
       <2>12, <2>13, <2>14 DEF InNext, SendStep
<1> QED
  BY <1>1, <1>2, PTL DEF InSpec

(* send answers -1 only while the bank is the hardware's, or when an        *)
(* interrupt or a clear took the completion from it (USBCore.cpp 628-635).  *)
THEOREM GivenUpForHost == InSpec => GivesUpForHost
<1>1. WaitInv /\ [InNext]_inVars => [GiveUp => bk1Rdy \/ trcpt1 \/ stolen \/ overtaken]_inVars
  BY DEF WaitInv, WaitJustified, GiveUp
<1> QED
  BY <1>1, WaitAlwaysJustified, PTL DEF InSpec, GivesUpForHost

-----------------------------------------------------------------------------
(* The order of the bytes.  Written is the number of the last byte a call   *)
(* has handed to the bank, Held how many bytes the host will get from it.   *)
Written == next - Len(rest)
Held == IF flight # -1 THEN flight ELSE IF bk1Rdy THEN inCount ELSE 0

Handed ==
    /\ flight # -1 => bk1Rdy
    /\ Written \in Nat
    /\ inPc = "idle" => rest = <<>>
    /\ \A i \in 1..Len(rest) : rest[i] = Written + i

(* The hardware returns the bank before the sketch fills it: without a      *)
(* clear that overtakes it.                                                 *)
Owner ==
    /\ bk1Rdy => ~trcpt1
    /\ inPc \in {"copy", "count", "ack", "arm"} => ~bk1Rdy
    /\ inPc \in {"count", "ack", "arm"} => \A i \in 1..chunk : buf[i] = rest[i]
    /\ inPc \in {"ack", "arm"} => inCount = chunk
    /\ inPc = "arm" => ~trcpt1

(* The bytes in the bank follow those received and precede those to come.   *)
InTurn ==
    /\ \A i \in DOMAIN hostGot : hostGot[i] <= Written
    /\ \A i \in 1..Held : buf[i] <= Written
    /\ \A i \in DOMAIN hostGot, j \in 1..Held : hostGot[i] < buf[j]
    /\ \A i, j \in 1..Held : i < j => buf[i] < buf[j]

StreamInv ==
    /\ InTypeOK /\ Handed
    /\ ~overtaken => Owner /\ InTurn
    /\ HostStream /\ NothingElseLost

LEMMA Lengths ==
  ASSUME InTypeOK
  PROVE  /\ InSize \in Nat \ {0} /\ MaxIn \in Nat /\ Len(rest) \in Nat /\ next \in Nat
         /\ chunk \in 0..InSize /\ chunk <= Len(rest)
         /\ \A i \in 1..Len(rest) : rest[i] \in Bytes
         /\ rest = <<>> <=> Len(rest) = 0
  <1>1. InSize \in Nat \ {0} /\ MaxIn \in Nat
    BY InAssumption
  <1>2. rest \in Seq(Bytes)
    BY DEF InTypeOK
  <1>3. Len(rest) \in Nat /\ (\A i \in 1..Len(rest) : rest[i] \in Bytes)
    BY <1>2, LenProperties, ElementOfSeq
  <1>4. rest = <<>> <=> Len(rest) = 0
    BY <1>2, EmptySeq
  <1>5. next \in Nat
    BY <1>1 DEF InTypeOK
  <1>6. QED
    BY <1>1, <1>3, <1>4, <1>5 DEF chunk

LEMMA PacketBytes ==
  ASSUME InTypeOK, NEW n \in 0..InSize
  PROVE  /\ SubSeq(buf, 1, n) \in Seq(0..MaxIn)
         /\ Len(SubSeq(buf, 1, n)) = n
         /\ \A i \in 1..n : SubSeq(buf, 1, n)[i] = buf[i]
         /\ ToSet(SubSeq(buf, 1, n)) = {buf[i] : i \in 1..n}
  <1>1. n \in Nat /\ 1 \in Int /\ n \in Int /\ n - 1 + 1 = n /\ 1 <= n <=> n # 0
    BY InAssumption
  <1>2. \A i \in 1..n : buf[i] \in 0..MaxIn
    BY InAssumption DEF InTypeOK
  <1>3. /\ SubSeq(buf, 1, n) \in Seq(0..MaxIn)
        /\ Len(SubSeq(buf, 1, n)) = IF 1 <= n THEN n - 1 + 1 ELSE 0
        /\ \A i \in 1..(n - 1 + 1) : SubSeq(buf, 1, n)[i] = buf[1 + i - 1]
    BY <1>1, <1>2, SubSeqProperties
  <1>4. Len(SubSeq(buf, 1, n)) = n /\ (\A i \in 1..n : SubSeq(buf, 1, n)[i] = buf[i])
    BY <1>1, <1>3
  <1>5. DOMAIN SubSeq(buf, 1, n) = 1..n
    BY <1>3, <1>4, LenProperties
  <1>6. QED
    BY <1>3, <1>4, <1>5 DEF ToSet

LEMMA InBankIs ==
  ASSUME InTypeOK
  PROVE  InBank = {buf[i] : i \in 1..Held} /\ Held \in 0..InSize
  <1>1. inCount \in 0..InSize /\ (flight # -1 => flight \in 0..InSize) /\ InSize \in Nat
    BY InAssumption DEF InTypeOK
  <1>2. Held \in 0..InSize
    BY <1>1 DEF Held
  <1>3. CASE flight # -1
    BY <1>1, <1>3, PacketBytes DEF InBank, Held
  <1>4. CASE flight = -1 /\ bk1Rdy
    BY <1>1, <1>4, PacketBytes DEF InBank, Held
  <1>5. CASE flight = -1 /\ ~bk1Rdy
    <2>1. InBank = {} /\ Held = 0 /\ 1..0 = {}
      BY <1>5 DEF InBank, Held
    <2>2. {buf[i] : i \in {}} = {}
      OBVIOUS
    <2>3. QED
      BY <1>2, <2>1, <2>2, Zenon
  <1>6. QED
    BY <1>3, <1>4, <1>5

LEMMA StreamInit == InInit => StreamInv
  <1> SUFFICES ASSUME InInit PROVE StreamInv
    OBVIOUS
  <1>1. InTypeOK
    <2>1. <<>> \in Seq(0..MaxIn) /\ <<>> \in Seq(Bytes) /\ Len(<<>>) <= MaxLen
      BY InAssumption, EmptySeq
    <2>2. 0 \in 0..MaxIn /\ 0 \in 0..InSize /\ -1 \in -1..InSize /\ 0 \in 0..MaxClear
      BY InAssumption
    <2>3. QED
      BY <2>1, <2>2 DEF InInit, InTypeOK
  <1>2. next = 0 /\ Len(rest) = 0 /\ 0 - 0 \in Nat
    BY EmptySeq DEF InInit
  <1>3. Handed /\ Owner
    BY <1>2 DEF InInit, Handed, Owner, Written
  <1>4. hostGot = <<>> /\ DOMAIN hostGot = {} /\ Held = 0 /\ 1..0 = {}
    BY DEF InInit, Held
  <1>5. InTurn /\ HostStream /\ NothingElseLost
    BY <1>2, <1>4 DEF InTurn, HostStream, NothingElseLost
  <1>6. QED
    BY <1>1, <1>3, <1>5 DEF StreamInv

-----------------------------------------------------------------------------
(* The hardware moves the bytes of the bank to the host.                    *)
LEMMA HostStreamInv ==
  ASSUME StreamInv, HostPolls \/ Completes \/ Interrupt
  PROVE  StreamInv'
  <1> USE DEF StreamInv
  <1>0. inCount \in 0..InSize /\ InSize \in Nat /\ MaxIn \in Nat
    BY InAssumption DEF InTypeOK
  <1>1. CASE HostPolls
    <2>1. /\ bk1Rdy /\ flight = -1 /\ flight' = inCount
          /\ UNCHANGED <<buf, inCount, bk1Rdy, trcpt1, hostGot, timedOut, call, history>>
      BY <1>1 DEF HostPolls
    <2>2. Held' = Held /\ Held = inCount
      BY <1>0, <2>1 DEF Held
    <2>3. InTypeOK'
      BY <1>0, <2>1 DEF InTypeOK, call, history
    <2>4. Handed' /\ (Owner => Owner') /\ (InTurn => InTurn')
      BY <2>1, <2>2 DEF Handed, Owner, InTurn, Written, chunk, call, history
    <2>5. HostStream' /\ NothingElseLost'
      <3>1. InBank' = InBank
        BY <2>1, <1>0 DEF InBank
      <3>2. QED
        BY <2>1, <3>1 DEF HostStream, NothingElseLost, call, history
    <2>6. QED
      BY <2>1, <2>3, <2>4, <2>5 DEF history
  <1>2. CASE Completes
    <2> DEFINE packet == SubSeq(buf, 1, flight)
    <2>1. /\ flight # -1 /\ hostGot' = hostGot \o packet
          /\ flight' = -1 /\ bk1Rdy' = FALSE /\ trcpt1' = TRUE
          /\ UNCHANGED <<buf, inCount, timedOut, call, history>>
      BY <1>2 DEF Completes
    <2>2. flight \in 0..InSize /\ Held = flight /\ Held' = 0 /\ bk1Rdy
      BY <1>0, <2>1 DEF InTypeOK, Held, Handed
    <2>3. /\ packet \in Seq(0..MaxIn) /\ Len(packet) = flight
          /\ \A i \in 1..flight : packet[i] = buf[i]
          /\ ToSet(packet) = {buf[i] : i \in 1..flight}
      BY <2>2, PacketBytes
    <2> HIDE DEF packet
    <2>4. hostGot \in Seq(0..MaxIn) /\ Len(hostGot) \in Nat /\ DOMAIN hostGot = 1..Len(hostGot)
      BY LenProperties DEF InTypeOK
    <2>5. /\ hostGot' \in Seq(0..MaxIn) /\ Len(hostGot') = Len(hostGot) + flight
          /\ \A i \in 1..(Len(hostGot) + flight) : hostGot'[i] =
                 IF i <= Len(hostGot) THEN hostGot[i] ELSE packet[i - Len(hostGot)]
      BY <2>1, <2>3, <2>4, ConcatProperties
    <2>6. DOMAIN hostGot' = 1..(Len(hostGot) + flight)
      BY <2>5, LenProperties
    <2>7. InTypeOK'
      <3>1. UNCHANGED <<rest, inPc, next, clears, dropped, stolen, overtaken>>
        BY <2>1 DEF call, history
      <3>2. -1 \in -1..InSize /\ FALSE \in BOOLEAN /\ TRUE \in BOOLEAN
        BY <1>0
      <3>3. QED
        BY <2>1, <2>5, <3>1, <3>2, Zenon DEF InTypeOK
    <2>8. Handed' /\ (Owner => Owner')
      BY <2>1, <2>2 DEF Handed, Owner, Written, chunk, call
    <2>9. \A i \in DOMAIN hostGot' :
             \/ i \in DOMAIN hostGot /\ hostGot'[i] = hostGot[i]
             \/ i - Len(hostGot) \in 1..flight /\ hostGot'[i] = buf[i - Len(hostGot)]
      BY <2>2, <2>3, <2>4, <2>5, <2>6
    <2>10. InTurn => InTurn'
      BY <2>1, <2>2, <2>9 DEF InTurn, Written, call
    <2>11. HostStream'
      <3>1. SUFFICES ASSUME ~overtaken, NEW i \in DOMAIN hostGot', NEW j \in DOMAIN hostGot', i < j
                     PROVE  hostGot'[i] < hostGot'[j]
        BY <2>1 DEF HostStream, history
      <3>2. InTurn /\ HostStream
        BY <3>1
      <3>3. CASE i \in DOMAIN hostGot /\ j \in DOMAIN hostGot
        BY <2>4, <2>5, <3>1, <3>2, <3>3 DEF HostStream
      <3>4. CASE i \in DOMAIN hostGot /\ j \notin DOMAIN hostGot
        BY <2>2, <2>4, <2>9, <3>2, <3>4, <2>5 DEF InTurn
      <3>5. CASE i \notin DOMAIN hostGot
        <4>1. j \notin DOMAIN hostGot /\ i \in Nat /\ j \in Nat
          BY <2>4, <2>6, <3>1, <3>5, <2>2
        <4>2. i - Len(hostGot) \in 1..flight /\ hostGot'[i] = buf[i - Len(hostGot)]
          BY <2>9, <3>5
        <4>3. j - Len(hostGot) \in 1..flight /\ hostGot'[j] = buf[j - Len(hostGot)]
          BY <2>9, <4>1
        <4>4. i - Len(hostGot) < j - Len(hostGot)
          BY <2>4, <3>1, <4>1
        <4>5. QED
          BY <2>2, <3>2, <4>2, <4>3, <4>4 DEF InTurn
      <3>6. QED
        BY <3>3, <3>4, <3>5
    <2>12. NothingElseLost'
      <3>1. InBank = ToSet(packet)
        BY <2>2, <2>3, InBankIs
      <3>2. ToSet(hostGot) \cup ToSet(packet) \subseteq ToSet(hostGot')
        <4>1. \A i \in 1..Len(hostGot) : i \in DOMAIN hostGot' /\ hostGot'[i] = hostGot[i]
          BY <2>2, <2>4, <2>5, <2>6
        <4>2. \A i \in 1..flight : i + Len(hostGot) \in DOMAIN hostGot'
                                   /\ hostGot'[i + Len(hostGot)] = buf[i]
          BY <2>2, <2>3, <2>4, <2>5, <2>6
        <4>3. QED
          BY <2>3, <2>4, <4>1, <4>2 DEF ToSet
      <3>3. QED
        BY <2>1, <3>1, <3>2 DEF NothingElseLost, call, history
    <2>13. QED
      BY <2>1, <2>7, <2>8, <2>10, <2>11, <2>12 DEF history
  <1>3. CASE Interrupt
    <2>1. /\ trcpt1 /\ trcpt1' = FALSE /\ stolen' \in BOOLEAN
          /\ UNCHANGED <<buf, inCount, bk1Rdy, flight, hostGot, timedOut, call, dropped, overtaken>>
      BY <1>3 DEF Interrupt, InTypeOK
    <2>2. Held' = Held /\ InBank' = InBank /\ Written' = Written /\ chunk' = chunk
      BY <2>1 DEF Held, InBank, Written, chunk, call
    <2>3. InTypeOK'
      BY <2>1 DEF InTypeOK, call
    <2>4. Handed' /\ (Owner => Owner') /\ (InTurn => InTurn')
      BY <2>1, <2>2 DEF Handed, Owner, InTurn, call
    <2>5. HostStream' /\ NothingElseLost'
      BY <2>1, <2>2 DEF HostStream, NothingElseLost, call
    <2>6. QED
      BY <2>1, <2>3, <2>4, <2>5
  <1>4. QED
    BY <1>1, <1>2, <1>3

-----------------------------------------------------------------------------
(* The steps of send and clear.                                             *)

(* Steps that look at a flag or acknowledge it move no byte.                *)
LEMMA FlagStepInv ==
  ASSUME StreamInv, TestBank \/ Poll \/ WaitOn \/ AckTransferComplete
  PROVE  StreamInv'
  <1> USE DEF StreamInv
  <1>1. /\ inPc \in {"test", "poll", "tick", "ack"}
        /\ inPc' \in {"poll", "copy", "tick", "arm"}
        /\ inPc' = "copy" => (inPc = "test" /\ ~bk1Rdy) \/ (inPc = "poll" /\ trcpt1)
        /\ inPc' = "arm" => inPc = "ack" /\ ~trcpt1'
        /\ trcpt1' \in {trcpt1, FALSE}
        /\ UNCHANGED <<buf, inCount, bk1Rdy, flight, hostGot, timedOut, rest, next,
                       clears, dropped, stolen, overtaken>>
    BY DEF TestBank, Poll, WaitOn, AckTransferComplete, inHw, history
  <1>2. Held' = Held /\ InBank' = InBank /\ Written' = Written /\ chunk' = chunk
    BY <1>1 DEF Held, InBank, Written, chunk
  <1>3. InTypeOK'
    BY <1>1 DEF InTypeOK
  <1>4. Handed'
    BY <1>1, <1>2 DEF Handed
  <1>5. Owner => Owner'
    <2>1. SUFFICES ASSUME Owner PROVE Owner'
      OBVIOUS
    <2>2. bk1Rdy' => ~trcpt1'
      BY <1>1, <2>1 DEF Owner
    <2>3. inPc' \in {"copy", "count", "ack", "arm"} => ~bk1Rdy'
      BY <1>1, <2>1 DEF Owner
    <2>4. inPc' \in {"count", "ack", "arm"} => \A i \in 1..chunk' : buf'[i] = rest'[i]
      BY <1>1, <1>2, <2>1 DEF Owner
    <2>5. inPc' \in {"ack", "arm"} => inCount' = chunk'
      BY <1>1, <1>2, <2>1 DEF Owner
    <2>6. inPc' = "arm" => ~trcpt1'
      BY <1>1
    <2>7. QED
      BY <2>2, <2>3, <2>4, <2>5, <2>6 DEF Owner
  <1>6. InTurn => InTurn'
    BY <1>1, <1>2 DEF InTurn
  <1>7. HostStream' /\ NothingElseLost'
    BY <1>1, <1>2 DEF HostStream, NothingElseLost
  <1>8. QED
    BY <1>1, <1>3, <1>4, <1>5, <1>6, <1>7

(* A new call has bytes nobody has written before.                          *)
LEMMA SendInv ==
  ASSUME StreamInv, NEW n \in 1..MaxLen, Send(n)
  PROVE  StreamInv'
  <1> USE DEF StreamInv
  <1>1. /\ inPc = "idle" /\ next + n <= MaxIn /\ rest' = [i \in 1..n |-> next + i]
        /\ next' = next + n /\ inPc' = "test"
        /\ UNCHANGED <<buf, inCount, bk1Rdy, trcpt1, flight, hostGot, timedOut, clears,
                       dropped, stolen, overtaken>>
    BY DEF Send, inHw, history
  <1>2. /\ MaxLen \in Nat /\ MaxIn \in Nat /\ next \in Nat /\ n \in Nat /\ n <= MaxLen
        /\ Len(rest) \in Nat
    BY InAssumption, Lengths
  <1>3. rest' \in Seq(Bytes) /\ Len(rest') = n
    <2>1. \A i \in 1..n : next + i \in Bytes
      BY <1>1, <1>2 DEF Bytes
    <2>2. QED
      BY <1>1, <1>2, <2>1, IsASeq, LenProperties
  <1>4. Written' = next /\ Written <= next
    BY <1>1, <1>2, <1>3 DEF Written
  <1>5. InTypeOK'
    <2>1. next' \in 0..MaxIn
      BY <1>1, <1>2
    <2>2. QED
      BY <1>1, <1>2, <1>3, <2>1, Zenon DEF InTypeOK
  <1>6. Held' = Held /\ InBank' = InBank
    BY <1>1 DEF Held, InBank
  <1>7. Handed'
    BY <1>1, <1>2, <1>3, <1>4 DEF Handed
  <1>8. Owner => Owner'
    BY <1>1 DEF Owner
  <1>9. InTurn => InTurn'
    <2>1. Held \in 0..InSize /\ InSize \in Nat
      BY InBankIs, Lengths
    <2>2. \A i \in 1..Held : buf[i] \in Nat
      BY <1>2, <2>1 DEF InTypeOK
    <2>3. \A i \in DOMAIN hostGot : hostGot[i] \in Nat
      BY <1>2, LenProperties DEF InTypeOK
    <2>4. Written \in Nat
      BY DEF Handed
    <2>5. QED
      BY <1>1, <1>2, <1>4, <1>6, <2>2, <2>3, <2>4 DEF InTurn
  <1>10. HostStream'
    BY <1>1 DEF HostStream
  <1>11. NothingElseLost'
    <2>1. \A b \in 1..next' : b \in 1..next \/ b \in ToSet(rest')
      <3>1. SUFFICES ASSUME NEW b \in 1..next', b \notin 1..next
                     PROVE  b \in ToSet(rest')
        OBVIOUS
      <3>2. b - next \in 1..n /\ rest'[b - next] = b /\ DOMAIN rest' = 1..n
        BY <1>1, <1>2, <3>1
      <3>3. QED
        BY <3>2 DEF ToSet
    <2>2. rest = <<>>
      BY <1>1 DEF Handed
    <2>3. QED
      BY <1>1, <1>6, <2>1, <2>2 DEF NothingElseLost, ToSet
  <1>12. QED
    BY <1>1, <1>5, <1>7, <1>8, <1>9, <1>10, <1>11

(* What the failing call and the emptied bank lose is counted as dropped;   *)
(* a packet on the wire still arrives.                                      *)
LEMMA GiveUpInv == StreamInv /\ GiveUp => StreamInv'
  <1> SUFFICES ASSUME StreamInv, GiveUp PROVE StreamInv'
    OBVIOUS
  <1> USE DEF StreamInv
  <1>1. /\ inPc = "tick" /\ timedOut' = TRUE /\ inCount' = 0 /\ stolen' = FALSE
        /\ dropped' = dropped \cup Discarded \cup ToSet(rest)
        /\ inPc' = "idle" /\ rest' = <<>>
        /\ UNCHANGED <<buf, bk1Rdy, trcpt1, flight, hostGot, next, clears, overtaken>>
    BY DEF GiveUp, inHw
  <1>2. /\ InSize \in Nat /\ MaxIn \in Nat /\ next \in Nat /\ Len(rest) \in Nat
        /\ rest' \in Seq(Bytes) /\ Len(rest') = 0
    BY <1>1, Lengths, EmptySeq
  <1>3. Held \in 0..InSize /\ InBank = {buf[i] : i \in 1..Held}
    BY InBankIs
  <1>4. Held' = Held \/ Held' = 0
    BY <1>1 DEF Held
  <1>5. dropped' \subseteq 0..MaxIn
    <2>1. InBank \subseteq 0..MaxIn
      <3>1. \A i \in 1..InSize : buf[i] \in 0..MaxIn
        BY DEF InTypeOK
      <3>2. \A i \in 1..Held : i \in 1..InSize
        BY <1>2, <1>3
      <3>3. QED
        BY <1>3, <3>1, <3>2
    <2>2. ToSet(rest) \subseteq 0..MaxIn
      <3>1. DOMAIN rest = 1..Len(rest) /\ (\A i \in 1..Len(rest) : rest[i] \in Bytes)
        BY Lengths, LenProperties DEF InTypeOK
      <3>2. QED
        BY <1>2, <3>1 DEF ToSet, Bytes
    <2>3. QED
      BY <1>1, <2>1, <2>2 DEF InTypeOK, Discarded
  <1>6. InTypeOK'
    <2>1. 0 \in 0..InSize /\ 0 <= MaxLen
      BY <1>2, InAssumption
    <2>2. QED
      BY <1>1, <1>2, <1>5, <2>1 DEF InTypeOK
  <1>7. Written' = next /\ Written <= next /\ Written \in Nat
    BY <1>1, <1>2 DEF Written, Handed
  <1>8. Handed'
    BY <1>1, <1>2, <1>7 DEF Handed
  <1>9. Owner => Owner'
    BY <1>1 DEF Owner
  <1>10. InTurn => InTurn'
    <2>1. \A i \in 1..Held : buf[i] \in Nat
      <3>1. \A i \in 1..InSize : buf[i] \in 0..MaxIn
        BY DEF InTypeOK
      <3>2. \A i \in 1..Held : i \in 1..InSize
        BY <1>2, <1>3
      <3>3. \A x \in 0..MaxIn : x \in Nat
        BY <1>2
      <3>4. QED
        BY <3>1, <3>2, <3>3
    <2>2. \A i \in DOMAIN hostGot : hostGot[i] \in Nat
      BY <1>2, LenProperties DEF InTypeOK
    <2>3. QED
      BY <1>1, <1>2, <1>4, <1>7, <2>1, <2>2 DEF InTurn
  <1>11. HostStream'
    BY <1>1 DEF HostStream
  <1>12. NothingElseLost'
    <2>1. InBank \subseteq InBank' \cup Discarded
      BY <1>1 DEF InBank, Discarded
    <2>2. QED
      BY <1>1, <2>1 DEF NothingElseLost
  <1>13. QED
    BY <1>1, <1>6, <1>8, <1>9, <1>10, <1>11, <1>12

(* A clear that finds the bank free touches nothing the host will get.      *)
LEMMA ClearInv == StreamInv /\ Clear => StreamInv'
  <1> SUFFICES ASSUME StreamInv, Clear PROVE StreamInv'
    OBVIOUS
  <1> USE DEF StreamInv
  <1>1. /\ inPc = "idle" /\ clears < MaxClear /\ inCount' = 0 /\ inPc' = "ack"
        /\ clears' = clears + 1 /\ dropped' = dropped \cup Discarded
        /\ overtaken' = (overtaken \/ bk1Rdy)
        /\ UNCHANGED <<buf, bk1Rdy, trcpt1, flight, hostGot, timedOut, rest, next, stolen>>
    BY DEF Clear, inHw
  <1>2. InSize \in Nat /\ MaxIn \in Nat /\ MaxClear \in Nat /\ rest = <<>> /\ Len(rest) = 0
    BY <1>1, InAssumption, Lengths DEF Handed
  <1>3. Held \in 0..InSize /\ InBank = {buf[i] : i \in 1..Held}
    BY InBankIs
  <1>4. Held' = Held \/ Held' = 0
    BY <1>1 DEF Held
  <1>5. InTypeOK'
    <2>1. dropped' \subseteq 0..MaxIn
      <3>1. InBank \subseteq 0..MaxIn
        BY <1>2, <1>3 DEF InTypeOK
      <3>2. QED
        BY <1>1, <3>1 DEF InTypeOK, Discarded
    <2>2. clears' \in 0..MaxClear /\ inCount' \in 0..InSize /\ overtaken' \in BOOLEAN
      BY <1>1, <1>2 DEF InTypeOK
    <2>3. QED
      BY <1>1, <2>1, <2>2, Zenon DEF InTypeOK
  <1>6. Written' = Written /\ chunk' = 0
    BY <1>1, <1>2 DEF Written, chunk
  <1>7. Handed'
    BY <1>1, <1>6 DEF Handed
  <1>8. ~overtaken' => ~overtaken /\ ~bk1Rdy
    BY <1>1
  <1>9. ~overtaken' => Owner'
    BY <1>1, <1>6, <1>8 DEF Owner
  <1>10. ~overtaken' => InTurn'
    BY <1>1, <1>4, <1>6, <1>8 DEF InTurn
  <1>11. HostStream'
    BY <1>1, <1>8 DEF HostStream
  <1>12. NothingElseLost'
    <2>1. InBank \subseteq InBank' \cup Discarded
      BY <1>1 DEF InBank, Discarded
    <2>2. QED
      BY <1>1, <1>8, <2>1 DEF NothingElseLost
  <1>13. QED
    BY <1>5, <1>7, <1>9, <1>10, <1>11, <1>12

(* The bank is filled only while it is the sketch's: nothing the host has   *)
(* still to receive is overwritten.                                         *)
LEMMA FillInv == StreamInv /\ (Copy \/ SetByteCount) => StreamInv'
  <1> SUFFICES ASSUME StreamInv, Copy \/ SetByteCount PROVE StreamInv'
    OBVIOUS
  <1> USE DEF StreamInv
  <1>0. /\ InSize \in Nat /\ MaxIn \in Nat /\ Len(rest) \in Nat
        /\ chunk \in 0..InSize /\ chunk <= Len(rest)
        /\ \A i \in 1..Len(rest) : rest[i] \in Bytes
    BY Lengths
  <1>1. /\ inPc \in {"copy", "count"} /\ inPc' \in {"count", "ack"}
        /\ timedOut' \in BOOLEAN /\ stolen' \in BOOLEAN
        /\ inPc' = "count" =>
              /\ buf' = [i \in 1..InSize |-> IF i <= chunk THEN rest[i] ELSE buf[i]]
              /\ inCount' = inCount
        /\ inPc' = "ack" => inPc = "count" /\ inCount' = chunk /\ buf' = buf
        /\ UNCHANGED <<bk1Rdy, trcpt1, flight, hostGot, rest, next, clears, dropped, overtaken>>
    BY DEF Copy, SetByteCount, inHw, history, InTypeOK
  <1>2. chunk' = chunk /\ Written' = Written
    BY <1>1 DEF chunk, Written
  <1>3. inCount' \in 0..InSize
    BY <1>0, <1>1 DEF InTypeOK
  <1>4. buf' \in [1..InSize -> 0..MaxIn]
    <2>1. CASE inPc' = "count"
      <3>1. \A i \in 1..InSize : (IF i <= chunk THEN rest[i] ELSE buf[i]) \in 0..MaxIn
        BY <1>0 DEF InTypeOK, Bytes
      <3>2. QED
        BY <1>1, <2>1, <3>1
    <2>2. CASE inPc' = "ack"
      BY <1>1, <2>2 DEF InTypeOK
    <2>3. QED
      BY <1>1, <2>1, <2>2
  <1>5. InTypeOK'
    BY <1>1, <1>3, <1>4 DEF InTypeOK
  <1>6. Handed'
    BY <1>1, <1>2 DEF Handed
  <1>7. Owner => Owner'
    <2>1. SUFFICES ASSUME Owner PROVE Owner'
      OBVIOUS
    <2>2. ~bk1Rdy /\ ~bk1Rdy'
      BY <1>1, <2>1 DEF Owner
    <2>3. \A i \in 1..chunk : buf'[i] = rest[i]
      BY <1>0, <1>1, <2>1 DEF Owner
    <2>4. inPc' = "ack" => inCount' = chunk
      BY <1>1
    <2>5. QED
      BY <1>1, <1>2, <2>2, <2>3, <2>4 DEF Owner
  <1>8. HostStream'
    BY <1>1 DEF HostStream
  <1>9. ~overtaken => Held = 0 /\ Held' = 0 /\ InBank = {}
    BY <1>1 DEF Owner, Handed, Held, InBank
  <1>10. ~overtaken => InTurn'
    BY <1>1, <1>2, <1>9 DEF InTurn
  <1>11. NothingElseLost'
    BY <1>1, <1>9 DEF NothingElseLost
  <1>12. QED
    BY <1>1, <1>5, <1>6, <1>7, <1>8, <1>10, <1>11

(* The bank goes to the hardware with the next bytes, in their order.       *)
LEMMA SetReadyInv == StreamInv /\ SetReady => StreamInv'
  <1> SUFFICES ASSUME StreamInv, SetReady PROVE StreamInv'
    OBVIOUS
  <1> USE DEF StreamInv
  <1> DEFINE n == chunk
             m == Len(rest)
  <1>0. /\ InSize \in Nat /\ MaxIn \in Nat /\ m \in Nat /\ next \in Nat
        /\ n \in 0..InSize /\ n <= m
        /\ \A i \in 1..m : rest[i] \in Bytes
    BY Lengths
  <1>1. /\ inPc = "arm" /\ bk1Rdy' = TRUE /\ rest' = SubSeq(rest, n + 1, m)
        /\ inPc' = IF m > n THEN "test" ELSE "idle"
        /\ UNCHANGED <<buf, inCount, trcpt1, flight, hostGot, timedOut, next, clears,
                       dropped, stolen, overtaken>>
    BY DEF SetReady, history
  <1>2. /\ rest' \in Seq(Bytes) /\ Len(rest') = m - n
        /\ \A i \in 1..(m - n) : rest'[i] = rest[n + i]
    <2>1. n + 1 \in Int /\ m \in Int /\ (\A i \in (n + 1)..m : rest[i] \in Bytes)
      BY <1>0
    <2>2. /\ SubSeq(rest, n + 1, m) \in Seq(Bytes)
          /\ Len(SubSeq(rest, n + 1, m)) = IF n + 1 <= m THEN m - (n + 1) + 1 ELSE 0
          /\ \A i \in 1..(m - (n + 1) + 1) :
                SubSeq(rest, n + 1, m)[i] = rest[n + 1 + i - 1]
      BY <2>1, SubSeqProperties
    <2>3. m - (n + 1) + 1 = m - n /\ (n + 1 <= m \/ m - n = 0)
      BY <1>0
    <2>4. \A i \in 1..(m - n) : n + 1 + i - 1 = n + i
      BY <1>0
    <2>5. Len(rest') = m - n
      BY <1>1, <2>2, <2>3
    <2>6. QED
      BY <1>1, <2>2, <2>3, <2>4, <2>5
  <1>3. Written' = Written + n /\ Written \in Nat /\ Written' \in Nat
    <2>1. Written = next - m /\ Written' = next - (m - n)
      BY <1>1, <1>2 DEF Written
    <2>2. Written \in Nat
      BY DEF Handed
    <2> HIDE DEF n, m
    <2>3. QED
      BY <1>0, <2>1, <2>2
  <1>4. InTypeOK'
    <2>1. inPc' \in {"test", "idle"} /\ Len(rest') <= MaxLen
      BY <1>0, <1>1, <1>2, InAssumption DEF InTypeOK
    <2>2. QED
      BY <1>1, <1>2, <2>1 DEF InTypeOK
  <1>5. Handed'
    <2>1. \A i \in 1..Len(rest') : rest'[i] = Written' + i
      <3>1. \A i \in 1..m : rest[i] = Written + i
        BY DEF Handed
      <3>2. \A i \in 1..(m - n) : n + i \in 1..m /\ Written + (n + i) = Written' + i
        BY <1>0, <1>3
      <3>3. QED
        BY <1>2, <3>1, <3>2
    <2>2. inPc' = "idle" => rest' = <<>>
      <3>1. inPc' = "idle" => Len(rest') = 0
        BY <1>0, <1>1, <1>2
      <3>2. QED
        BY <1>2, <3>1, EmptySeq
    <2>3. QED
      BY <1>1, <1>3, <2>1, <2>2 DEF Handed
  <1>6. HostStream'
    BY <1>1 DEF HostStream
  <1>7. ASSUME ~overtaken PROVE Owner' /\ InTurn' /\ NothingElseLost'
    <2>1. /\ ~bk1Rdy /\ flight = -1 /\ inCount = n
          /\ \A i \in 1..n : buf[i] = rest[i]
      BY <1>1, <1>7 DEF Owner, Handed
    <2>2. Held' = n /\ Held = 0
      BY <1>1, <2>1 DEF Held
    <2>3. \A i \in 1..n : buf'[i] = Written + i
      BY <1>0, <1>1, <2>1 DEF Handed
    <2>4. \A i \in DOMAIN hostGot : hostGot[i] \in Nat /\ hostGot[i] <= Written
      BY <1>0, <1>7, LenProperties DEF InTypeOK, InTurn
    <2>5. InTurn'
      BY <1>0, <1>1, <1>3, <2>2, <2>3, <2>4 DEF InTurn
    <2>6. NothingElseLost'
      <3>1. InBank = {}
        BY <2>1 DEF InBank
      <3>2. InBank' = {buf[i] : i \in 1..n}
        <4>1. InBank' = ToSet(SubSeq(buf, 1, n))
          BY <1>1, <2>1 DEF InBank
        <4>2. QED
          BY <1>0, <4>1, PacketBytes
      <3>3. DOMAIN rest = 1..m /\ DOMAIN rest' = 1..(m - n)
        BY <1>2, LenProperties DEF InTypeOK
      <3>4. \A i \in 1..m : (i \in 1..n /\ buf[i] = rest[i])
                          \/ (i - n \in 1..(m - n) /\ rest'[i - n] = rest[i])
        <4>1. SUFFICES ASSUME NEW i \in 1..m, i \notin 1..n
                       PROVE  i - n \in 1..(m - n) /\ rest'[i - n] = rest[i]
          BY <2>1
        <4>2. i - n \in 1..(m - n) /\ n + (i - n) = i
          BY <1>0, <4>1
        <4>3. QED
          BY <1>2, <4>2
      <3>5. ToSet(rest) \subseteq InBank' \cup ToSet(rest')
        BY <3>2, <3>3, <3>4 DEF ToSet
      <3>6. QED
        BY <1>1, <1>7, <3>1, <3>5 DEF NothingElseLost
    <2>7. ~trcpt1
      BY <1>1, <1>7 DEF Owner
    <2>8. Owner'
      BY <1>1, <2>7 DEF Owner
    <2>9. QED
      BY <2>5, <2>6, <2>8
  <1>8. overtaken => NothingElseLost'
    BY <1>1 DEF NothingElseLost
  <1>9. QED
    BY <1>1, <1>4, <1>5, <1>6, <1>7, <1>8

LEMMA StreamNext == StreamInv /\ [InNext]_inVars => StreamInv'
  <1> SUFFICES ASSUME StreamInv, [InNext]_inVars PROVE StreamInv'
    OBVIOUS
  <1>1. CASE HostPolls \/ Completes \/ Interrupt
    BY <1>1, HostStreamInv
  <1>2. ASSUME NEW n \in 1..MaxLen, Send(n) PROVE StreamInv'
    BY <1>2, SendInv
  <1>3. CASE Clear
    BY <1>3, ClearInv
  <1>4. CASE TestBank \/ Poll \/ WaitOn \/ AckTransferComplete
    BY <1>4, FlagStepInv
  <1>5. CASE GiveUp
    BY <1>5, GiveUpInv
  <1>6. CASE Copy \/ SetByteCount
    BY <1>6, FillInv
  <1>7. CASE SetReady
    BY <1>7, SetReadyInv
  <1>8. CASE UNCHANGED inVars
    <2>1. UNCHANGED <<buf, inCount, bk1Rdy, trcpt1, flight, hostGot, timedOut, inPc, rest,
                      next, clears, dropped, stolen, overtaken>>
      BY <1>8 DEF inVars, inHw, call, history
    <2>2. Held' = Held /\ InBank' = InBank /\ Written' = Written /\ chunk' = chunk
      BY <2>1 DEF Held, InBank, Written, chunk
    <2>3. InTypeOK' /\ Handed'
      BY <2>1, <2>2 DEF StreamInv, InTypeOK, Handed
    <2>4. (Owner => Owner') /\ (InTurn => InTurn')
      BY <2>1, <2>2 DEF Owner, InTurn
    <2>5. HostStream' /\ NothingElseLost'
      BY <2>1, <2>2 DEF StreamInv, HostStream, NothingElseLost
    <2>6. QED
      BY <2>1, <2>3, <2>4, <2>5 DEF StreamInv
  <1>9. QED
    BY <1>1, <1>2, <1>3, <1>4, <1>5, <1>6, <1>7, <1>8 DEF InNext, SendStep

(* The order of the bytes holds in every reachable state of send           *)
(* (USBCore.cpp 602-662).                                                  *)
THEOREM StreamHolds == InSpec => []StreamInv
  BY StreamInit, StreamNext, PTL DEF InSpec

(* The state of send and of its endpoint keeps its types (USBCore.cpp       *)
(* 602-662): a count never exceeds a packet.                                *)
THEOREM InTypeCorrect == InSpec => []InTypeOK
<1>1. StreamInv => InTypeOK
  BY DEF StreamInv
<1> QED
  BY <1>1, StreamHolds, PTL

(* Whatever the timeouts, the host gets the bytes of send at most once and  *)
(* in the order of the calls (USBCore.cpp 602-662).                         *)
THEOREM ReceivedInOrder == InSpec => []HostStream
<1>1. StreamInv => HostStream
  BY DEF StreamInv
<1> QED
  BY <1>1, StreamHolds, PTL

(* Only a send that answers -1, or a clear, takes bytes from the stream     *)
(* (USBCore.cpp 628-635 and 451-460).                                       *)
THEOREM OnlyGivenUpLost == InSpec => []NothingElseLost
<1>1. StreamInv => NothingElseLost
  BY DEF StreamInv
<1> QED
  BY <1>1, StreamHolds, PTL

-----------------------------------------------------------------------------
(* The reset the port's requests arm: the application is not erased against *)
(* the host's last request, however the requests and the SysTick handler    *)
(* interleave, except by the race the property names.                       *)

ResetWanted == raced \/ (slow /\ ~dtr)

(* A countdown runs, is being decremented or ends only if it is wanted.      *)
CountdownWanted ==
    /\ raced \in BOOLEAN /\ slow \in BOOLEAN /\ dtr \in BOOLEAN
    /\ ticks # -1 => ResetWanted
    /\ sys \in {"store", "banzai"} => ResetWanted
    /\ erased => ResetWanted

(* Everything but the requests of the host and tickReset leaves it alone.   *)
LEMMA OthersKeep ==
    ASSUME CountdownWanted, UNCHANGED <<ticks, erased, raced, slow, dtr>>,
           sys' \in {"store", "banzai"} => sys \in {"store", "banzai"} \/ ticks # -1
    PROVE CountdownWanted'
BY DEF CountdownWanted, ResetWanted

LEMMA RequestKeeps ==
    ASSUME CountdownWanted, NEW rate \in BOOLEAN, NEW open \in BOOLEAN, Setup(rate, open)
    PROVE CountdownWanted'
<1>1. /\ slow' = rate /\ dtr' = open /\ raced' = (sys \in {"store", "banzai"})
      /\ sys' = sys /\ erased' = erased /\ ~erased
      /\ ticks' = IF rate /\ ~open THEN ResetTicks ELSE -1
  BY DEF Setup
<1>2. raced' \in BOOLEAN
  BY <1>1
<1>3. ticks' # -1 => rate /\ ~open
  BY <1>1
<1>4. sys' \in {"store", "banzai"} => raced'
  BY <1>1
<1> QED
  BY <1>1, <1>2, <1>3, <1>4 DEF CountdownWanted, ResetWanted

LEMMA CountdownInv == TimeSpec => []CountdownWanted
<1>1. TimeInit => CountdownWanted
  BY DEF TimeInit, CountdownWanted
<1>2. CountdownWanted /\ [TimeNext]_timeVars => CountdownWanted'
  <2> SUFFICES ASSUME CountdownWanted, [TimeNext]_timeVars PROVE CountdownWanted'
    OBVIOUS
  <2>1. ASSUME NEW b \in BOOLEAN, SetLineCoding(b) PROVE CountdownWanted'
    <3>1. dtr \in BOOLEAN
      BY DEF CountdownWanted
    <3> QED
      BY <2>1, <3>1, RequestKeeps DEF SetLineCoding
  <2>2. ASSUME NEW b \in BOOLEAN, SetControlLineState(b) PROVE CountdownWanted'
    <3>1. slow \in BOOLEAN
      BY DEF CountdownWanted
    <3> QED
      BY <2>2, <3>1, RequestKeeps DEF SetControlLineState
  <2>3. CASE TickReset
    BY <2>3 DEF TickReset, Tick, line, CountdownWanted, ResetWanted
  <2>11. CASE Banzai
    BY <2>11 DEF Banzai, Tick, line, CountdownWanted, ResetWanted
  <2>4. CASE TestReset
    BY <2>4, OthersKeep DEF TestReset, Tick, line
  <2>5. CASE Enter \/ Count
    BY <2>5, OthersKeep
       DEF Enter, Count, Tick, line, countdown
  <2>6. CASE IsrMicros \/ IsrWork
    BY <2>6, OthersKeep DEF IsrMicros, IsrWork, line, countdown
  <2>7. ASSUME Step PROVE CountdownWanted'
    BY <2>7, OthersKeep DEF Step, line, countdown
  <2>8. CASE \/ Work
             \/ ReadVal \/ ReadPend \/ ReadAgain \/ ReadDone
    BY <2>7, <2>8
       DEF Work, ReadVal, ReadPend, ReadAgain, ReadDone
  <2>9. ASSUME NEW n \in 1..MaxDelay, Delay(n) PROVE CountdownWanted'
    BY <2>7, <2>9 DEF Delay
  <2>10. CASE UNCHANGED timeVars
    BY <2>10, OthersKeep DEF timeVars, clock, line, countdown
  <2> QED
    BY <2>1, <2>2, <2>3, <2>4, <2>5, <2>6, <2>8, <2>9, <2>10, <2>11
       DEF TimeNext, Running, SysTick
<1> QED
  BY <1>1, <1>2, PTL DEF TimeSpec

(* The application is erased only for a port the host keeps closed at 1200  *)
(* baud, or when the last request fell between tickReset's read of the      *)
(* countdown and the masking of the interrupts in banzai.                   *)
THEOREM ErasedOnlyWhenWanted == TimeSpec => []EraseWanted
<1>1. CountdownWanted => EraseWanted
  BY DEF CountdownWanted, ResetWanted, EraseWanted
<1> QED
  BY <1>1, CountdownInv, PTL

-----------------------------------------------------------------------------
(* The time micros and delay tell.                                          *)

(* Cycles since the counter was last at zero, and how often it has been     *)
(* there.                                                                   *)
Phase == (now + 1) % Period
Ticks == (now + 1) \div Period
InTime == now \in 0..(Horizon - 1)

(* Quotient and remainder, for the provers, which know them of a constant   *)
(* divisor only.                                                            *)
LEMMA DivMod ==
    ASSUME NEW a \in Int, NEW b \in Nat \ {0}
    PROVE a \div b \in Int /\ a % b \in 0..(b-1) /\ a = (b * (a \div b)) + (a % b)
OBVIOUS

(* ... and that there is one pair of them.                                  *)
LEMMA DivIs ==
    ASSUME NEW b \in Nat \ {0}, NEW q \in Int, NEW r \in 0..(b-1), NEW a \in Int, a = (b * q) + r
    PROVE a \div b = q /\ a % b = r
OBVIOUS

(* Remainders of numbers a multiple of the divisor apart.                   *)
LEMMA ModShift ==
    ASSUME NEW b \in Nat \ {0}, NEW a \in Int, NEW q \in Int, NEW c \in Int, c = a + (b * q)
    PROVE c % b = a % b
<1>1. PICK p \in Int, r \in 0..(b-1) : p = a \div b /\ r = a % b /\ a = (b * p) + r
  BY DivMod
<1>2. PICK s \in Int : s = p + q
  OBVIOUS
<1>3. b * s = (b * p) + (b * q)
  BY <1>2
<1>4. c = (b * s) + r
  BY <1>1, <1>3
<1>5. PICK d \in Int : d = (b * s) + r
  OBVIOUS
<1>6. d % b = r
  BY <1>5, DivIs
<1>7. c % b = r
  BY <1>4, <1>5, <1>6
<1> QED
  BY <1>1, <1>7

(* A sum that wraps may wrap before it is formed.                           *)
LEMMA ModPlus ==
    ASSUME NEW b \in Nat \ {0}, NEW z \in Int, NEW c \in Int
    PROVE ((z % b) + c) % b = (z + c) % b
<1>1. PICK p \in Int, r \in 0..(b-1) : p = z \div b /\ r = z % b /\ z = (b * p) + r
  BY DivMod
<1>2. PICK d \in Int, e \in Int : d = z + c /\ e = r + c
  OBVIOUS
<1>3. d = e + (b * p)
  BY <1>1, <1>2
<1>4. d % b = e % b
  BY <1>3, ModShift
<1> QED
  BY <1>1, <1>2, <1>4

LEMMA ModSame ==
    ASSUME NEW b \in Nat \ {0}, NEW x \in Int, NEW y \in Int, NEW c \in Int, x % b = y % b
    PROVE (x + c) % b = (y + c) % b
<1>1. ((x % b) + c) % b = (x + c) % b /\ ((y % b) + c) % b = (y + c) % b
  BY ModPlus
<1> QED
  BY <1>1

(* The microseconds the count of ticks can tell: a number of turns of micros. *)
Span == Ms * CountWrap

(* The periods of the counter and of the count, as products; and without    *)
(* them, for the steps that need only their order.                          *)
LEMMA TimeProducts ==
    /\ Period \in Nat \ {0} /\ Wrap \in Nat \ {0} /\ Horizon \in Nat \ {0}
    /\ CountWrap \in Nat \ {0} /\ Cycles \in Nat \ {0} /\ Ms \in Nat \ {0} /\ Busy \in Nat
    /\ Period = Cycles * Ms /\ Horizon = Period * CountWrap /\ Horizon = Cycles * Span
    /\ Span \in Nat \ {0} /\ Span = Ms * CountWrap /\ Span % Wrap = 0 /\ Period <= Horizon
<1>1. \A x, y \in Nat \ {0} : x * y \in Nat \ {0} /\ x <= x * y
  OBVIOUS
<1>2. /\ CountWrap \in Nat \ {0} /\ Cycles \in Nat \ {0} /\ Ms \in Nat \ {0} /\ Busy \in Nat
  BY TimeAssumption
<1>3. Period \in Nat \ {0} /\ Span \in Nat \ {0}
  BY <1>1, <1>2 DEF Period, Span
<1>4. Horizon \in Nat \ {0} /\ Period <= Horizon
  BY <1>1, <1>2, <1>3 DEF Horizon
<1>5. \A x, y, z \in Nat : (x * y) * z = x * (y * z)
  OBVIOUS
<1>6. Horizon = Cycles * Span
  BY <1>2, <1>5 DEF Horizon, Period, Span
<1>7. Wrap \in Nat \ {0} /\ Span % Wrap = 0
  BY TimeAssumption DEF Span
<1> QED
  BY <1>2, <1>3, <1>4, <1>6, <1>7 DEF Horizon, Period, Span

LEMMA SpanWraps == \E w \in Int : Span = Wrap * w
<1>1. Span \in Nat \ {0} /\ Wrap \in Nat \ {0} /\ Span % Wrap = 0
  BY TimeProducts
<1>2. Span \in Int
  BY <1>1
<1>3. Span \div Wrap \in Int /\ Span = (Wrap * (Span \div Wrap)) + (Span % Wrap)
  BY <1>1, <1>2, DivMod, Zenon
<1>4. PICK w \in Int : w = Span \div Wrap
  BY <1>3
<1>5. Wrap * w \in Int
  BY <1>1
<1>6. Span = Wrap * w
  BY <1>1, <1>3, <1>4, <1>5
<1> QED
  BY <1>6

LEMMA TimeConstants ==
    /\ Period \in Nat \ {0} /\ Wrap \in Nat \ {0} /\ Horizon \in Nat \ {0}
    /\ CountWrap \in Nat \ {0} /\ Busy \in Nat /\ Period <= Horizon /\ LOAD = Period - 1
BY TimeProducts DEF LOAD

(* The time is a number of ticks and a phase.                               *)
LEMMA PhaseOf ==
    ASSUME InTime
    PROVE /\ Phase \in 0..(Period-1) /\ Ticks \in 0..CountWrap
          /\ now + 1 = (Period * Ticks) + Phase
<1>1. now + 1 \in Nat /\ now + 1 <= Horizon
  BY TimeConstants DEF InTime
<1>2. /\ Phase \in 0..(Period-1) /\ Ticks \in Int
      /\ now + 1 = (Period * Ticks) + Phase
  <2>1. PICK a \in Nat : a = now + 1
    BY <1>1
  <2>2. a \div Period \in Int /\ a % Period \in 0..(Period-1)
        /\ a = (Period * (a \div Period)) + (a % Period)
    BY DivMod, TimeConstants
  <2>3. Ticks = a \div Period /\ Phase = a % Period
    BY <2>1 DEF Phase, Ticks
  <2> QED
    BY <2>1, <2>2, <2>3
<1>3. \A p, w \in Nat, t, h \in Int : 0 <= h /\ h < p =>
        /\ (p * t) + h >= 0 => t >= 0
        /\ (p * t) + h <= p * w => t <= w
  <2> TAKE p, w \in Nat, t, h \in Int
  <2>1. ASSUME t <= -1 PROVE p * t <= -p
    BY <2>1
  <2>2. ASSUME t >= w + 1 PROVE p * t >= (p * w) + p
    BY <2>2
  <2> QED
    BY <2>1, <2>2
<1> QED
  BY <1>1, <1>2, <1>3, TimeProducts

(* Where the counter stands n cycles later.                                 *)
LEMMA PhaseAfter ==
    ASSUME InTime, NEW n \in 0..(Period-1)
    PROVE (now + n + 1) % Period = IF Phase + n < Period THEN Phase + n
                                   ELSE Phase + n - Period
<1>1. PICK p \in Int, h \in 0..(Period-1) : p = Ticks /\ h = Phase /\ now + 1 = (Period * p) + h
  BY PhaseOf
<1>2. PICK a \in Int : a = now + n + 1
  BY DEF InTime
<1>3. CASE h + n < Period
  <2>1. PICK r \in 0..(Period-1) : r = h + n
    BY <1>3, TimeConstants
  <2>2. a = (Period * p) + r
    BY <1>1, <1>2, <2>1, TimeConstants DEF InTime
  <2>3. a % Period = r
    BY <2>2, DivIs, TimeConstants
  <2> QED
    BY <1>1, <1>2, <1>3, <2>1, <2>3
<1>4. CASE h + n >= Period
  <2>1. PICK r \in 0..(Period-1), q \in Int : r = h + n - Period /\ q = p + 1
    BY <1>4, TimeConstants
  <2>2. Period * q = (Period * p) + Period
    BY <2>1, TimeConstants
  <2>3. a = (Period * q) + r
    BY <1>1, <1>2, <2>1, <2>2, TimeConstants DEF InTime
  <2>4. a % Period = r
    BY <2>3, DivIs, TimeConstants
  <2>5. ~(Phase + n < Period)
    BY <1>1, <1>4, TimeConstants
  <2> QED
    BY <1>1, <1>2, <2>1, <2>4, <2>5
<1> QED
  BY <1>3, <1>4, TimeConstants

(* What VAL tells of the phase.                                             *)
LEMMA ValOf ==
    ASSUME NEW t \in Int
    PROVE /\ VAL(t) \in 0..(Period-1)
          /\ VAL(t) = 0 <=> (t + 1) % Period = 0
          /\ (t + 1) % Period # 0 => VAL(t) = Period - ((t + 1) % Period)
<1>1. PICK p \in Int, r \in 0..(Period-1) : p = t \div Period /\ r = t % Period /\ t = (Period * p) + r
  BY DivMod, TimeConstants
<1>2. VAL(t) = Period - 1 - r
  BY <1>1, TimeConstants DEF VAL
<1>3. PICK a \in Int : a = t + 1
  OBVIOUS
<1>4. CASE r = Period - 1
  <2>1. PICK q \in Int, o \in 0..(Period-1) : q = p + 1 /\ o = 0
    BY TimeConstants
  <2>2. Period * q = (Period * p) + Period
    BY <2>1, TimeConstants
  <2>3. a = (Period * q) + o
    BY <1>1, <1>3, <1>4, <2>1, <2>2, TimeConstants
  <2>4. a % Period = 0
    BY <2>1, <2>3, DivIs, TimeConstants
  <2> QED
    BY <1>2, <1>3, <1>4, <2>4, TimeConstants
<1>5. CASE r # Period - 1
  <2>1. PICK s \in 0..(Period-1) : s = r + 1
    BY <1>5, TimeConstants
  <2>2. a = (Period * p) + s
    BY <1>1, <1>3, <2>1, TimeConstants
  <2>3. a % Period = s
    BY <2>2, DivIs, TimeConstants
  <2> QED
    BY <1>2, <1>3, <2>1, <2>3, TimeConstants
<1> QED
  BY <1>4, <1>5

(* The counter starts again within n cycles when the phase comes to the end *)
(* of a period.                                                             *)
LEMMA ExpiresWhen ==
    ASSUME InTime, NEW n \in 0..(Period-1)
    PROVE Expires(n) <=> Phase + n >= Period
<1>1. ASSUME NEW k \in 1..n PROVE VAL(now + k) = 0 <=> Phase + k = Period
  <2>1. k \in 0..(Period-1)
    BY TimeConstants
  <2>2. PICK t \in Int : t = now + k /\ t + 1 = now + k + 1
    BY DEF InTime
  <2>3. (t + 1) % Period = IF Phase + k < Period THEN Phase + k ELSE Phase + k - Period
    BY <2>1, <2>2, PhaseAfter
  <2>4. Phase + k = Period <=> (t + 1) % Period = 0
    BY <2>1, <2>3, PhaseOf, TimeConstants
  <2> QED
    BY <2>2, <2>4, ValOf
<1>2. ASSUME Phase + n >= Period PROVE Expires(n)
  <2>1. Period - Phase \in 1..n /\ Phase + (Period - Phase) = Period
    BY <1>2, PhaseOf, TimeConstants
  <2> QED
    BY <1>1, <2>1 DEF Expires
<1>3. ASSUME Expires(n) PROVE Phase + n >= Period
  <2>1. PICK k \in 1..n : VAL(now + k) = 0
    BY <1>3 DEF Expires
  <2> QED
    BY <1>1, <2>1, PhaseOf, TimeConstants
<1> QED
  BY <1>2, <1>3

(* Cycles that pass.                                                        *)
LEMMA ClockPasses ==
    ASSUME InTime, NEW n \in 1..(Period-1), NEW p \in BOOLEAN, Pass(n, p)
    PROVE /\ InTime' /\ now' = (now + n) % Horizon
          /\ Phase' = IF Phase + n < Period THEN Phase + n ELSE Phase + n - Period
          /\ pend' = (p \/ Phase + n >= Period)
          /\ ~(p /\ Phase + n >= Period)
          /\ Ticks' % CountWrap
                = (Ticks + (IF Phase + n < Period THEN 0 ELSE 1)) % CountWrap
<1>1. /\ now' = (now + n) % Horizon /\ pend' = (p \/ Phase + n >= Period)
      /\ ~(p /\ Phase + n >= Period)
  BY ExpiresWhen DEF Pass
<1>2. now + n \in Nat /\ now + n < Horizon + Horizon
  BY TimeConstants DEF InTime
<1>3. PICK k \in {0, 1} : now' = now + n - (k * Horizon) /\ now' \in 0..(Horizon-1)
  <2>0. PICK a \in Nat : a = now + n
    BY <1>2
  <2>1. CASE a < Horizon
    <3>1. PICK r \in 0..(Horizon-1) : r = a
      BY <2>1, TimeConstants
    <3>2. a = (Horizon * 0) + r
      BY <3>1, TimeConstants
    <3>3. a % Horizon = r
      BY <3>2, DivIs, TimeConstants
    <3> QED
      BY <1>1, <2>0, <3>1, <3>3, TimeConstants
  <2>2. CASE a >= Horizon
    <3>1. PICK r \in 0..(Horizon-1) : r = a - Horizon
      BY <1>2, <2>0, <2>2, TimeConstants
    <3>2. a = (Horizon * 1) + r
      BY <3>1, TimeConstants
    <3>3. a % Horizon = r
      BY <3>2, DivIs, TimeConstants
    <3>4. now' = r
      BY <1>1, <2>0, <3>3
    <3>5. 1 * Horizon = Horizon /\ Horizon \in Nat
      BY TimeConstants
    <3>6. now' = now + n - (1 * Horizon) /\ now' \in 0..(Horizon-1)
      BY <2>0, <3>1, <3>4, <3>5 DEF InTime
    <3> QED
      BY <3>6
  <2> QED
    BY <2>0, <2>1, <2>2, TimeConstants
<1>4. PICK q \in Int, h \in 0..(Period-1) :
        q = Ticks /\ h = Phase /\ now + 1 = (Period * q) + h
  BY PhaseOf
<1>5. PICK c \in {0, 1} : /\ c = IF h + n < Period THEN 0 ELSE 1
                          /\ h + n - (c * Period) \in 0..(Period-1)
  <2>1. CASE h + n < Period
    BY <2>1, TimeConstants
  <2>2. CASE h + n >= Period
    BY <2>2, TimeConstants
  <2> QED
    BY <2>1, <2>2, TimeConstants
<1>6. now' + 1 = (Period * (q + c - (CountWrap * k))) + (h + n - (c * Period))
  <2>1. k * Horizon = Period * (CountWrap * k)
    <3>1. \A x, y \in Int : k * (x * y) = x * (y * k)
      BY <1>3
    <3> QED
      BY <3>1, TimeProducts
  <2>2. Period * (q + c - (CountWrap * k)) = ((Period * q) + (c * Period)) - (Period * (CountWrap * k))
    <3>1. \A x, y, z, w \in Int : x * (y + z - w) = ((x * y) + (z * x)) - (x * w)
      OBVIOUS
    <3> QED
      BY <3>1, TimeConstants
  <2>3. Period * q \in Int /\ c * Period \in Int /\ Period * (CountWrap * k) \in Int
    BY TimeConstants
  <2> QED
    BY <1>3, <1>4, <2>1, <2>2, <2>3, TimeConstants DEF InTime
<1>7. PICK a \in Int, s \in Int, r \in 0..(Period-1), b \in Int :
        /\ a = now' + 1 /\ s = q + c - (CountWrap * k) /\ r = h + n - (c * Period)
        /\ b = q + c
  <2>1. CountWrap * k \in Int /\ c \in Int
    BY TimeConstants
  <2>2. now' + 1 \in Int
    BY <1>3, TimeConstants
  <2>3. q + c - (CountWrap * k) \in Int /\ q + c \in Int
    BY <2>1
  <2> QED
    BY <1>5, <2>2, <2>3
<1>8. a = (Period * s) + r
  BY <1>6, <1>7
<1>9. a \div Period = s /\ a % Period = r
  BY <1>8, DivIs, TimeConstants
<1>10. s % CountWrap = b % CountWrap
  <2>1. PICK j \in Int : j = -k
    OBVIOUS
  <2>2. s = b + (CountWrap * j)
    BY <1>7, <2>1, TimeConstants
  <2> QED
    BY <2>2, ModShift, TimeConstants
<1>11. Ticks' = s /\ Phase' = r
  BY <1>7, <1>9 DEF Ticks, Phase
<1>12. Phase' = IF h + n < Period THEN h + n ELSE h + n - Period
  BY <1>5, <1>7, <1>11, TimeConstants
<1>13. Ticks' % CountWrap = (q + (IF h + n < Period THEN 0 ELSE 1)) % CountWrap
  BY <1>5, <1>7, <1>10, <1>11
<1>14. InTime'
  BY <1>3 DEF InTime
<1> QED
  BY <1>1, <1>4, <1>12, <1>13, <1>14

(* A tick is longer than what may pass between two readings of the counter. *)
LongTick == 2 * Busy + 10 < Period

Samples == [ticks : 0..(Period-1), pend : BOOLEAN, count : 0..(CountWrap-1)]

ClockTyped ==
    /\ now \in 0..(Horizon-1) /\ pend \in BOOLEAN /\ tickCount \in 0..(CountWrap-1)
    /\ sys \in {"idle", "count", "reset", "store", "banzai"} /\ busy \in 0..Busy
    /\ todo \in {"idle", "val", "pend", "count"} /\ firstTry \in BOOLEAN
    /\ old \in Samples /\ new \in Samples /\ age \in 0..Horizon

(* The tick count, with the ticks that still have to be counted.            *)
Owed == (IF pend THEN 1 ELSE 0) + (IF sys = "count" THEN 1 ELSE 0)
CountsTicks == (tickCount + Owed) % CountWrap = Ticks % CountWrap

(* A reading d cycles old, k of them the sketch's.                          *)
Handled ==
    IF sys = "count" THEN 1 ELSE IF sys = "reset" THEN 2 ELSE IF sys = "store" THEN 3
    ELSE IF sys = "banzai" THEN 4 ELSE 5
Since(d, k) ==
    /\ d <= k + Busy + Handled + busy
    /\ pend \/ sys # "idle" => Phase <= d
    /\ sys # "idle" => ~pend
    /\ pend \/ d < Phase => d <= k + busy

(* What VAL was d cycles ago; whether the counter has started again since.  *)
Ago(d) == IF d < Phase THEN Period - Phase + d ELSE d - Phase
Overtaken(d) == 1 <= Phase /\ Phase <= d

(* A reading that tells a time within the call.                             *)
Tells(r) ==
    \E t \in 0..(Horizon-1) :
        /\ ~r.pend /\ r.ticks = VAL(t) /\ r.count = t \div Period /\ t % Period # Period - 1
        /\ \E e \in 0..age : now = (t + e) % Horizon

Sampled(k) ==
    \E d \in 1..Period :
        /\ Since(d, k) /\ d <= age /\ new.ticks = Ago(d)
        /\ todo = "count" /\ new.pend => Overtaken(d)
        /\ todo = "val" => Overtaken(d) \/ Tells(new)

ReadsTrue ==
    /\ todo = "idle" => firstTry
    /\ todo = "pend" => Sampled(1)
    /\ todo = "count" => Sampled(2)
    /\ todo = "val" /\ ~firstTry => Sampled(3)
    /\ todo \in {"pend", "count"} /\ ~firstTry => old.ticks < new.ticks \/ Tells(old)

ClockInv == ClockTyped /\ CountsTicks /\ ReadsTrue

(* The four ways cycles pass.                                               *)
SketchPasses(n) == /\ n = 1 /\ Sketch /\ Pass(n, pend) /\ sys' = sys /\ busy' = busy
IsrPasses(n) == /\ n \in 1..(Busy - busy) /\ Pass(n, pend) /\ sys' = sys /\ busy' = busy + n
EnterPasses(n) == /\ n = 1 /\ pend /\ sys = "idle" /\ Pass(n, FALSE) /\ sys' = "count" /\ busy' = 0
HandlerPasses(n) ==
    /\ n = 1 /\ Pass(n, pend) /\ busy' = busy
    /\ \/ sys = "count" /\ sys' = "reset"
       \/ sys = "reset" /\ sys' \in {"store", "idle"}
       \/ sys = "store" /\ sys' \in {"banzai", "idle"}
       \/ sys = "banzai" /\ sys' = "idle"
Passes(n) == SketchPasses(n) \/ IsrPasses(n) \/ EnterPasses(n) \/ HandlerPasses(n)

(* What the four ways do to the counter and its flag.                       *)
LEMMA PassesClock ==
    ASSUME LongTick, ClockTyped, NEW n, Passes(n)
    PROVE /\ n \in 1..(Period-1) /\ n <= Busy + 1 /\ InTime /\ InTime'
          /\ now' = (now + n) % Horizon
          /\ Phase \in 0..(Period-1)
          /\ Phase' = IF Phase + n < Period THEN Phase + n ELSE Phase + n - Period
          /\ pend' = ((pend /\ ~EnterPasses(n)) \/ Phase + n >= Period)
          /\ pend /\ ~EnterPasses(n) => Phase + n < Period
          /\ Ticks' % CountWrap
                = (Ticks + (IF Phase + n < Period THEN 0 ELSE 1)) % CountWrap
<1>1. n \in 1..(Period-1) /\ n <= Busy + 1 /\ InTime
  <2>1. n = 1 \/ n \in 1..(Busy - busy)
    BY DEF Passes, SketchPasses, IsrPasses, EnterPasses, HandlerPasses
  <2>2. busy \in 0..Busy /\ Busy \in Nat /\ Period \in Nat /\ 2 * Busy + 10 < Period
    BY TimeConstants DEF LongTick, ClockTyped
  <2> QED
    BY <2>1, <2>2 DEF ClockTyped, InTime
<1>2. PICK p \in BOOLEAN : p = (pend /\ ~EnterPasses(n)) /\ Pass(n, p)
  <2>1. CASE EnterPasses(n)
    BY <2>1 DEF EnterPasses, ClockTyped
  <2>2. CASE ~EnterPasses(n)
    BY <2>2 DEF Passes, SketchPasses, IsrPasses, HandlerPasses, ClockTyped
  <2> QED
    BY <2>1, <2>2
<1>3. /\ InTime' /\ now' = (now + n) % Horizon
      /\ Phase' = IF Phase + n < Period THEN Phase + n ELSE Phase + n - Period
      /\ pend' = (p \/ Phase + n >= Period)
      /\ ~(p /\ Phase + n >= Period)
      /\ Ticks' % CountWrap
            = (Ticks + (IF Phase + n < Period THEN 0 ELSE 1)) % CountWrap
  BY <1>1, <1>2, ClockPasses
<1>4. Phase \in 0..(Period-1)
  BY <1>1, PhaseOf
<1>5. p => Phase + n < Period
  BY <1>1, <1>3, <1>4, TimeConstants
<1> QED
  BY <1>1, <1>2, <1>3, <1>4, <1>5

(* What is known of a reading stays known, for its age and for the steps of *)
(* the sketch since.                                                        *)
LEMMA SincePasses ==
    ASSUME LongTick, ClockTyped, NEW n, Passes(n), NEW k \in 0..3,
           NEW j \in 0..3, j = IF SketchPasses(n) THEN k + 1 ELSE k,
           NEW d \in 1..Period, Since(d, k)
    PROVE /\ d + n \in 1..Period /\ Since(d + n, j)'
          /\ Ago(d + n)' = Ago(d)
          /\ Overtaken(d) => Overtaken(d + n)'
<1>0. /\ Phase \in 0..(Period-1) /\ n \in 1..(Period-1) /\ n <= Busy + 1
      /\ Phase' = IF Phase + n < Period THEN Phase + n ELSE Phase + n - Period
      /\ pend' = ((pend /\ ~EnterPasses(n)) \/ Phase + n >= Period)
      /\ pend /\ ~EnterPasses(n) => Phase + n < Period
  BY PassesClock
<1>1. /\ Busy \in Nat /\ Period \in Nat /\ busy \in 0..Busy /\ pend \in BOOLEAN
      /\ 2 * Busy + 10 < Period /\ Handled \in 1..5
  BY TimeConstants DEF LongTick, ClockTyped, Handled
<1>2. /\ d <= k + Busy + Handled + busy
      /\ pend \/ sys # "idle" => Phase <= d
      /\ sys # "idle" => ~pend
      /\ pend \/ d < Phase => d <= k + busy
  BY DEF Since
<1>3. PICK e \in Nat : e = d + n
  BY <1>0
<1>4. PICK b \in 0..Busy, h \in 1..5 : b = busy' /\ h = Handled'
  <2>1. Handled' \in 1..5
    BY DEF Handled
  <2>2. busy' \in 0..Busy
    <3>1. busy' = busy \/ busy' = 0 \/ (n \in 1..(Busy - busy) /\ busy' = busy + n)
      BY DEF Passes, SketchPasses, IsrPasses, EnterPasses, HandlerPasses
    <3> QED
      BY <1>1, <3>1
  <2> QED
    BY <2>1, <2>2
<1>5. /\ e <= j + Busy + h + b
      /\ pend' \/ sys' # "idle" => Phase' <= e
      /\ sys' # "idle" => ~pend'
      /\ pend' \/ e < Phase' => e <= j + b
  <2>0. ~EnterPasses(n) => /\ pend' = (pend \/ Phase + n >= Period)
                           /\ pend => Phase + n < Period
    BY <1>0
  <2>1. CASE SketchPasses(n)
    <3>1. n = 1 /\ b = busy /\ h = Handled /\ j = k + 1 /\ sys = "idle" /\ sys' = "idle" /\ ~EnterPasses(n)
      BY <2>1, <1>4 DEF SketchPasses, Sketch, EnterPasses, Handled
    <3> QED
      BY <1>0, <1>1, <1>2, <1>3, <3>1
  <2>2. CASE IsrPasses(n)
    <3>1. sys' = sys /\ busy' = busy + n
      BY <2>2 DEF IsrPasses
    <3>2. ~EnterPasses(n) /\ h = Handled
      BY <3>1, <1>4 DEF EnterPasses, Handled
    <3>3. busy' # busy
      BY <3>1, <1>0, <1>1
    <3>4. j = k
      BY <3>3 DEF SketchPasses
    <3>5. b = busy + n
      BY <3>1, <1>4
    <3> QED
      BY <1>0, <1>1, <1>2, <1>3, <2>0, <3>1, <3>2, <3>4, <3>5
  <2>3. CASE EnterPasses(n)
    <3>1. n = 1 /\ pend /\ sys = "idle" /\ sys' = "count" /\ busy' = 0
      BY <2>3 DEF EnterPasses
    <3>2. b = 0 /\ h = 1 /\ j = k
      BY <3>1, <1>4 DEF SketchPasses, Handled
    <3>3. pend' = (Phase + 1 >= Period)
      BY <2>3, <1>0, <3>1
    <3>4. Phase <= d /\ d <= k + busy
      BY <1>2, <3>1
    <3>5. Phase + 1 < Period /\ ~(Phase + 1 >= Period)
      BY <3>4, <1>0, <1>1
    <3>6. ~pend' /\ Phase' = Phase + 1 /\ e = d + 1
      <4>1. Phase' = Phase + 1
        BY <1>0, <3>1, <3>5
      <4>2. e = d + 1
        BY <1>3, <3>1
      <4> QED
        BY <3>3, <3>5, <4>1, <4>2
    <3> QED
      BY <1>0, <1>1, <3>2, <3>4, <3>6
  <2>4. CASE HandlerPasses(n)
    <3>1. n = 1 /\ busy' = busy /\ sys # "idle"
      BY <2>4 DEF HandlerPasses
    <3>2. ~EnterPasses(n) /\ j = k
      BY <3>1 DEF EnterPasses, SketchPasses, Sketch
    <3>3. h >= Handled + 1
      BY <2>4, <1>4 DEF HandlerPasses, Handled
    <3>4. Phase <= d
      BY <1>2, <3>1
    <3>5. d + 1 < Period
      BY <1>1, <1>2, <1>4, <3>3
    <3>6. Phase' = Phase + 1 /\ Phase' <= e /\ e = d + 1 /\ b = busy
      BY <1>0, <1>1, <1>3, <1>4, <3>1, <3>4, <3>5
    <3>7. ~pend'
      <4>1. ~(Phase + n >= Period)
        BY <1>0, <1>1, <3>1, <3>4, <3>5
      <4> QED
        BY <1>2, <2>0, <3>1, <3>2, <4>1
    <3> QED
      BY <1>0, <1>1, <1>2, <1>3, <3>1, <3>2, <3>3, <3>6, <3>7
  <2> QED
    BY <2>1, <2>2, <2>3, <2>4 DEF Passes
<1>6. e \in 1..(Period-1)
  <2>1. e >= 1
    BY <1>0, <1>3
  <2> QED
    BY <1>1, <1>3, <1>4, <1>5, <2>1
<1>7. Since(e, j)'
  BY <1>4, <1>5 DEF Since
<1>8. Ago(e)' = Ago(d) /\ (Overtaken(d) => Overtaken(e)')
  BY <1>0, <1>1, <1>3, <1>6 DEF Ago, Overtaken
<1>9. e \in 1..Period
  BY <1>1, <1>6
<1> QED
  BY <1>3, <1>7, <1>8, <1>9

(* Least elements: of a bounded sum, and of the tries of a handler.         *)
LEMMA LeastOfTwo ==
    ASSUME NEW a \in Int, NEW b \in Int
    PROVE Min({a, b}) = IF a <= b THEN a ELSE b
<1>1. \E x \in {a, b} : \A y \in {a, b} : x <= y
  OBVIOUS
<1>2. Min({a, b}) \in {a, b} /\ \A y \in {a, b} : Min({a, b}) <= y
  BY <1>1 DEF Min
<1> QED
  BY <1>2

LEMMA LeastOfSome ==
    ASSUME NEW S \in SUBSET (0..3), NEW s \in S
    PROVE Min(S) \in S
<1>1. \E x \in S : \A y \in S : x <= y
  <2>1. CASE 0 \in S
    BY <2>1
  <2>2. CASE 0 \notin S /\ 1 \in S
    BY <2>2
  <2>3. CASE 0 \notin S /\ 1 \notin S /\ 2 \in S
    BY <2>3
  <2>4. CASE 0 \notin S /\ 1 \notin S /\ 2 \notin S
    BY <2>4
  <2> QED
    BY <2>1, <2>2, <2>3, <2>4
<1> QED
  BY <1>1 DEF Min

(* A reading that tells a time within the call goes on telling it.          *)
LEMMA TellsPasses ==
    ASSUME InTime, NEW n \in Nat, now' = (now + n) % Horizon,
           age \in 0..Horizon, age' = Min({age + n, Horizon}), NEW r, Tells(r)
    PROVE Tells(r)'
<1>1. PICK t \in 0..(Horizon-1) :
        /\ ~r.pend /\ r.ticks = VAL(t) /\ r.count = t \div Period /\ t % Period # Period - 1
        /\ \E e \in 0..age : now = (t + e) % Horizon
  BY DEF Tells
<1>2. PICK e \in 0..age : now = (t + e) % Horizon
  BY <1>1
<1>3. Horizon \in Nat \ {0} /\ t \in Int /\ e \in Nat
  BY <1>2, TimeConstants
<1>4. PICK x \in Int, z \in Int : x = t + e /\ z = e + n
  BY <1>3
<1>5. now' = (x + n) % Horizon
  <2>1. ((x % Horizon) + n) % Horizon = (x + n) % Horizon
    <3>1. n \in Int
      OBVIOUS
    <3> QED
      BY <1>3, <3>1, ModPlus, Zenon
  <2> QED
    BY <1>2, <1>4, <2>1
<1>6. x + n = t + z
  BY <1>3, <1>4
<1>7. \E f \in 0..age' : now' = (t + f) % Horizon
  <2>1. CASE age + n <= Horizon
    <3>1. age' = age + n
      BY <2>1, <1>3, LeastOfTwo
    <3>2. z \in 0..age'
      BY <3>1, <1>2, <1>4
    <3> QED
      BY <1>5, <1>6, <3>2
  <2>2. CASE age + n > Horizon
    <3>1. age' = Horizon
      BY <2>2, <1>3, LeastOfTwo
    <3>2. z % Horizon \in 0..(Horizon-1)
      BY <1>3, DivMod
    <3>3. ((z % Horizon) + t) % Horizon = (z + t) % Horizon
      BY <1>3, ModPlus
    <3>4. PICK f \in 0..(Horizon-1) : f = z % Horizon
      BY <3>2
    <3>5. (t + f) % Horizon = (t + z) % Horizon
      <4>1. f + t = t + f /\ z + t = t + z
        BY <1>3
      <4> QED
        BY <3>3, <3>4, <4>1
    <3>6. f \in 0..age'
      BY <3>1, <3>4, <1>3
    <3> QED
      BY <1>5, <1>6, <3>5, <3>6
  <2>3. age + n <= Horizon \/ age + n > Horizon
    BY <1>3
  <2> QED
    BY <2>1, <2>2, <2>3
<1> QED
  BY <1>1, <1>7 DEF Tells, VAL

(* While handlers run, the newest reading ages.                             *)
LEMMA SampledPasses ==
    ASSUME LongTick, ClockTyped, NEW n, Passes(n), ~SketchPasses(n),
           UNCHANGED <<todo, new>>, age' = Min({age + n, Horizon}),
           NEW k \in 0..3, Sampled(k)
    PROVE Sampled(k)'
<1>1. PICK d \in 1..Period :
        /\ Since(d, k) /\ d <= age /\ new.ticks = Ago(d)
        /\ todo = "count" /\ new.pend => Overtaken(d)
        /\ todo = "val" => Overtaken(d) \/ Tells(new)
  BY DEF Sampled
<1>2. /\ d + n \in 1..Period /\ Since(d + n, k)'
      /\ Ago(d + n)' = Ago(d)
      /\ Overtaken(d) => Overtaken(d + n)'
  BY <1>1, SincePasses
<1>3. InTime /\ now' = (now + n) % Horizon /\ n \in 1..(Period-1) /\ age \in 0..Horizon
  BY PassesClock DEF ClockTyped
<1>4. Tells(new) => Tells(new)'
  <2>1. PICK r : r = new
    OBVIOUS
  <2>2. n \in Nat
    BY <1>3
  <2>3. Tells(r) => Tells(r)'
    BY <1>3, <2>2, TellsPasses
  <2>4. new' = r
    BY <2>1
  <2> QED
    BY <2>1, <2>3, <2>4 DEF Tells
<1>5. d + n <= age'
  BY <1>1, <1>2, <1>3, LeastOfTwo, TimeConstants
<1> QED
  BY <1>1, <1>2, <1>4, <1>5 DEF Sampled

(* The tick is owed from its interrupt to the count.                        *)
LEMMA CountPasses ==
    ASSUME LongTick, ClockTyped, CountsTicks, NEW n, Passes(n),
           tickCount' = IF sys = "count" THEN (IF HandlerPasses(n) THEN (tickCount + 1) % CountWrap
                                               ELSE tickCount)
                        ELSE tickCount
    PROVE CountsTicks' /\ tickCount' \in 0..(CountWrap-1)
<1>1. /\ pend' = ((pend /\ ~EnterPasses(n)) \/ Phase + n >= Period)
      /\ pend /\ ~EnterPasses(n) => Phase + n < Period
      /\ Ticks' % CountWrap = (Ticks + (IF Phase + n < Period THEN 0 ELSE 1)) % CountWrap
      /\ Phase \in 0..(Period-1) /\ n \in 1..(Period-1) /\ InTime
  BY PassesClock
<1>2. PICK c \in {0, 1} : c = IF Phase + n < Period THEN 0 ELSE 1
  OBVIOUS
<1>3. PICK o \in Int, x \in Int, y \in Int : o = Owed /\ x = tickCount + Owed /\ y = Ticks
  BY <1>1, PhaseOf DEF Owed, ClockTyped
<1>4. /\ CountWrap \in Nat \ {0} /\ tickCount \in Nat /\ x % CountWrap = y % CountWrap
      /\ Ticks' % CountWrap = (y + c) % CountWrap
  BY <1>1, <1>2, <1>3, TimeConstants DEF ClockTyped, CountsTicks
<1>5. (x + c) % CountWrap = Ticks' % CountWrap
  <2>1. (x + c) % CountWrap = (y + c) % CountWrap
    <3>1. c \in Int
      OBVIOUS
    <3> QED
      BY <1>4, <3>1, ModSame, Zenon
  <2> QED
    BY <1>4, <2>1
<1>6. /\ Phase + n < Period => c = 0 /\ ~(Phase + n >= Period)
      /\ ~(Phase + n < Period) => c = 1 /\ Phase + n >= Period
  BY <1>1, <1>2, TimeConstants
<1>7. /\ EnterPasses(n) => (IF pend' THEN 1 ELSE 0) = c
      /\ ~EnterPasses(n) => (IF pend' THEN 1 ELSE 0) = (IF pend THEN 1 ELSE 0) + c
  <2>1. CASE Phase + n < Period
    <3>1. EnterPasses(n) => ~pend'
      BY <1>1, <1>6, <2>1
    <3>2. ~EnterPasses(n) => (pend' <=> pend)
      BY <1>1, <1>6, <2>1
    <3> QED
      BY <1>6, <2>1, <3>1, <3>2
  <2>2. CASE ~(Phase + n < Period)
    <3>1. pend'
      BY <1>1, <1>6, <2>2
    <3>2. ~EnterPasses(n) => ~pend
      BY <1>1, <2>2
    <3> QED
      BY <1>6, <2>2, <3>1, <3>2
  <2> QED
    BY <2>1, <2>2
<1>8. CASE sys = "count" /\ HandlerPasses(n)
  <2>1. Owed' = o + c - 1
    <3>1. sys' = "reset" /\ ~EnterPasses(n)
      BY <1>8 DEF HandlerPasses, EnterPasses
    <3>2. o = 1 + (IF pend THEN 1 ELSE 0) /\ Owed' = (IF pend' THEN 1 ELSE 0)
      BY <1>3, <1>8, <3>1 DEF Owed
    <3> QED
      BY <1>7, <3>1, <3>2
  <2>2. PICK z \in Int, w \in Int : z = tickCount + 1 /\ w = o + c - 1 /\ z + w = x + c
    BY <1>3, <1>4
  <2>3. ((z % CountWrap) + w) % CountWrap = (z + w) % CountWrap
    BY <1>4, ModPlus
  <2>4. tickCount' = z % CountWrap /\ z % CountWrap \in 0..(CountWrap-1)
    BY <1>4, <1>8, <2>2, DivMod
  <2> QED
    BY <1>5, <2>1, <2>2, <2>3, <2>4 DEF CountsTicks
<1>9. CASE ~(sys = "count" /\ HandlerPasses(n))
  <2>1. Owed' = o + c
    <3>1. CASE EnterPasses(n)
      <4>1. pend /\ sys = "idle" /\ sys' = "count"
        BY <3>1 DEF EnterPasses
      <4>2. o = 1 /\ Owed' = (IF pend' THEN 1 ELSE 0) + 1
        BY <1>3, <4>1 DEF Owed
      <4> QED
        BY <1>7, <3>1, <4>2
    <3>2. CASE ~EnterPasses(n)
      <4>1. sys' = "count" <=> sys = "count"
        BY <1>9, <3>2 DEF Passes, SketchPasses, IsrPasses, HandlerPasses
      <4>2. PICK i \in {0, 1} : i = IF sys = "count" THEN 1 ELSE 0
        OBVIOUS
      <4>3. o = (IF pend THEN 1 ELSE 0) + i /\ Owed' = (IF pend' THEN 1 ELSE 0) + i
        BY <1>3, <4>1, <4>2 DEF Owed
      <4> QED
        BY <1>7, <3>2, <4>3
    <3> QED
      BY <3>1, <3>2
  <2>2. tickCount' = tickCount /\ tickCount + (o + c) = x + c
    BY <1>3, <1>4, <1>9
  <2> QED
    BY <1>5, <2>1, <2>2 DEF CountsTicks, ClockTyped
<1> QED
  BY <1>8, <1>9

(* The multiplication that stands for a division by Cycles rounds off less  *)
(* than a cycle.                                                            *)
FineScale == (Period - 1) * (Scale % Cycles) <= Scale

LEMMA ScaledIs ==
    ASSUME FineScale, NEW x \in 0..(Period-1)
    PROVE \E y \in {x, x - 1} : y >= 0 /\ Scaled(x) = y \div Cycles
<1>1. Cycles \in Nat \ {0} /\ Scale \in Nat \ {0} /\ Period \in Nat \ {0}
  BY TimeAssumption, TimeProducts
<1>2. PICK a \in Int, b \in 0..(Cycles-1) : a = x \div Cycles /\ b = x % Cycles /\ x = (Cycles * a) + b
  <2>1. x \in Int
    BY <1>1
  <2> QED
    BY <1>1, <2>1, DivMod
<1>3. PICK k \in Int, s \in 0..(Cycles-1) :
        k = Scale \div Cycles /\ s = Scale % Cycles /\ Scale = (Cycles * k) + s
  BY <1>1, DivMod
<1>4. a >= 0 /\ k >= 0
  <2>1. \A c \in Nat \ {0}, z, r \in Int : r < c /\ (c * z) + r >= 0 => z >= 0
    <3> TAKE c \in Nat \ {0}, z, r \in Int
    <3>1. ASSUME z <= -1 PROVE c * z <= -c
      BY <3>1
    <3> QED
      BY <3>1
  <2>2. b < Cycles /\ (Cycles * a) + b >= 0 /\ s < Cycles /\ (Cycles * k) + s >= 0
    BY <1>1, <1>2, <1>3
  <2> QED
    BY <1>1, <2>1, <2>2
<1>5. PICK A \in Nat, B \in Nat, K \in Nat : A = a * s /\ B = b * k /\ K = Cycles * k
  BY <1>1, <1>3, <1>4
<1>6. x * k = (Scale * a) + (B - A)
  <2>1. x * k = ((Cycles * a) * k) + (b * k)
    BY <1>2, <1>1
  <2>2. Scale * a = ((Cycles * k) * a) + (s * a)
    BY <1>3, <1>1
  <2>3. (Cycles * a) * k = (Cycles * k) * a /\ s * a = a * s
    BY <1>1
  <2> QED
    BY <1>1, <1>5, <2>1, <2>2, <2>3
<1>7. B < Scale
  <2>1. b * k <= (Cycles - 1) * k
    BY <1>1, <1>4
  <2>2. (Cycles - 1) * k = K - k
    BY <1>1, <1>5
  <2>3. K <= Scale /\ (k = 0 => B = 0)
    BY <1>1, <1>3, <1>5
  <2> QED
    BY <1>1, <1>4, <1>5, <2>1, <2>2, <2>3
<1>8. x * s <= Scale
  <2>1. x * s <= (Period - 1) * s
    BY <1>1
  <2>2. (Period - 1) * s <= Scale
    BY <1>3 DEF FineScale
  <2>3. x * s \in Int /\ (Period - 1) * s \in Int
    BY <1>1
  <2> QED
    BY <1>1, <2>1, <2>2, <2>3
<1>9. PICK E \in Int : E = Cycles * A /\ E = (x * s) - (b * s)
  <2>1. Cycles * (a * s) = (Cycles * a) * s
    BY <1>1
  <2>2. x * s = ((Cycles * a) * s) + (b * s)
    BY <1>1, <1>2
  <2> QED
    BY <1>1, <1>5, <2>1, <2>2
<1>10. A <= Scale
  <2>1. A <= E
    BY <1>1, <1>5, <1>9
  <2>2. b * s >= 0 /\ x * s \in Int /\ b * s \in Int
    BY <1>1
  <2> QED
    BY <1>1, <1>5, <1>8, <1>9, <2>1, <2>2
<1>11. CASE B >= A
  <2>1. PICK r \in 0..(Scale-1), m \in Int : r = B - A /\ m = x * k
    BY <1>1, <1>5, <1>7, <1>11
  <2>2. m = (Scale * a) + r
    BY <1>6, <2>1
  <2>3. m \div Scale = a
    BY <1>1, <2>2, DivIs
  <2>4. Scaled(x) = m \div Scale
    BY <1>3, <2>1 DEF Scaled
  <2> QED
    BY <1>1, <1>2, <2>3, <2>4
<1>12. CASE B < A
  <2>1. PICK r \in 0..(Scale-1), m \in Int, p \in Int : r = Scale + B - A /\ m = x * k /\ p = a - 1
    BY <1>1, <1>5, <1>7, <1>10, <1>12
  <2>2. Scale * p = (Scale * a) - Scale
    BY <1>1, <2>1
  <2>3. m = (Scale * p) + r
    BY <1>1, <1>6, <2>1, <2>2
  <2>4. m \div Scale = p
    BY <1>1, <2>3, DivIs
  <2>5. b = 0
    <3>1. SUFFICES ASSUME b >= 1 PROVE FALSE
      BY <1>1
    <3>2. b * s >= s
      BY <3>1, <1>1
    <3>3. E <= Scale - s
      BY <3>2, <1>1, <1>8, <1>9
    <3>4. Cycles * A <= Cycles * k
      BY <3>3, <1>1, <1>3, <1>9
    <3>5. A <= k
      <4>1. \A c \in Nat \ {0}, u, v \in Int : u > v => c * u > c * v
        OBVIOUS
      <4> QED
        BY <3>4, <4>1, <1>1, <1>5
    <3>6. k <= B
      BY <3>1, <1>1, <1>4, <1>5
    <3> QED
      BY <3>5, <3>6, <1>4, <1>5, <1>12
  <2>6. a >= 1
    <3>1. a = 0 => A = 0
      BY <1>5, <1>1
    <3> QED
      BY <3>1, <1>4, <1>5, <1>12
  <2>7. PICK c \in 0..(Cycles-1), y \in Int : c = Cycles - 1 /\ y = x - 1
    BY <1>1
  <2>8. Cycles * p = (Cycles * a) - Cycles
    BY <1>1, <2>1
  <2>9. y = (Cycles * p) + c
    BY <1>1, <1>2, <2>5, <2>7, <2>8
  <2>10. y \div Cycles = p
    BY <1>1, <2>9, DivIs
  <2>11. y >= 0
    <3>1. Cycles * p >= 0
      BY <1>1, <2>1, <2>6
    <3> QED
      BY <1>1, <2>7, <2>9, <3>1
  <2> QED
    BY <1>3, <2>1, <2>4, <2>7, <2>10, <2>11 DEF Scaled
<1> QED
  BY <1>5, <1>11, <1>12

(* Microseconds of a time that wraps.                                       *)
LEMMA WrappedSpan ==
    ASSUME NEW u \in Int
    PROVE (u % Horizon) \div Cycles = (u \div Cycles) % Span
<1>1. Horizon \in Nat \ {0} /\ Cycles \in Nat \ {0} /\ Span \in Nat \ {0} /\ Horizon = Cycles * Span
  BY TimeProducts
<1>2. PICK i \in Int, v \in 0..(Horizon-1) : i = u \div Horizon /\ v = u % Horizon /\ u = (Horizon * i) + v
  BY <1>1, DivMod
<1>3. PICK a \in Int, b \in 0..(Cycles-1) : a = v \div Cycles /\ b = v % Cycles /\ v = (Cycles * a) + b
  <2>1. v \in Int
    BY <1>1
  <2> QED
    BY <1>1, <2>1, DivMod
<1>4. a \in 0..(Span-1)
  <2>1. \A c \in Nat \ {0}, z, r \in Int : r < c /\ (c * z) + r >= 0 => z >= 0
    <3> TAKE c \in Nat \ {0}, z, r \in Int
    <3>1. ASSUME z <= -1 PROVE c * z <= -c
      BY <3>1
    <3> QED
      BY <3>1
  <2>2. \A c \in Nat \ {0}, z, w \in Int : c * z < c * w => z < w
    <3> TAKE c \in Nat \ {0}, z, w \in Int
    <3>1. ASSUME z >= w PROVE c * z >= c * w
      BY <3>1
    <3> QED
      BY <3>1
  <2>3. b < Cycles /\ b >= 0 /\ (Cycles * a) + b >= 0 /\ Cycles * a < Cycles * Span
    BY <1>1, <1>2, <1>3
  <2>4. a >= 0
    BY <1>1, <2>1, <2>3
  <2>5. a < Span
    BY <1>1, <2>2, <2>3
  <2> QED
    BY <1>1, <2>4, <2>5
<1>5. PICK p \in Int : p = (Span * i) + a
  BY <1>1
<1>6. Cycles * p = (Horizon * i) + (Cycles * a)
  <2>1. Cycles * (Span * i) = (Cycles * Span) * i
    BY <1>1
  <2>2. Cycles * p = (Cycles * (Span * i)) + (Cycles * a)
    BY <1>1, <1>5
  <2> QED
    BY <1>1, <2>1, <2>2
<1>7. u = (Cycles * p) + b
  BY <1>1, <1>2, <1>3, <1>6
<1>8. u \div Cycles = p
  BY <1>1, <1>7, DivIs
<1>9. p % Span = a
  BY <1>1, <1>4, <1>5, DivIs
<1> QED
  BY <1>2, <1>3, <1>8, <1>9

LEMMA WrappedMicros ==
    ASSUME NEW u \in Int
    PROVE ((u % Horizon) \div Cycles) % Wrap = (u \div Cycles) % Wrap
<1>1. Cycles \in Nat \ {0} /\ Span \in Nat \ {0} /\ Wrap \in Nat \ {0} /\ Span % Wrap = 0
  BY TimeProducts
<1>2. PICK p \in Int : p = u \div Cycles
  BY <1>1, DivMod
<1>3. PICK k \in Int, m \in Int : m = p % Span /\ p = (Span * k) + m
  <2>1. p \div Span \in Int /\ p % Span \in 0..(Span-1) /\ p = (Span * (p \div Span)) + (p % Span)
    BY <1>1, DivMod, Zenon
  <2>2. p % Span \in Int
    BY <1>1, <2>1
  <2> QED
    BY <2>1, <2>2, Zenon
<1>4. PICK w \in Int : Span = Wrap * w
  BY SpanWraps
<1>5. PICK v \in Int : v = w * k
  OBVIOUS
<1>6. p = m + (Wrap * v)
  <2>1. Span * k = Wrap * v
    BY <1>1, <1>4, <1>5
  <2>2. Wrap * v \in Int
    BY <1>1
  <2> QED
    BY <1>3, <2>1, <2>2
<1>7. p % Wrap = m % Wrap
  BY <1>1, <1>6, ModShift
<1> QED
  BY <1>2, <1>3, <1>7, WrappedSpan

(* What micros computes from a count of ticks and what has passed since.    *)
LEMMA MicrosTold ==
    ASSUME FineScale, NEW t \in Nat, NEW c \in Nat,
           c % CountWrap = (t \div Period) % CountWrap
    PROVE \E u \in {t, t - 1} :
             /\ u \in Nat
             /\ (c * Ms + Scaled(t % Period)) % Wrap = ((u % Horizon) \div Cycles) % Wrap
<1>1. /\ Period \in Nat \ {0} /\ Cycles \in Nat \ {0} /\ Wrap \in Nat \ {0} /\ CountWrap \in Nat \ {0}
      /\ Ms \in Nat \ {0} /\ Period = Cycles * Ms
      /\ Span \in Int /\ Span = Ms * CountWrap
  BY TimeProducts
<1>2. PICK q \in Int, x \in 0..(Period-1) : q = t \div Period /\ x = t % Period /\ t = (Period * q) + x
  <2>1. /\ t \div Period \in Int /\ t % Period \in 0..(Period-1)
        /\ t = (Period * (t \div Period)) + (t % Period)
    <3>1. t \in Int /\ Period \in Nat \ {0}
      BY <1>1
    <3> QED
      BY <3>1, DivMod, Zenon
  <2> QED
    BY <2>1
<1>3. PICK y \in {x, x - 1} : y >= 0 /\ Scaled(x) = y \div Cycles
  BY <1>1, ScaledIs
<1>4. y \in Nat
  BY <1>1, <1>3
<1>5. PICK a \in Int, b \in 0..(Cycles-1) : a = y \div Cycles /\ b = y % Cycles /\ y = (Cycles * a) + b
  <2>1. y \in Int
    BY <1>4
  <2>2. /\ y \div Cycles \in Int /\ y % Cycles \in 0..(Cycles-1)
        /\ y = (Cycles * (y \div Cycles)) + (y % Cycles)
    BY <1>1, <2>1, DivMod, Zenon
  <2> QED
    BY <2>2
<1>6. PICK u \in {t, t - 1} : u = (Period * q) + y
  <2>1. Period * q \in Int
    BY <1>1
  <2>2. CASE y = x
    BY <1>2, <2>2
  <2>3. CASE y = x - 1
    <3>1. t - 1 = (Period * q) + y
      <4>1. x \in Int
        BY <1>1
      <4>2. PICK z \in Int : z = Period * q
        BY <2>1
      <4>3. t = z + x /\ y = x - 1
        BY <1>2, <2>3, <4>2
      <4>4. t - 1 = z + y
        BY <4>1, <4>3
      <4> QED
        BY <4>2, <4>4
    <3> QED
      BY <3>1
  <2> QED
    BY <1>3, <2>2, <2>3
<1>7. u \in Nat
  <2>1. u >= 0
    <3>1. \A p \in Nat \ {0}, z, r \in Int : r < p /\ (p * z) + r >= 0 => p * z >= 0
      <4> TAKE p \in Nat \ {0}, z, r \in Int
      <4>1. ASSUME z <= -1 PROVE p * z <= -p
        BY <4>1
      <4>2. ASSUME z >= 0 PROVE p * z >= 0
        BY <4>2
      <4> QED
        BY <4>1, <4>2
    <3>2. x < Period /\ (Period * q) + x >= 0 /\ x \in Int /\ Period * q \in Int
      BY <1>1, <1>2
    <3>3. Period * q >= 0
      BY <1>1, <3>1, <3>2
    <3> QED
      BY <1>4, <1>6, <3>2, <3>3
  <2> QED
    BY <2>1
<1>8. PICK m \in Int : m = (Ms * q) + a
  BY <1>1
<1>9. u = (Cycles * m) + b
  <2>1. Cycles * m = (Cycles * (Ms * q)) + (Cycles * a)
    BY <1>1, <1>8
  <2>2. Cycles * (Ms * q) = (Cycles * Ms) * q
    BY <1>1
  <2>3. (Cycles * Ms) * q \in Int /\ Cycles * a \in Int
    BY <1>1
  <2> QED
    BY <1>1, <1>5, <1>6, <2>1, <2>2, <2>3
<1>10. u \div Cycles = m
  BY <1>1, <1>7, <1>9, DivIs
<1>11. PICK j \in Int : c = q + (CountWrap * j)
  <2>1. PICK i, l \in Int, r \in Int : c = (CountWrap * i) + r /\ q = (CountWrap * l) + r
    <3>0. c % CountWrap = q % CountWrap
      BY <1>2
    <3>1. PICK r \in Int : r = c % CountWrap /\ r = q % CountWrap
      <4>1. c % CountWrap \in Int
        <5>1. c \in Int
          OBVIOUS
        <5>2. c % CountWrap \in 0..(CountWrap-1)
          BY <1>1, <5>1, DivMod, Zenon
        <5> QED
          BY <1>1, <5>2
      <4> QED
        BY <3>0, <4>1
    <3>2. c = (CountWrap * (c \div CountWrap)) + r /\ c \div CountWrap \in Int
      BY <1>1, <3>1, DivMod
    <3>3. q = (CountWrap * (q \div CountWrap)) + r /\ q \div CountWrap \in Int
      BY <1>1, <3>1, DivMod
    <3> QED
      BY <3>2, <3>3
  <2>2. PICK j \in Int : j = i - l
    OBVIOUS
  <2>3. CountWrap * j = (CountWrap * i) - (CountWrap * l)
    BY <1>1, <2>2
  <2>4. CountWrap * i \in Int /\ CountWrap * l \in Int
    BY <1>1
  <2> QED
    BY <2>1, <2>3, <2>4
<1>12. PICK e \in Int : e = (c * Ms) + a
  BY <1>1
<1>13. e = m + (Span * j)
  <2>1. c * Ms = (q * Ms) + ((CountWrap * j) * Ms)
    BY <1>1, <1>11
  <2>2. (CountWrap * j) * Ms = (Ms * CountWrap) * j /\ q * Ms = Ms * q
    BY <1>1
  <2>3. (Ms * CountWrap) * j \in Int /\ Ms * q \in Int
    BY <1>1
  <2> QED
    BY <1>1, <1>8, <1>12, <2>1, <2>2, <2>3
<1>14. e % Wrap = m % Wrap
  <2>1. Wrap \in Nat \ {0}
    BY <1>1
  <2>2. PICK w \in Int : Span = Wrap * w
    BY SpanWraps
  <2>3. PICK v \in Int : v = w * j
    OBVIOUS
  <2>4. Span * j = Wrap * v
    BY <1>1, <2>1, <2>2, <2>3
  <2>5. e = m + (Wrap * v)
    BY <1>13, <2>4
  <2> QED
    BY <2>1, <2>5, ModShift
<1>15. ((u % Horizon) \div Cycles) % Wrap = m % Wrap
  <2>1. u \in Int
    BY <1>7
  <2> QED
    BY <1>10, <2>1, WrappedMicros
<1>16. c * Ms + Scaled(t % Period) = e
  BY <1>2, <1>3, <1>5, <1>12
<1> QED
  BY <1>6, <1>7, <1>14, <1>15, <1>16

(* The readings of a handler that keeps SysTick waiting.                    *)
LEMMA IsrReads ==
    ASSUME LongTick, ClockTyped, NEW k \in 0..4, NEW h \in 0..(Period-1),
           h = IF Phase + 2 * k + 1 < Period THEN Phase + 2 * k + 1
                                             ELSE Phase + 2 * k + 1 - Period
    PROVE /\ IsrReading(k).ticks = IF h = 0 THEN 0 ELSE Period - h
          /\ IsrReading(k).ticks = VAL(now + 2 * k + 1)
          /\ IsrReading(k).pend = (pend \/ Phase + 2 * k + 2 >= Period)
          /\ IsrReading(k).count = tickCount
<1>1. InTime /\ now \in Nat /\ Busy \in Nat /\ Period \in Nat /\ 10 < Period
  BY TimeConstants DEF ClockTyped, InTime, LongTick
<1>2. PICK n \in 0..(Period-1), m \in 0..(Period-1), t \in Int :
        n = 2 * k + 1 /\ m = 2 * k + 2 /\ t = now + 2 * k + 1
  BY <1>1
<1>3. VAL(t) = IF h = 0 THEN 0 ELSE Period - h
  <2>1. (now + n + 1) % Period = IF Phase + n < Period THEN Phase + n ELSE Phase + n - Period
    BY <1>1, PhaseAfter
  <2>2. now + n + 1 = t + 1
    BY <1>1, <1>2
  <2>3. h = IF Phase + n < Period THEN Phase + n ELSE Phase + n - Period
    BY <1>1, <1>2, PhaseOf
  <2>4. (t + 1) % Period = (now + n + 1) % Period
    BY <2>2
  <2>5. (t + 1) % Period = h
    BY <2>1, <2>3, <2>4
  <2> QED
    BY <2>5, ValOf
<1>4. Expires(m) <=> Phase + m >= Period
  BY <1>1, ExpiresWhen
<1>5. Phase + m = Phase + 2 * k + 2
  BY <1>1, <1>2, PhaseOf
<1>6. /\ IsrReading(k).ticks = VAL(t) /\ IsrReading(k).pend = (pend \/ Expires(m))
      /\ IsrReading(k).count = tickCount
  BY <1>2 DEF IsrReading
<1> QED
  BY <1>2, <1>3, <1>4, <1>5, <1>6

(* Four readings are enough for two that agree: a tick is longer than them. *)
LEMMA IsrStable ==
    ASSUME LongTick, ClockTyped
    PROVE /\ IsrTries \in 0..3
          /\ Stable(IsrReading(IsrTries), IsrReading(IsrTries + 1))
<1>1. Phase \in 0..(Period-1) /\ 10 < Period /\ Period \in Nat
  <2>1. InTime
    BY DEF ClockTyped, InTime
  <2> QED
    BY <2>1, PhaseOf, TimeConstants DEF LongTick
<1> DEFINE H(k) == IF Phase + 2 * k + 1 < Period THEN Phase + 2 * k + 1
                                                ELSE Phase + 2 * k + 1 - Period
<1>2. ASSUME NEW k \in 0..4
      PROVE /\ H(k) \in 0..(Period-1)
            /\ IsrReading(k).ticks = IF H(k) = 0 THEN 0 ELSE Period - H(k)
            /\ IsrReading(k).pend = (pend \/ Phase + 2 * k + 2 >= Period)
            /\ IsrReading(k).count = tickCount
  <2>1. PICK h \in 0..(Period-1) : h = H(k)
    <3>1. CASE Phase + 2 * k + 1 < Period
      BY <1>1, <3>1
    <3>2. CASE ~(Phase + 2 * k + 1 < Period)
      BY <1>1, <3>2
    <3> QED
      BY <3>1, <3>2
  <2> QED
    BY <2>1, IsrReads
<1> HIDE DEF H
<1>3. ASSUME NEW k \in 0..4
      PROVE H(k) = IF Phase + 2 * k + 1 < Period THEN Phase + 2 * k + 1
                                                ELSE Phase + 2 * k + 1 - Period
  BY DEF H
<1>4. \E k \in 0..3 : Stable(IsrReading(k), IsrReading(k + 1))
  <2>1. CASE Phase + 5 <= Period
    <3>1. H(0) = Phase + 1 /\ H(1) = Phase + 3
      BY <1>1, <1>3, <2>1
    <3>2. /\ IsrReading(0).ticks = Period - H(0) /\ IsrReading(1).ticks = Period - H(1)
          /\ IsrReading(0).count = IsrReading(1).count
      BY <1>1, <1>2, <2>1, <3>1
    <3>3. IsrReading(0).pend = IsrReading(1).pend
      <4>1. ~(Phase + 2 * 0 + 2 >= Period) /\ ~(Phase + 2 * 1 + 2 >= Period)
        BY <1>1, <2>1
      <4>2. IsrReading(0).pend = (pend \/ Phase + 2 * 0 + 2 >= Period)
        BY ONLY <1>2
      <4>3. IsrReading(1).pend = (pend \/ Phase + 2 * 1 + 2 >= Period)
        BY ONLY <1>2
      <4> QED
        BY <4>1, <4>2, <4>3
    <3>4. Stable(IsrReading(0), IsrReading(1))
      BY <1>1, <3>1, <3>2, <3>3 DEF Stable
    <3> QED
      BY <3>4
  <2>2. CASE Phase + 2 >= Period
    <3>1. /\ H(1) = Phase + 3 - Period /\ H(2) = Phase + 5 - Period
      BY <1>1, <1>3, <2>2
    <3>2. /\ IsrReading(1).ticks = Period - H(1) /\ IsrReading(2).ticks = Period - H(2)
          /\ IsrReading(1).count = IsrReading(2).count
      BY <1>1, <1>2, <2>2, <3>1
    <3>3. IsrReading(1).pend = IsrReading(2).pend
      BY <1>1, <1>2, <2>2
    <3>4. Stable(IsrReading(1), IsrReading(2))
      BY <1>1, <3>1, <3>2, <3>3 DEF Stable
    <3> QED
      BY <3>4
  <2>3. CASE Phase + 2 < Period /\ Phase + 5 > Period
    <3>1. /\ H(2) = Phase + 5 - Period /\ H(3) = Phase + 7 - Period
      BY <1>1, <1>3, <2>3
    <3>2. /\ IsrReading(2).ticks = Period - H(2) /\ IsrReading(3).ticks = Period - H(3)
          /\ IsrReading(2).count = IsrReading(3).count
      BY <1>1, <1>2, <2>3, <3>1
    <3>3. IsrReading(2).pend = IsrReading(3).pend
      BY <1>1, <1>2, <2>3
    <3>4. Stable(IsrReading(2), IsrReading(3))
      BY <1>1, <3>1, <3>2, <3>3 DEF Stable
    <3> QED
      BY <3>4
  <2> QED
    BY <1>1, <2>1, <2>2, <2>3
<1>5. PICK S : S = {k \in 0..3 : Stable(IsrReading(k), IsrReading(k + 1))}
  OBVIOUS
<1>6. Min(S) \in S
  BY <1>4, <1>5, LeastOfSome
<1> QED
  BY <1>5, <1>6 DEF IsrTries

(* The cycles since the counter started.                                    *)
LEMMA ValGives ==
    ASSUME NEW t \in Int
    PROVE LOAD - VAL(t) = t % Period
<1>1. t % Period \in 0..(Period-1)
  BY TimeConstants, DivMod
<1> QED
  BY <1>1, TimeConstants DEF VAL

(* The answer computed from a reading that tells a time.                    *)
LEMMA TellsTime ==
    ASSUME LongTick, FineScale, ClockTyped, NEW r \in Samples, Tells(r)
    PROVE WithinCall(Micros(r), age)
<1>1. PICK t \in 0..(Horizon-1), e \in 0..age :
        /\ ~r.pend /\ r.ticks = VAL(t) /\ r.count = t \div Period /\ now = (t + e) % Horizon
  BY DEF Tells
<1>2. Horizon \in Nat \ {0} /\ Period \in Nat \ {0} /\ CountWrap \in Nat \ {0} /\ age \in Nat
  BY TimeConstants DEF ClockTyped
<1>3. t \in Nat /\ t \in Int /\ e \in Nat
  BY <1>1, <1>2
<1>4. r.count \in Nat
  BY <1>2 DEF Samples
<1>5. Ticked(r) = r.count
  BY <1>1, <1>4 DEF Ticked
<1>6. Micros(r) = (r.count * Ms + Scaled(t % Period)) % Wrap
  BY <1>1, <1>3, <1>5, ValGives DEF Micros
<1>7. PICK c \in Nat : c = r.count
  BY <1>4
<1>8. c % CountWrap = (t \div Period) % CountWrap
  BY <1>1, <1>7
<1>9. PICK u \in {t, t - 1} : /\ u \in Nat
                              /\ (c * Ms + Scaled(t % Period)) % Wrap = ((u % Horizon) \div Cycles) % Wrap
  BY <1>3, <1>8, MicrosTold
<1>10. PICK d \in 0..(age + 1) : u = t + e - d
  <2>1. CASE u = t
    BY <2>1, <1>2, <1>3
  <2>2. CASE u = t - 1
    <3>1. e + 1 \in 0..(age + 1) /\ u = t + e - (e + 1)
      BY <2>2, <1>1, <1>2, <1>3
    <3> QED
      BY <3>1
  <2> QED
    BY <2>1, <2>2
<1>11. (now - d) % Horizon = u % Horizon
  <2>1. PICK z \in Int, b \in Int : z = t + e /\ b = -d
    BY <1>3
  <2>2. ((z % Horizon) + b) % Horizon = (z + b) % Horizon
    BY <1>2, ModPlus
  <2>3. now = z % Horizon /\ z + b = u
    BY <1>1, <1>3, <1>10, <2>1
  <2>4. now - d = (z % Horizon) + b
    BY <2>1, <2>3 DEF ClockTyped
  <2> QED
    BY <2>2, <2>3, <2>4
<1>12. Micros(r) = Microseconds(d)
  BY <1>6, <1>7, <1>9, <1>11 DEF Microseconds
<1> QED
  BY <1>12 DEF WithinCall

(* What is read when the sketch acts.                                       *)
LEMMA SketchReads ==
    ASSUME LongTick, ClockTyped, SketchPasses(1)
    PROVE /\ VAL(now) = IF Phase = 0 THEN 0 ELSE Period - Phase
          /\ pend => Phase = 0
          /\ Phase' = IF Phase + 1 < Period THEN Phase + 1 ELSE 0
          /\ Phase \in 0..(Period-1) /\ sys = "idle" /\ sys' = "idle" /\ busy' = busy
          /\ VAL(now) \in 0..(Period-1)
<1>1. /\ InTime /\ Phase \in 0..(Period-1)
      /\ Phase' = IF Phase + 1 < Period THEN Phase + 1 ELSE Phase + 1 - Period
  BY PassesClock DEF Passes
<1>2. sys = "idle" /\ sys' = "idle" /\ busy' = busy /\ (pend => VAL(now) = 0)
  BY DEF SketchPasses, Sketch
<1>3. now \in Int /\ (now + 1) % Period = Phase
  BY TimeConstants DEF ClockTyped, Phase
<1>4. VAL(now) \in 0..(Period-1) /\ VAL(now) = IF Phase = 0 THEN 0 ELSE Period - Phase
  BY <1>3, ValOf
<1>5. pend => Phase = 0
  BY <1>1, <1>2, <1>4, TimeConstants
<1>6. Phase' = IF Phase + 1 < Period THEN Phase + 1 ELSE 0
  BY <1>1, TimeConstants
<1> QED
  BY <1>1, <1>2, <1>4, <1>5, <1>6

(* A reading that has not been overtaken when the count is read tells its   *)
(* time.                                                                    *)
LEMMA CountTells ==
    ASSUME LongTick, ClockTyped, CountsTicks, SketchPasses(1), age' = Min({age + 1, Horizon}),
           NEW d \in 1..Period, Since(d, 2), d <= age, d < Phase,
           NEW r, ~r.pend, r.ticks = Ago(d), r.count = tickCount
    PROVE Tells(r)'
<1>1. /\ InTime /\ Phase \in 0..(Period-1) /\ now + 1 = (Period * Ticks) + Phase
      /\ Ticks \in 0..CountWrap /\ now' = (now + 1) % Horizon
  BY PassesClock, PhaseOf DEF Passes
<1>2. Period \in Nat \ {0} /\ CountWrap \in Nat \ {0} /\ Horizon \in Nat \ {0} /\ Horizon = Period * CountWrap
  BY TimeProducts
<1>3. PICK p \in Nat : p = Period * Ticks
  BY <1>1, <1>2
<1>4. PICK t \in Int, x \in 0..(Period-1) : t = now - d /\ x = Phase - 1 - d /\ t = p + x
  BY <1>1, <1>2, <1>3 DEF InTime
<1>5. t \in 0..(Horizon-1)
  BY <1>1, <1>2, <1>3, <1>4 DEF InTime
<1>6. t \div Period = Ticks /\ t % Period = x
  <2>1. PICK q \in Int : q = Ticks
    BY <1>1
  <2>2. t = (Period * q) + x
    BY <1>3, <1>4, <2>1
  <2>3. t \div Period = q /\ t % Period = x
    BY <1>2, <2>2, DivIs
  <2> QED
    BY <2>1, <2>3
<1>7. x # Period - 1
  BY <1>1, <1>2, <1>4
<1>8. r.ticks = VAL(t)
  <2>1. VAL(t) = Period - 1 - x
    BY <1>6, TimeConstants DEF VAL
  <2> QED
    BY <1>1, <1>2, <1>4, <2>1 DEF Ago
<1>9. r.count = t \div Period
  <2>1. Owed = 0
    <3>1. ~pend
      BY <1>1, <1>2 DEF Since
    <3>2. sys = "idle"
      BY SketchReads
    <3> QED
      BY <3>1, <3>2 DEF Owed
  <2>2. tickCount % CountWrap = Ticks % CountWrap
    BY <2>1 DEF CountsTicks, ClockTyped
  <2>3. Ticks < CountWrap
    <3>1. Ticks = CountWrap => p = Horizon
      BY <1>2, <1>3
    <3> QED
      BY <1>1, <1>2, <1>3, <3>1 DEF InTime
  <2>4. \A a \in 0..(CountWrap-1) : a % CountWrap = a
    <3> TAKE a \in 0..(CountWrap-1)
    <3>1. a \in Int /\ a = (CountWrap * 0) + a
      BY <1>2
    <3> QED
      BY <1>2, <3>1, DivIs
  <2>5. tickCount = Ticks
    BY <1>1, <1>2, <2>2, <2>3, <2>4 DEF ClockTyped
  <2> QED
    BY <1>6, <2>5
<1>10. \E e \in 0..age' : now' = (t + e) % Horizon
  <2>1. age \in Int /\ age \in 0..Horizon
    BY <1>2 DEF ClockTyped
  <2>2. age' = IF age + 1 <= Horizon THEN age + 1 ELSE Horizon
    BY <1>2, <2>1, LeastOfTwo
  <2>3. d + 1 \in 0..age'
    BY <1>1, <1>2, <2>1, <2>2, TimeConstants
  <2>4. t + (d + 1) = now + 1
    BY <1>4 DEF ClockTyped
  <2> QED
    BY <1>1, <2>3, <2>4
<1> QED
  BY <1>5, <1>6, <1>7, <1>8, <1>9, <1>10 DEF Tells, VAL

(* It holds at the start.                                                   *)
LEMMA ClockInit ==
    ASSUME LongTick, TimeInit
    PROVE ClockInv
<1>1. /\ now = 0 /\ pend = FALSE /\ tickCount = 0 /\ sys = "idle" /\ busy = 0
      /\ todo = "idle" /\ firstTry = TRUE /\ old = Nothing /\ new = Nothing /\ age = 0
  BY DEF TimeInit
<1>2. Period \in Nat \ {0} /\ CountWrap \in Nat \ {0} /\ Horizon \in Nat \ {0} /\ Busy \in Nat
  BY TimeConstants
<1>3. 0 \in 0..(Period-1) /\ 0 \in 0..(CountWrap-1) /\ 0 \in 0..(Horizon-1) /\ 0 \in 0..Busy /\ 0 \in 0..Horizon
  BY <1>2
<1>4. Nothing \in Samples
  BY <1>3 DEF Nothing, Samples
<1>5. ClockTyped
  BY <1>1, <1>3, <1>4 DEF ClockTyped
<1>6. CountsTicks
  <2>1. Owed = 0 /\ tickCount + Owed = 0
    BY <1>1 DEF Owed
  <2>2. 0 \div Period = 0 /\ 1 \div Period = 0
    <3>1. 0 \in 0..(Period-1) /\ 1 \in 0..(Period-1) /\ 0 = (Period * 0) + 0 /\ 1 = (Period * 0) + 1
      BY <1>2 DEF LongTick
    <3> QED
      BY <1>2, <3>1, DivIs
  <2>3. Ticks = 0
    BY <1>1, <2>2 DEF Ticks
  <2> QED
    BY <2>1, <2>3 DEF CountsTicks
<1>7. ReadsTrue
  BY <1>1 DEF ReadsTrue
<1> QED
  BY <1>5, <1>6, <1>7 DEF ClockInv

(* Where the reader does nothing.                                           *)
LEMMA WaitsKeep ==
    ASSUME LongTick, ClockInv, NEW n, Passes(n), ~SketchPasses(n), Wait(n)
    PROVE ReadsTrue' /\ age' \in 0..Horizon
<1>0. ClockTyped /\ ReadsTrue /\ n \in 1..(Period-1) /\ InTime /\ now' = (now + n) % Horizon
  BY PassesClock DEF ClockInv
<1>1. UNCHANGED <<todo, firstTry, old, new>>
  BY DEF Wait
<1>2. CASE todo = "idle"
  BY <1>0, <1>1, <1>2, TimeConstants DEF ReadsTrue, Wait
<1>3. CASE todo # "idle"
  <2>1. age' = Min({age + n, Horizon}) /\ age \in 0..Horizon
    BY <1>0, <1>3 DEF Wait, ClockTyped
  <2>2. ASSUME NEW k \in 0..3, Sampled(k) PROVE Sampled(k)'
    BY <1>0, <1>1, <2>1, <2>2, SampledPasses
  <2>3. Tells(old) => Tells(old)'
    <3>1. PICK r : r = old
      OBVIOUS
    <3>2. n \in Nat
      BY <1>0
    <3>3. Tells(r) => Tells(r)'
      BY <1>0, <2>1, <3>2, TellsPasses
    <3>4. old' = r
      BY <1>1, <3>1
    <3> QED
      BY <3>1, <3>3, <3>4 DEF Tells
  <2>4. age' \in 0..Horizon
    BY <1>0, <2>1, LeastOfTwo, TimeConstants
  <2>5. /\ todo' = "pend" => Sampled(1)'
        /\ todo' = "count" => Sampled(2)'
        /\ todo' = "val" /\ ~firstTry' => Sampled(3)'
    BY <1>0, <1>1, <2>2 DEF ReadsTrue
  <2>6. todo' \in {"pend", "count"} /\ ~firstTry' => old'.ticks < new'.ticks \/ Tells(old)'
    BY <1>0, <1>1, <2>3 DEF ReadsTrue
  <2>7. todo' = "idle" => firstTry'
    BY <1>1, <1>3
  <2> QED
    BY <2>4, <2>5, <2>6, <2>7 DEF ReadsTrue
<1> QED
  BY <1>2, <1>3

(* ... and the handlers keep all of the invariant.                          *)
LEMMA WaitsInv ==
    ASSUME LongTick, ClockInv, NEW n, Passes(n), ~SketchPasses(n), Wait(n),
           busy' \in 0..Busy,
           tickCount' = IF sys = "count" THEN (IF HandlerPasses(n) THEN (tickCount + 1) % CountWrap
                                               ELSE tickCount)
                        ELSE tickCount
    PROVE ClockInv'
<1>1. ClockTyped /\ CountsTicks
  BY DEF ClockInv
<1>2. CountsTicks' /\ tickCount' \in 0..(CountWrap-1)
  BY <1>1, CountPasses
<1>3. ReadsTrue' /\ age' \in 0..Horizon
  BY WaitsKeep
<1>4. InTime' /\ pend' \in BOOLEAN
  BY <1>1, PassesClock
<1>5. sys' \in {"idle", "count", "reset", "store", "banzai"}
  BY <1>1 DEF Passes, SketchPasses, IsrPasses, EnterPasses, HandlerPasses, ClockTyped
<1>6. ClockTyped'
  BY <1>1, <1>2, <1>3, <1>4, <1>5 DEF Wait, ClockTyped, InTime
<1> QED
  BY <1>2, <1>3, <1>6 DEF ClockInv

(* The steps of handlers and of SysTick_Handler.                            *)
LEMMA IsrKeeps ==
    ASSUME LongTick, ClockInv, NEW n \in Int, n >= 1, busy + n <= Busy, busy' = busy + n,
           Pass(n, pend), Wait(n), UNCHANGED <<tickCount, sys>>
    PROVE ClockInv'
<1>1. busy \in 0..Busy /\ Busy \in Nat
  BY TimeConstants DEF ClockInv, ClockTyped
<1>2. n \in 1..(Busy - busy) /\ busy' \in 0..Busy /\ busy' # busy
  BY <1>1
<1>3. Passes(n) /\ ~SketchPasses(n)
  BY <1>2 DEF Passes, IsrPasses, SketchPasses
<1>4. ~(sys = "count" /\ HandlerPasses(n))
  BY <1>2 DEF HandlerPasses
<1> QED
  BY <1>2, <1>3, <1>4, WaitsInv

LEMMA SysTickKeeps ==
    ASSUME LongTick, ClockInv, SysTick
    PROVE ClockInv'
<1>0. busy \in 0..Busy /\ 0 \in 0..Busy
  BY TimeConstants DEF ClockInv, ClockTyped
<1>1. CASE Enter
  <2>1. /\ EnterPasses(1) /\ Wait(1) /\ busy' = 0 /\ tickCount' = tickCount /\ sys = "idle"
        /\ sys' = "count"
    BY <1>1 DEF Enter, Tick, EnterPasses
  <2>2. Passes(1) /\ ~SketchPasses(1)
    BY <2>1 DEF Passes, SketchPasses
  <2> QED
    BY <1>0, <2>1, <2>2, WaitsInv
<1>2. CASE Count
  <2>1. /\ HandlerPasses(1) /\ Wait(1) /\ busy' = busy /\ tickCount' = (tickCount + 1) % CountWrap
        /\ sys = "count" /\ sys' = "reset"
    BY <1>2 DEF Count, Tick, HandlerPasses
  <2>2. Passes(1) /\ ~SketchPasses(1)
    BY <2>1 DEF Passes, SketchPasses
  <2> QED
    BY <1>0, <2>1, <2>2, WaitsInv
<1>3. CASE TestReset \/ TickReset \/ Banzai
  <2>1. /\ HandlerPasses(1) /\ Wait(1) /\ busy' = busy /\ tickCount' = tickCount
        /\ sys \in {"reset", "store", "banzai"}
    BY <1>3 DEF TestReset, TickReset, Banzai, Tick, HandlerPasses
  <2>2. Passes(1) /\ ~SketchPasses(1)
    BY <2>1 DEF Passes, SketchPasses, Sketch
  <2> QED
    BY <1>0, <2>1, <2>2, WaitsInv
<1> QED
  BY <1>1, <1>2, <1>3 DEF SysTick

(* The steps of the sketch.                                                 *)
LEMMA StepKeeps ==
    ASSUME LongTick, ClockInv, Step
    PROVE /\ SketchPasses(1) /\ Passes(1) /\ CountsTicks'
          /\ now' \in 0..(Horizon-1) /\ now' = (now + 1) % Horizon
          /\ pend' \in BOOLEAN /\ tickCount' \in 0..(CountWrap-1)
          /\ sys' \in {"idle", "count", "reset", "store", "banzai"} /\ busy' \in 0..Busy
<1>1. SketchPasses(1) /\ Passes(1) /\ tickCount' = tickCount /\ sys = "idle"
  BY DEF Step, SketchPasses, Passes, Sketch
<1>2. ClockTyped /\ CountsTicks
  BY DEF ClockInv
<1>3. CountsTicks' /\ tickCount' \in 0..(CountWrap-1)
  <2>1. sys # "count"
    BY <1>1
  <2> QED
    BY <1>1, <1>2, <2>1, CountPasses
<1>4. InTime' /\ now' = (now + 1) % Horizon /\ pend' \in BOOLEAN
  BY <1>1, <1>2, PassesClock
<1>5. sys' = sys /\ busy' = busy
  BY DEF Step
<1> QED
  BY <1>1, <1>2, <1>3, <1>4, <1>5 DEF InTime, ClockTyped

(* The age of a call of micros.                                             *)
LEMMA AgePasses ==
    ASSUME ClockTyped, InMicros
    PROVE /\ age' \in 0..Horizon /\ age \in 0..Horizon /\ Horizon \in Nat \ {0}
          /\ age' = IF age + 1 <= Horizon THEN age + 1 ELSE Horizon
<1>1. age \in 0..Horizon /\ Horizon \in Nat \ {0}
  BY TimeConstants DEF ClockTyped
<1>2. age' = IF age + 1 <= Horizon THEN age + 1 ELSE Horizon
  BY <1>1, LeastOfTwo DEF InMicros
<1> QED
  BY <1>1, <1>2

(* A step of the sketch leaves the reading before.                          *)
LEMMA OldTells ==
    ASSUME LongTick, ClockInv, Step, InMicros, NEW r, Tells(r)
    PROVE Tells(r)'
<1>1. InTime /\ now' = (now + 1) % Horizon /\ 1 \in Nat
  BY StepKeeps DEF ClockInv, ClockTyped, InTime
<1>2. age \in 0..Horizon /\ age' = Min({age + 1, Horizon})
  BY DEF ClockInv, ClockTyped, InMicros
<1> QED
  BY <1>1, <1>2, TellsPasses

(* No reading.                                                              *)
LEMMA NothingTyped == Nothing \in Samples
<1>1. 0 \in 0..(Period-1) /\ 0 \in 0..(CountWrap-1)
  BY TimeConstants
<1> QED
  BY <1>1 DEF Nothing, Samples

(* Other work, and the call of delay.                                       *)
LEMMA IdleKeeps ==
    ASSUME LongTick, ClockInv, Work \/ \E n \in 1..MaxDelay : Delay(n)
    PROVE ClockInv'
<1>1. Step /\ todo = "idle" /\ UNCHANGED <<firstTry, old, new, age>> /\ todo' \in {"idle", "val"}
  BY DEF Work, Delay, reader
<1>2. CountsTicks'
  BY <1>1, StepKeeps
<1>3. ClockTyped'
  BY <1>1, StepKeeps DEF ClockInv, ClockTyped
<1>4. firstTry /\ firstTry'
  BY <1>1 DEF ClockInv, ReadsTrue
<1>5. ReadsTrue'
  BY <1>1, <1>4 DEF ReadsTrue
<1> QED
  BY <1>2, <1>3, <1>5 DEF ClockInv

(* VAL is read: a reading one cycle old.  The one before it tells its time, *)
(* or the counter has started again since: then the new one is larger.      *)
LEMMA ReadValKeeps ==
    ASSUME LongTick, ClockInv, ReadVal
    PROVE ClockInv'
<1>1. /\ Step /\ InMicros /\ todo = "val" /\ todo' = "pend" /\ old' = new
      /\ new' = [Nothing EXCEPT !.ticks = VAL(now)] /\ firstTry' = firstTry
  BY DEF ReadVal
<1>2. /\ SketchPasses(1) /\ Passes(1) /\ CountsTicks' /\ ClockTyped /\ ReadsTrue
  BY <1>1, StepKeeps DEF ClockInv
<1>3. /\ VAL(now) = IF Phase = 0 THEN 0 ELSE Period - Phase
      /\ pend => Phase = 0
      /\ Phase' = IF Phase + 1 < Period THEN Phase + 1 ELSE 0
      /\ Phase \in 0..(Period-1) /\ sys = "idle" /\ sys' = "idle" /\ busy' = busy
      /\ VAL(now) \in 0..(Period-1)
  BY <1>2, SketchReads
<1>4. new' \in Samples /\ new'.ticks = VAL(now) /\ new \in Samples
  BY <1>1, <1>2, <1>3, NothingTyped DEF Samples, Nothing, ClockTyped
<1>5. ClockTyped'
  BY <1>1, <1>2, <1>4, StepKeeps, AgePasses DEF ClockTyped
<1>6. Busy \in Nat /\ Period \in Nat /\ busy \in 0..Busy /\ 2 * Busy + 10 < Period
  BY <1>2, TimeConstants DEF LongTick, ClockTyped
<1>7. Sampled(1)'
  <2>1. pend' = (pend \/ Phase + 1 >= Period)
    <3>1. ~EnterPasses(1)
      BY <1>3 DEF EnterPasses
    <3> QED
      BY <1>2, <3>1, PassesClock
  <2>2. Since(1, 1)'
    <3>1. Phase' <= 1 \/ ~pend'
      <4>1. CASE pend
        BY <1>3, <1>6, <4>1
      <4>2. CASE Phase + 1 >= Period
        <5>1. Phase' = 0
          BY <1>3, <1>6, <4>2
        <5> QED
          BY <5>1
      <4> QED
        BY <2>1, <4>1, <4>2
    <3>2. Handled' = 5 /\ sys' = "idle" /\ busy' = busy
      BY <1>3 DEF Handled
    <3>3. 1 <= 1 + Busy + 5 + busy /\ 1 <= 1 + busy
      BY <1>6
    <3> QED
      BY <3>1, <3>2, <3>3 DEF Since
  <2>3. 1 <= age'
    BY <1>1, <1>2, AgePasses
  <2>4. Ago(1)' = VAL(now)
    BY <1>3, <1>6 DEF Ago
  <2>5. 1 \in 1..Period
    BY <1>6
  <2> QED
    BY <1>1, <1>4, <2>2, <2>3, <2>4, <2>5 DEF Sampled
<1>8. ~firstTry' => old'.ticks < new'.ticks \/ Tells(old)'
  <2> SUFFICES ASSUME ~firstTry PROVE new.ticks < new'.ticks \/ Tells(old)'
    BY <1>1
  <2>1. PICK d \in 1..Period : /\ Since(d, 3) /\ new.ticks = Ago(d)
                               /\ Overtaken(d) \/ Tells(new)
    BY <1>1, <1>2 DEF ReadsTrue, Sampled
  <2>2. CASE Overtaken(d)
    <3>1. d < Period
      BY <1>3, <1>6, <2>1 DEF Since, Handled
    <3>2. Ago(d) = d - Phase /\ VAL(now) = Period - Phase
      BY <1>3, <2>2 DEF Overtaken, Ago
    <3> QED
      BY <1>3, <1>4, <1>6, <2>1, <3>1, <3>2
  <2>3. CASE Tells(new)
    <3>1. PICK r : r = new
      OBVIOUS
    <3>2. Tells(r)'
      BY <1>1, <2>3, <3>1, OldTells
    <3>3. old' = r
      BY <1>1, <3>1
    <3> QED
      BY <3>2, <3>3 DEF Tells
  <2> QED
    BY <2>1, <2>2, <2>3
<1>9. ReadsTrue'
  BY <1>1, <1>7, <1>8 DEF ReadsTrue
<1> QED
  BY <1>2, <1>5, <1>9 DEF ClockInv

(* The flag is read: it is set only if the counter has just started again.  *)
LEMMA ReadPendKeeps ==
    ASSUME LongTick, ClockInv, ReadPend
    PROVE ClockInv'
<1>1. /\ Step /\ InMicros /\ todo = "pend" /\ todo' = "count" /\ old' = old
      /\ new' = [new EXCEPT !.pend = pend] /\ firstTry' = firstTry
  BY DEF ReadPend
<1>2. /\ SketchPasses(1) /\ Passes(1) /\ CountsTicks' /\ ClockTyped /\ ReadsTrue
  BY <1>1, StepKeeps DEF ClockInv
<1>3. /\ pend => Phase = 0
      /\ Phase' = IF Phase + 1 < Period THEN Phase + 1 ELSE 0
      /\ Phase \in 0..(Period-1)
  BY <1>2, SketchReads
<1>4. new' \in Samples /\ new'.ticks = new.ticks /\ new'.pend = pend
  BY <1>1, <1>2 DEF Samples, ClockTyped
<1>5. ClockTyped'
  BY <1>1, <1>2, <1>4, StepKeeps, AgePasses DEF ClockTyped
<1>6. Period \in Nat /\ 10 < Period
  BY TimeConstants DEF LongTick
<1>7. Sampled(2)'
  <2>1. PICK d \in 1..Period : Since(d, 1) /\ d <= age /\ new.ticks = Ago(d)
    BY <1>1, <1>2 DEF ReadsTrue, Sampled
  <2>2. /\ d + 1 \in 1..Period /\ Since(d + 1, 2)' /\ Ago(d + 1)' = Ago(d)
    <3>1. 1 \in 0..3 /\ 2 \in 0..3 /\ 2 = IF SketchPasses(1) THEN 1 + 1 ELSE 1
      BY <1>2
    <3> QED
      BY <1>2, <2>1, <3>1, SincePasses
  <2>3. d + 1 <= age'
    BY <1>1, <1>2, <2>1, <2>2, AgePasses, TimeConstants
  <2>4. pend => Overtaken(d + 1)'
    BY <1>3, <1>6, <2>1 DEF Overtaken
  <2> QED
    BY <1>1, <1>4, <2>1, <2>2, <2>3, <2>4 DEF Sampled
<1>8. ~firstTry' => old'.ticks < new'.ticks \/ Tells(old)'
  <2>1. Tells(old) => Tells(old)'
    <3>1. PICK r : r = old
      OBVIOUS
    <3>2. Tells(r) => Tells(r)'
      BY <1>1, OldTells
    <3>3. old' = r
      BY <1>1, <3>1
    <3> QED
      BY <3>1, <3>2, <3>3 DEF Tells
  <2> QED
    BY <1>1, <1>2, <1>4, <2>1 DEF ReadsTrue
<1>9. ReadsTrue'
  BY <1>1, <1>7, <1>8 DEF ReadsTrue
<1> QED
  BY <1>2, <1>5, <1>9 DEF ClockInv

(* The count is read, and the readings disagree: this one tells its time,   *)
(* or the counter has started again since.                                  *)
LEMMA ReadAgainKeeps ==
    ASSUME LongTick, ClockInv, ReadAgain
    PROVE ClockInv'
<1>1. /\ Step /\ InMicros /\ todo = "count" /\ todo' = "val" /\ old' = Nothing
      /\ new' = [new EXCEPT !.count = tickCount] /\ firstTry' = FALSE
  BY DEF ReadAgain, ThisReading
<1>2. /\ SketchPasses(1) /\ Passes(1) /\ CountsTicks' /\ ClockTyped /\ CountsTicks /\ ReadsTrue
  BY <1>1, StepKeeps DEF ClockInv
<1>3. /\ Phase' = IF Phase + 1 < Period THEN Phase + 1 ELSE 0
      /\ Phase \in 0..(Period-1)
  BY <1>2, SketchReads
<1>4. /\ new' \in Samples /\ new'.ticks = new.ticks /\ new'.pend = new.pend
      /\ new'.count = tickCount
  BY <1>1, <1>2 DEF Samples, ClockTyped
<1>5. ClockTyped'
  BY <1>1, <1>2, <1>4, StepKeeps, AgePasses, NothingTyped DEF ClockTyped
<1>6. Period \in Nat /\ 10 < Period
  BY TimeConstants DEF LongTick
<1>7. Sampled(3)'
  <2>1. PICK d \in 1..Period : /\ Since(d, 2) /\ d <= age /\ new.ticks = Ago(d)
                               /\ new.pend => Overtaken(d)
    BY <1>1, <1>2 DEF ReadsTrue, Sampled
  <2>2. /\ d + 1 \in 1..Period /\ Since(d + 1, 3)' /\ Ago(d + 1)' = Ago(d)
        /\ Overtaken(d) => Overtaken(d + 1)'
    <3>1. 2 \in 0..3 /\ 3 \in 0..3 /\ 3 = IF SketchPasses(1) THEN 2 + 1 ELSE 2
      BY <1>2
    <3> QED
      BY <1>2, <2>1, <3>1, SincePasses
  <2>3. d + 1 <= age'
    BY <1>1, <1>2, <2>1, <2>2, AgePasses, TimeConstants
  <2>4. Overtaken(d + 1)' \/ Tells(new)'
    <3>1. CASE Overtaken(d)
      BY <2>2, <3>1
    <3>2. CASE Phase = 0
      BY <1>3, <1>6, <2>1, <3>2 DEF Overtaken
    <3>3. CASE ~Overtaken(d) /\ Phase # 0
      <4>1. d < Phase /\ ~new.pend
        BY <1>3, <1>6, <2>1, <3>3 DEF Overtaken
      <4>2. PICK r : r = [new EXCEPT !.count = tickCount]
        OBVIOUS
      <4>3. ~r.pend /\ r.ticks = Ago(d) /\ r.count = tickCount
        BY <1>1, <1>4, <2>1, <4>1, <4>2
      <4>4. age' = Min({age + 1, Horizon})
        BY <1>1 DEF InMicros
      <4>5. Tells(r)'
        BY <1>2, <2>1, <4>1, <4>3, <4>4, CountTells
      <4>6. new' = r
        BY <1>1, <4>2
      <4> QED
        BY <4>5, <4>6 DEF Tells
    <3> QED
      BY <3>1, <3>2, <3>3
  <2> QED
    BY <1>1, <1>4, <2>1, <2>2, <2>3, <2>4 DEF Sampled
<1>8. ReadsTrue'
  BY <1>1, <1>7 DEF ReadsTrue
<1> QED
  BY <1>2, <1>5, <1>8 DEF ClockInv

(* The readings agree: micros returns.                                      *)
LEMMA ReadDoneKeeps ==
    ASSUME LongTick, ClockInv, ReadDone
    PROVE ClockInv'
<1>1. /\ Step /\ todo' \in {"idle", "val"} /\ firstTry' = TRUE
      /\ old' = Nothing /\ new' = Nothing /\ age' = 0
  BY DEF ReadDone
<1>2. CountsTicks'
  BY <1>1, StepKeeps
<1>3. ClockTyped'
  BY <1>1, StepKeeps, NothingTyped, TimeConstants DEF ClockInv, ClockTyped
<1>4. ReadsTrue'
  BY <1>1 DEF ReadsTrue
<1> QED
  BY <1>2, <1>3, <1>4 DEF ClockInv

(* Every step keeps the clock.                                              *)
LEMMA ClockStep ==
    ASSUME LongTick, ClockInv, [TimeNext]_timeVars
    PROVE ClockInv'
<1>0. Busy \in Nat /\ busy \in 0..Busy /\ Handling \in Nat \ {0}
  BY TimeAssumption DEF ClockInv, ClockTyped
<1>1. CASE Work \/ \E n \in 1..MaxDelay : Delay(n)
  BY <1>1, IdleKeeps
<1>2. CASE ReadVal
  BY <1>2, ReadValKeeps
<1>3. CASE ReadPend
  BY <1>3, ReadPendKeeps
<1>4. CASE ReadAgain
  BY <1>4, ReadAgainKeeps
<1>5. CASE ReadDone
  BY <1>5, ReadDoneKeeps
<1>6. CASE SysTick
  BY <1>6, SysTickKeeps
<1>7. CASE IsrMicros
  <2>1. IsrTries \in 0..3
    BY IsrStable DEF ClockInv
  <2>2. IsrCost \in Int /\ IsrCost >= 1
    BY <2>1 DEF IsrCost
  <2>3. /\ busy + IsrCost <= Busy /\ busy' = busy + IsrCost /\ Pass(IsrCost, pend)
        /\ Wait(IsrCost) /\ UNCHANGED <<tickCount, sys>>
    BY <1>7 DEF IsrMicros
  <2> QED
    BY <2>2, <2>3, IsrKeeps
<1>8. CASE IsrWork \/ \E b \in BOOLEAN : SetLineCoding(b) \/ SetControlLineState(b)
  <2>1. /\ busy + Handling <= Busy /\ busy' = busy + Handling /\ Pass(Handling, pend)
        /\ Wait(Handling) /\ UNCHANGED <<tickCount, sys>>
    BY <1>8 DEF IsrWork, SetLineCoding, SetControlLineState, Setup
  <2>2. Handling \in Int /\ Handling >= 1
    BY <1>0
  <2> QED
    BY <2>1, <2>2, IsrKeeps
<1>9. CASE UNCHANGED timeVars
  <2>1. UNCHANGED <<now, pend, tickCount, sys, busy, todo, firstTry, old, new, age>>
    BY <1>9 DEF timeVars, clock, reader
  <2> QED
    BY <2>1 DEF ClockInv, ClockTyped, CountsTicks, Owed, Ticks, ReadsTrue, Sampled, Since,
                Handled, Phase, Ago, Overtaken, Tells, VAL
<1> QED
  BY <1>1, <1>2, <1>3, <1>4, <1>5, <1>6, <1>7, <1>8, <1>9 DEF TimeNext, Running

(* The tick count is what the time says, and what the sketch has read is    *)
(* what it was.                                                             *)
LEMMA ClockInvariant == LongTick /\ TimeSpec => []ClockInv
<1>1. LongTick /\ TimeInit => ClockInv
  BY ClockInit
<1>2. LongTick /\ ClockInv /\ [TimeNext]_timeVars => ClockInv'
  BY ClockStep
<1>3. SUFFICES ASSUME LongTick PROVE TimeSpec => []ClockInv
  OBVIOUS
<1>4. TimeInit => ClockInv
  BY <1>1, <1>3
<1>5. ClockInv /\ [TimeNext]_timeVars => ClockInv'
  BY <1>2, <1>3
<1> QED
  BY <1>4, <1>5, PTL DEF TimeSpec

(* Types, for every constant: a delay that goes on has milliseconds to wait *)
(* for, and the countdown ends at zero.                                     *)
TimeTyped ==
    /\ now \in 0..(Horizon-1) /\ pend \in BOOLEAN /\ tickCount \in 0..(CountWrap-1)
    /\ sys \in {"idle", "count", "reset", "store", "banzai"} /\ busy \in 0..Busy
    /\ todo \in {"idle", "val", "pend", "count"} /\ firstTry \in BOOLEAN
    /\ old \in Samples /\ new \in Samples /\ age \in 0..Horizon
    /\ asked \in 0..MaxDelay /\ ms \in 0..MaxDelay
    /\ start \in -1..(Wrap-1) /\ elapsed \in 0..Horizon
    /\ ticks \in -1..ResetTicks /\ load \in -1..ResetTicks
    /\ slow \in BOOLEAN /\ dtr \in BOOLEAN /\ requests \in 0..MaxRequests
    /\ erased \in BOOLEAN /\ raced \in BOOLEAN

TimeInv ==
    /\ TimeTyped
    /\ todo # "idle" => ms # 0
    /\ sys = "store" => load \in 1..ResetTicks
    /\ ticks = 0 => erased \/ sys = "banzai"
    /\ erased => sys = "idle"

(* Cycles that pass, and sums that stop at the horizon.                     *)
LEMMA PassTypes ==
    ASSUME TimeTyped, NEW n \in Int, NEW p \in BOOLEAN, Pass(n, p)
    PROVE now' \in 0..(Horizon-1) /\ pend' \in BOOLEAN
<1>1. Horizon \in Nat \ {0} /\ now + n \in Int
  BY TimeConstants DEF TimeTyped
<1>2. (now + n) % Horizon \in 0..(Horizon-1)
  BY <1>1, DivMod
<1>3. now' \in 0..(Horizon-1)
  BY <1>2 DEF Pass
<1>4. pend' \in BOOLEAN
  BY DEF Pass
<1> QED
  BY <1>3, <1>4

LEMMA LesserTypes ==
    ASSUME NEW x \in 0..Horizon, NEW n \in Nat
    PROVE Min({x + n, Horizon}) \in 0..Horizon
<1>1. Horizon \in Nat \ {0}
  BY TimeConstants
<1> QED
  BY <1>1, LeastOfTwo

(* A handler leaves the sketch where it is.                                 *)
LEMMA WaitTypes ==
    ASSUME TimeInv, NEW n \in Nat, NEW p \in BOOLEAN, Pass(n, p), Wait(n),
           tickCount' \in 0..(CountWrap-1), sys' \in {"idle", "count", "reset", "store", "banzai"},
           busy' \in 0..Busy, ticks' \in -1..ResetTicks, load' \in -1..ResetTicks,
           slow' \in BOOLEAN, dtr' \in BOOLEAN, requests' \in 0..MaxRequests,
           erased' \in BOOLEAN, raced' \in BOOLEAN,
           sys' = "store" => load' \in 1..ResetTicks,
           ticks' = 0 => erased' \/ sys' = "banzai",
           erased' => sys' = "idle"
    PROVE TimeInv'
<1>1. TimeTyped /\ n \in Int
  BY DEF TimeInv
<1>2. now' \in 0..(Horizon-1) /\ pend' \in BOOLEAN
  BY <1>1, PassTypes
<1>3. Min({age + n, Horizon}) \in 0..Horizon /\ Min({elapsed + n, Horizon}) \in 0..Horizon
  BY <1>1, LesserTypes DEF TimeTyped
<1>4. 0 \in 0..Horizon
  BY TimeConstants
<1>5. age' \in 0..Horizon /\ elapsed' \in 0..Horizon
  BY <1>3, <1>4 DEF Wait
<1>6. UNCHANGED <<todo, firstTry, old, new, ms, start, asked>>
  BY DEF Wait
<1>7. TimeTyped'
  BY <1>1, <1>2, <1>5, <1>6 DEF TimeTyped
<1> QED
  BY <1>6, <1>7 DEF TimeInv

(* A step of the sketch leaves the rest where it is.                        *)
LEMMA StepTypes ==
    ASSUME TimeInv, Step, todo' \in {"idle", "val", "pend", "count"}, firstTry' \in BOOLEAN,
           old' \in Samples, new' \in Samples, age' \in 0..Horizon,
           asked' \in 0..MaxDelay, ms' \in 0..MaxDelay, start' \in -1..(Wrap-1),
           elapsed' \in 0..Horizon, todo' # "idle" => ms' # 0
    PROVE TimeInv'
<1>1. TimeTyped /\ pend \in BOOLEAN /\ Pass(1, pend) /\ 1 \in Int
  BY DEF TimeInv, TimeTyped, Step
<1>2. now' \in 0..(Horizon-1) /\ pend' \in BOOLEAN
  BY <1>1, PassTypes
<1>3. UNCHANGED <<tickCount, sys, busy, ticks, load, slow, dtr, requests, erased, raced>>
  BY DEF Step, line, countdown
<1>4. TimeTyped'
  BY <1>1, <1>2, <1>3 DEF TimeTyped
<1> QED
  BY <1>3, <1>4 DEF TimeInv

(* Other work, the call of delay, and the reads of micros.                  *)
LEMMA SketchTypes ==
    ASSUME TimeInv,
           \/ Work \/ (\E n \in 1..MaxDelay : Delay(n))
           \/ ReadVal \/ ReadPend \/ ReadAgain
    PROVE TimeInv'
<1>1. TimeTyped /\ Nothing \in Samples /\ -1 \in -1..(Wrap-1)
  BY NothingTyped, TimeConstants DEF TimeInv
<1>2. CASE Work
  BY <1>1, <1>2, StepTypes DEF Work, reader, delaying, TimeTyped, TimeInv
<1>3. ASSUME NEW n \in 1..MaxDelay, Delay(n) PROVE TimeInv'
  <2>1. n \in 0..MaxDelay /\ n # 0
    BY TimeAssumption
  <2> QED
    BY <1>1, <1>3, <2>1, StepTypes DEF Delay, TimeTyped
<1>4. ASSUME ReadVal \/ ReadPend \/ ReadAgain PROVE TimeInv'
  <2>1. Step /\ InMicros /\ todo # "idle" /\ todo' \in {"val", "pend", "count"}
    BY <1>4 DEF ReadVal, ReadPend, ReadAgain
  <2>2. age' \in 0..Horizon /\ elapsed' \in 0..Horizon /\ UNCHANGED <<ms, start, asked>>
    <3>1. 1 \in Nat
      OBVIOUS
    <3>2. Min({age + 1, Horizon}) \in 0..Horizon /\ Min({elapsed + 1, Horizon}) \in 0..Horizon
      BY <1>1, <3>1, LesserTypes DEF TimeTyped
    <3> QED
      BY <2>1, <3>2 DEF InMicros
  <2>3. VAL(now) \in 0..(Period-1)
    BY <1>1, ValOf, TimeConstants DEF TimeTyped
  <2>4. old' \in Samples /\ new' \in Samples /\ firstTry' \in BOOLEAN
    <3>1. CASE ReadVal
      BY <1>1, <2>3, <3>1 DEF ReadVal, TimeTyped, Samples, Nothing
    <3>2. CASE ReadPend
      BY <1>1, <3>2 DEF ReadPend, TimeTyped, Samples
    <3>3. CASE ReadAgain
      BY <1>1, <3>3 DEF ReadAgain, ThisReading, TimeTyped, Samples
    <3> QED
      BY <1>4, <3>1, <3>2, <3>3
  <2> QED
    BY <1>1, <2>1, <2>2, <2>4, StepTypes DEF TimeTyped, TimeInv
<1> QED
  BY <1>2, <1>3, <1>4

(* The return of micros.                                                    *)
LEMMA DoneTypes ==
    ASSUME TimeInv, ReadDone
    PROVE TimeInv'
<1>1. TimeTyped /\ Nothing \in Samples /\ Step /\ todo # "idle" /\ ms # 0 /\ ms \in 0..MaxDelay
      /\ start \in -1..(Wrap-1) /\ MaxDelay \in Nat /\ Wrap \in Nat \ {0} /\ Ms \in Int
  BY NothingTyped, TimeConstants, TimeAssumption DEF TimeInv, TimeTyped, ReadDone
<1>2. Micros(old) \in 0..(Wrap-1)
  <2>1. Scale \div Cycles \in Int /\ Scale \in Nat \ {0}
    BY TimeAssumption, DivMod
  <2>2. LOAD - old.ticks \in Int
    BY <1>1, TimeConstants DEF TimeTyped, Samples
  <2>3. (LOAD - old.ticks) * (Scale \div Cycles) \in Int
    BY <2>1, <2>2
  <2>4. Scaled(LOAD - old.ticks) \in Int
    BY <2>1, <2>3, DivMod DEF Scaled
  <2>5. old.count \in Int
    BY <1>1, TimeConstants DEF TimeTyped, Samples
  <2>6. Ticked(old) \in Int
    BY <2>5 DEF Ticked
  <2>7. Ticked(old) * Ms \in Int
    BY <1>1, <2>6
  <2>8. Ticked(old) * Ms + Scaled(LOAD - old.ticks) \in Int
    BY <2>4, <2>7
  <2> QED
    BY <1>1, <2>8, DivMod DEF Micros
<1>3. (start + Ms) % Wrap \in 0..(Wrap-1)
  <2>1. start + Ms \in Int
    BY <1>1
  <2> QED
    BY <1>1, <2>1, DivMod
<1>4. \A x \in 0..(Wrap-1) : x \in -1..(Wrap-1)
  BY <1>1
<1>5. start' \in -1..(Wrap-1) /\ ms' \in 0..MaxDelay
  <2>1. ms - 1 \in 0..MaxDelay /\ 0 \in 0..(Wrap-1)
    BY <1>1
  <2>2. \/ start' = Micros(old) /\ ms' = ms
        \/ NextMs(Micros(old))
    BY DEF ReadDone
  <2> QED
    BY <1>1, <1>2, <1>3, <1>4, <2>1, <2>2 DEF NextMs
<1>6. elapsed' \in 0..Horizon /\ asked' \in 0..MaxDelay /\ age' \in 0..Horizon
  <2>1. 0 \in 0..Horizon /\ 0 \in 0..MaxDelay /\ 1 \in Nat
    BY <1>1, TimeConstants
  <2>2. Min({elapsed + 1, Horizon}) \in 0..Horizon
    BY <1>1, <2>1, LesserTypes DEF TimeTyped
  <2> QED
    BY <1>1, <2>1, <2>2 DEF ReadDone, TimeTyped
<1>7. /\ firstTry' = TRUE /\ old' = Nothing /\ new' = Nothing
      /\ todo' = IF ms' = 0 THEN "idle" ELSE "val"
  BY DEF ReadDone
<1> QED
  BY <1>1, <1>5, <1>6, <1>7, StepTypes

(* SysTick_Handler.                                                         *)
LEMMA SysTickTypes ==
    ASSUME TimeInv, SysTick
    PROVE TimeInv'
<1>1. TimeTyped /\ pend \in BOOLEAN /\ FALSE \in BOOLEAN /\ 1 \in Nat
      /\ 0 \in 0..Busy /\ CountWrap \in Nat \ {0} /\ ResetTicks \in Nat \ {0}
  BY TimeConstants, TimeAssumption DEF TimeInv, TimeTyped
<1>2. CASE Enter
  BY <1>1, <1>2, WaitTypes DEF Enter, Tick, line, countdown, TimeTyped, TimeInv
<1>3. CASE Count
  <2>1. (tickCount + 1) % CountWrap \in 0..(CountWrap-1)
    <3>1. tickCount + 1 \in Int
      BY <1>1 DEF TimeTyped
    <3> QED
      BY <1>1, <3>1, DivMod
  <2> QED
    BY <1>1, <1>3, <2>1, WaitTypes DEF Count, Tick, line, countdown, TimeTyped, TimeInv
<1>4. CASE TestReset
  <2>1. /\ Pass(1, pend) /\ Wait(1) /\ UNCHANGED <<busy, tickCount, ticks, erased, raced>>
        /\ UNCHANGED <<slow, dtr, requests>> /\ ~erased
    BY <1>4 DEF TestReset, Tick, line, TimeInv
  <2>2. \/ ticks = -1 /\ sys' = "idle" /\ load' = load
        \/ ticks \in 1..ResetTicks /\ sys' = "store" /\ load' = ticks
    BY <1>1, <1>4, <2>1 DEF TestReset, TimeInv, TimeTyped
  <2>4. ticks' # 0
    BY <1>4, <2>1 DEF TestReset, TimeInv
  <2>3. load' \in -1..ResetTicks /\ (sys' = "store" => load' \in 1..ResetTicks)
        /\ sys' \in {"idle", "store"}
    BY <1>1, <2>2 DEF TimeTyped
  <2> QED
    BY <1>1, <2>1, <2>3, <2>4, WaitTypes DEF TimeTyped, TimeInv
<1>5. CASE TickReset
  <2>1. /\ Pass(1, pend) /\ Wait(1) /\ UNCHANGED <<busy, tickCount, erased, raced>>
        /\ UNCHANGED <<slow, dtr, requests>> /\ ~erased
        /\ ticks' = load - 1 /\ load' = -1
        /\ sys' = IF load - 1 = 0 THEN "banzai" ELSE "idle"
    BY <1>5 DEF TickReset, Tick, line, TimeInv
  <2>2. load \in 1..ResetTicks
    BY <1>5 DEF TickReset, TimeInv
  <2>3. /\ ticks' \in -1..ResetTicks /\ load' \in -1..ResetTicks
        /\ ticks' = 0 => sys' = "banzai"
        /\ sys' \in {"idle", "banzai"}
    BY <1>1, <2>1, <2>2
  <2> QED
    BY <1>1, <2>1, <2>3, WaitTypes DEF TimeTyped
<1>6. CASE Banzai
  <2>1. /\ Pass(1, pend) /\ Wait(1) /\ UNCHANGED <<busy, tickCount, ticks, load, raced>>
        /\ UNCHANGED <<slow, dtr, requests>> /\ erased' = TRUE /\ sys' = "idle"
    BY <1>6 DEF Banzai, Tick, line
  <2> QED
    BY <1>1, <2>1, WaitTypes DEF TimeTyped
<1> QED
  BY <1>2, <1>3, <1>4, <1>5, <1>6 DEF SysTick

(* The handlers of highest priority, and the requests of the host.          *)
LEMMA HandlerTypes ==
    ASSUME TimeInv,
           IsrMicros \/ IsrWork \/ \E b \in BOOLEAN : SetLineCoding(b) \/ SetControlLineState(b),
           IsrCost \in Nat
    PROVE TimeInv'
<1>1. TimeTyped /\ pend \in BOOLEAN /\ busy \in 0..Busy /\ Busy \in Nat /\ Handling \in Nat
      /\ ResetTicks \in Nat \ {0} /\ MaxRequests \in Nat /\ requests \in 0..MaxRequests
  BY TimeAssumption DEF TimeInv, TimeTyped
<1>2. CASE IsrMicros
  <2>1. busy' \in 0..Busy
    BY <1>1, <1>2 DEF IsrMicros
  <2> QED
    BY <1>1, <1>2, <2>1, WaitTypes DEF IsrMicros, line, countdown, TimeTyped, TimeInv
<1>3. CASE IsrWork
  <2>1. busy' \in 0..Busy
    BY <1>1, <1>3 DEF IsrWork
  <2> QED
    BY <1>1, <1>3, <2>1, WaitTypes DEF IsrWork, line, countdown, TimeTyped, TimeInv
<1>4. ASSUME NEW rate \in BOOLEAN, NEW open \in BOOLEAN, Setup(rate, open) PROVE TimeInv'
  <2>1. busy' \in 0..Busy /\ requests' \in 0..MaxRequests
    BY <1>1, <1>4 DEF Setup
  <2>2. /\ slow' = rate /\ dtr' = open /\ raced' \in BOOLEAN /\ UNCHANGED <<tickCount, sys, load, erased>>
        /\ Pass(Handling, pend) /\ Wait(Handling)
        /\ ticks' = ResetTicks \/ ticks' = -1
    BY <1>4 DEF Setup
  <2>3. ticks' \in -1..ResetTicks /\ ticks' # 0
    BY <1>1, <2>2
  <2> QED
    BY <1>1, <2>1, <2>2, <2>3, WaitTypes DEF TimeTyped, TimeInv
<1>5. slow \in BOOLEAN /\ dtr \in BOOLEAN
  BY <1>1 DEF TimeTyped
<1> QED
  BY <1>2, <1>3, <1>4, <1>5 DEF SetLineCoding, SetControlLineState

(* The types, with what they rest on, in every reachable state.             *)
LEMMA TimeInvHolds == LongTick /\ TimeSpec => []TimeInv
<1>1. SUFFICES ASSUME LongTick PROVE TimeSpec => []TimeInv
  OBVIOUS
<1>2. TimeInit => TimeInv
  <2> SUFFICES ASSUME TimeInit PROVE TimeInv
    OBVIOUS
  <2>1. ClockTyped
    BY <1>1, ClockInit DEF ClockInv
  <2>2. /\ 0 \in 0..MaxDelay /\ 0 \in -1..(Wrap-1) /\ 0 \in 0..Horizon /\ -1 \in -1..ResetTicks
        /\ 0 \in 0..MaxRequests
    BY TimeConstants, TimeAssumption
  <2>3. /\ ms = 0 /\ start = 0 /\ asked = 0 /\ elapsed = 0 /\ ticks = -1 /\ load = -1
        /\ slow = FALSE /\ dtr = FALSE /\ requests = 0 /\ erased = FALSE /\ raced = FALSE
        /\ sys = "idle" /\ todo = "idle"
    BY DEF TimeInit
  <2>4. TimeTyped
    BY <2>1, <2>2, <2>3 DEF TimeTyped, ClockTyped
  <2>5. sys # "store" /\ ticks # 0 /\ ~erased /\ todo = "idle"
    BY <2>3
  <2> QED
    BY <2>4, <2>5 DEF TimeInv
<1>3. ClockInv /\ TimeInv /\ [TimeNext]_timeVars => TimeInv'
  <2> SUFFICES ASSUME ClockInv, TimeInv, [TimeNext]_timeVars PROVE TimeInv'
    OBVIOUS
  <2>1. IsrCost \in Nat
    BY <1>1, IsrStable DEF IsrCost, ClockInv
  <2>2. CASE UNCHANGED timeVars
    BY <2>2 DEF timeVars, clock, reader, delaying, line, countdown, TimeInv, TimeTyped
  <2> QED
    BY <2>1, <2>2, SketchTypes, DoneTypes, SysTickTypes, HandlerTypes DEF TimeNext, Running
<1>4. TimeSpec => []ClockInv
  BY <1>1, ClockInvariant
<1> QED
  BY <1>2, <1>3, <1>4, PTL DEF TimeSpec

(* The state of the clock, of micros and delay and of the countdown keeps   *)
(* its types (delay.c 28-82, Reset.cpp 62-86): a delay counts its           *)
(* milliseconds down to zero and no further, and so does tickReset.         *)
THEOREM TimeTypeCorrect == LongTick /\ TimeSpec => []TimeTyped
<1>1. TimeInv => TimeTyped
  BY DEF TimeInv
<1> QED
  BY <1>1, TimeInvHolds, PTL

(* The phase at the k-th reading of a handler.                              *)
LEMMA IsrPhase ==
    ASSUME LongTick, Phase \in 0..(Period-1), NEW k \in 0..4
    PROVE \E h \in 0..(Period-1) : h = IF Phase + 2 * k + 1 < Period THEN Phase + 2 * k + 1
                                             ELSE Phase + 2 * k + 1 - Period
<1>1. Period \in Nat /\ 10 < Period
  BY TimeConstants DEF LongTick
<1>2. CASE Phase + 2 * k + 1 < Period
  BY <1>1, <1>2
<1>3. CASE ~(Phase + 2 * k + 1 < Period)
  BY <1>1, <1>3
<1> QED
  BY <1>2, <1>3

(* A handler that keeps SysTick waiting: the reading on which it ends counts *)
(* the tick that has come, if it has come, and no other.                     *)
LEMMA IsrCounts ==
    ASSUME LongTick, ClockTyped, CountsTicks, sys # "count", Pass(IsrCost, pend),
           NEW t \in Nat, t = now + 2 * IsrTries + 1,
           NEW c \in Nat, c = Ticked(IsrReading(IsrTries))
    PROVE c % CountWrap = (t \div Period) % CountWrap
<1>1. /\ IsrTries \in 0..3
      /\ Stable(IsrReading(IsrTries), IsrReading(IsrTries + 1))
  BY IsrStable
<1>2. PICK k \in 0..3 : k = IsrTries
  BY <1>1
<1>3. /\ InTime /\ Phase \in 0..(Period-1) /\ Ticks \in 0..CountWrap
      /\ now + 1 = (Period * Ticks) + Phase
  BY PhaseOf DEF ClockTyped, InTime
<1>4. /\ Period \in Nat \ {0} /\ CountWrap \in Nat \ {0} /\ 10 < Period
      /\ tickCount \in Nat /\ pend \in BOOLEAN
  BY TimeConstants DEF LongTick, ClockTyped
<1>5. PICK f \in 0..(Period-1), q \in Int : f = Phase /\ q = Ticks
  BY <1>3
<1>6. pend => f + 2 * k + 4 < Period
  <2>1. IsrCost \in 0..(Period-1) /\ IsrCost = 2 * k + 4
    BY <1>2, <1>4 DEF IsrCost, LongTick
  <2>2. pend => ~Expires(IsrCost)
    BY DEF Pass
  <2> QED
    BY <1>3, <1>4, <1>5, <2>1, <2>2, ExpiresWhen
<1>7. c = tickCount + (IF pend \/ f + 2 * k + 2 >= Period THEN 1 ELSE 0)
  <2>1. PICK h \in 0..(Period-1) : h = IF Phase + 2 * k + 1 < Period THEN Phase + 2 * k + 1
                                             ELSE Phase + 2 * k + 1 - Period
    BY <1>3, IsrPhase
  <2>2. /\ IsrReading(k).pend = (pend \/ Phase + 2 * k + 2 >= Period)
        /\ IsrReading(k).count = tickCount
    BY <1>2, <2>1, IsrReads
  <2> QED
    BY <1>2, <1>5, <2>2 DEF Ticked
<1>8. f + 2 * k < Period => f + 2 * k + 2 < Period
  <2> SUFFICES ASSUME f + 2 * k < Period, f + 2 * k + 2 >= Period PROVE FALSE
    BY <1>4
  <2>1. PICK h \in 0..(Period-1) : h = IF Phase + 2 * k + 1 < Period THEN Phase + 2 * k + 1
                                             ELSE Phase + 2 * k + 1 - Period
    BY <1>3, IsrPhase
  <2>2. PICK m \in 0..4, g \in 0..(Period-1) :
           m = k + 1 /\ g = IF Phase + 2 * m + 1 < Period THEN Phase + 2 * m + 1
                                             ELSE Phase + 2 * m + 1 - Period
    <3>1. PICK m \in 0..4 : m = k + 1
      OBVIOUS
    <3> QED
      BY <1>3, <3>1, IsrPhase
  <2>3. IsrReading(k).ticks = IF h = 0 THEN 0 ELSE Period - h
    BY <2>1, IsrReads
  <2>4. IsrReading(m).ticks = IF g = 0 THEN 0 ELSE Period - g
    BY <2>2, IsrReads
  <2>5. g = f + 2 * k + 3 - Period
    BY <1>4, <1>5, <2>2
  <2>6. IsrReading(k).ticks >= IsrReading(m).ticks
    BY <1>1, <1>2, <2>2 DEF Stable
  <2> QED
    BY <1>4, <1>5, <2>1, <2>3, <2>4, <2>5, <2>6
<1>9. PICK p \in Int : p = Period * q
  BY <1>4
<1>10. t = p + (f + 2 * k)
  BY <1>2, <1>3, <1>5, <1>9 DEF InTime
<1>11. (tickCount + (IF pend THEN 1 ELSE 0)) % CountWrap = q % CountWrap
  <2>1. tickCount + Owed = tickCount + (IF pend THEN 1 ELSE 0)
    BY <1>4 DEF Owed
  <2> QED
    BY <1>5, <2>1 DEF CountsTicks
<1>12. t \in Int
  OBVIOUS
<1>13. CASE f + 2 * k < Period
  <2>1. PICK x \in 0..(Period-1) : x = f + 2 * k
    BY <1>4, <1>13
  <2>2. t = (Period * q) + x
    BY <1>9, <1>10, <2>1
  <2>3. t \div Period = q
    BY <1>4, <1>12, <2>2, DivIs
  <2>4. c = tickCount + (IF pend THEN 1 ELSE 0)
    BY <1>4, <1>7, <1>8, <1>13
  <2> QED
    BY <1>11, <2>3, <2>4
<1>14. CASE f + 2 * k >= Period
  <2>1. PICK x \in 0..(Period-1), s \in Int : x = f + 2 * k - Period /\ s = q + 1
    BY <1>4, <1>14
  <2>2. Period * s = p + Period
    BY <1>4, <1>9, <2>1
  <2>3. t = (Period * s) + x
    BY <1>4, <1>10, <2>1, <2>2
  <2>4. t \div Period = s
    <3>1. Period \in Nat \ {0}
      BY <1>4
    <3> QED
      BY <1>12, <2>3, <3>1, DivIs
  <2>5. ~pend
    BY <1>4, <1>6, <1>14
  <2>6. c = tickCount + 1
    BY <1>4, <1>7, <1>14
  <2>7. tickCount % CountWrap = q % CountWrap
    BY <1>4, <1>11, <2>5
  <2>8. (tickCount + 1) % CountWrap = (q + 1) % CountWrap
    <3>1. tickCount \in Int /\ 1 \in Int
      BY <1>4
    <3> QED
      BY <1>4, <2>7, <3>1, ModSame, Zenon
  <2> QED
    BY <2>1, <2>4, <2>6, <2>8
<1> QED
  BY <1>4, <1>13, <1>14

(* The answer of a handler, unless it interrupted the one that counts.      *)
LEMMA IsrTellsTime ==
    ASSUME LongTick, FineScale, ClockInv, sys # "count", Pass(IsrCost, pend)
    PROVE IsrExact
<1>1. ClockTyped /\ CountsTicks
  BY DEF ClockInv
<1>2. PICK k \in 0..3 : k = IsrTries
  BY <1>1, IsrStable
<1>3. now \in Nat /\ now \in Int /\ tickCount \in Nat /\ Period \in Nat /\ Horizon \in Nat \ {0}
      /\ 10 < Period
  BY <1>1, TimeConstants DEF ClockTyped, LongTick
<1>4. PICK t \in Nat : t = now + 2 * k + 1
  BY <1>3
<1>5. PICK r : r = IsrReading(k)
  OBVIOUS
<1>6. r.ticks = VAL(t) /\ r.count = tickCount
  BY <1>2, <1>4, <1>5 DEF IsrReading
<1>7. PICK c \in Nat : c = Ticked(r)
  BY <1>3, <1>6 DEF Ticked
<1>8. c % CountWrap = (t \div Period) % CountWrap
  BY <1>1, <1>2, <1>4, <1>5, <1>7, IsrCounts
<1>9. PICK u \in {t, t - 1} : /\ u \in Nat
                              /\ (c * Ms + Scaled(t % Period)) % Wrap = ((u % Horizon) \div Cycles) % Wrap
  BY <1>8, MicrosTold
<1>10. IsrAnswer = ((u % Horizon) \div Cycles) % Wrap
  <2>1. LOAD - r.ticks = t % Period
    BY <1>6, ValGives
  <2>2. Micros(r) = (c * Ms + Scaled(t % Period)) % Wrap
    BY <1>7, <2>1 DEF Micros
  <2> QED
    BY <1>2, <1>5, <1>9, <2>2 DEF IsrAnswer
<1>11. PICK d \in Int : d = now - u /\ now - d = u
  BY <1>3, <1>9
<1>12. d \in -IsrCost..1
  <2>1. IsrCost = 2 * k + 4
    BY <1>2 DEF IsrCost
  <2> QED
    BY <1>3, <1>4, <1>9, <1>11, <2>1
<1> QED
  BY <1>10, <1>11, <1>12 DEF IsrExact, Microseconds

(* The answer of micros: the readings agree, so the counter has not started *)
(* again between them.                                                      *)
LEMMA DoneTellsTime ==
    ASSUME LongTick, FineScale, ClockInv, ReadDone
    PROVE Tells(old) /\ WithinCall(Micros(old), age)
<1>1. todo = "count" /\ ~firstTry /\ Stable(old, ThisReading)
  BY DEF ReadDone
<1>2. ClockTyped /\ ReadsTrue /\ old \in Samples /\ new \in Samples
  BY DEF ClockInv, ClockTyped
<1>3. old.ticks >= new.ticks
  BY <1>1, <1>2 DEF Stable, ThisReading, Samples
<1>4. old.ticks < new.ticks \/ Tells(old)
  BY <1>1, <1>2 DEF ReadsTrue
<1>5. Tells(old)
  BY <1>2, <1>3, <1>4, TimeConstants DEF Samples
<1> QED
  BY <1>2, <1>5, TellsTime

(* micros returns a time between its call and its return, for every rate of *)
(* the processor, length of a tick, width of the count and load of handlers *)
(* of less than half a tick; and so does a handler that keeps SysTick       *)
(* waiting (delay.c 44-62).                                                 *)
THEOREM MicrosTellsTime == LongTick /\ FineScale /\ TimeSpec => MicrosExact
<1>1. LongTick /\ FineScale /\ ClockInv /\ [TimeNext]_timeVars
        => [/\ ReadDone => WithinCall(Micros(old), age)
            /\ IsrMicros /\ sys # "count" => IsrExact]_timeVars
  <2> SUFFICES ASSUME LongTick, FineScale, ClockInv
               PROVE /\ ReadDone => WithinCall(Micros(old), age)
                     /\ IsrMicros /\ sys # "count" => IsrExact
    OBVIOUS
  <2>1. ReadDone => WithinCall(Micros(old), age)
    BY DoneTellsTime
  <2>2. IsrMicros /\ sys # "count" => IsrExact
    BY IsrTellsTime DEF IsrMicros
  <2> QED
    BY <2>1, <2>2
<1>2. SUFFICES ASSUME LongTick, FineScale PROVE TimeSpec => MicrosExact
  OBVIOUS
<1>3. ClockInv /\ [TimeNext]_timeVars
        => [/\ ReadDone => WithinCall(Micros(old), age)
            /\ IsrMicros /\ sys # "count" => IsrExact]_timeVars
  BY <1>1, <1>2
<1>4. TimeSpec => []ClockInv
  BY <1>2, ClockInvariant
<1> QED
  BY <1>3, <1>4, PTL DEF TimeSpec, MicrosExact

(* What delay has waited: S, the microsecond start stands for, is not later *)
(* than the call of micros, and the milliseconds that are counted lie       *)
(* between the call of delay and S.                                         *)
Lasted ==
    \E U, S \in Int :
        /\ U % Horizon = now /\ S % Wrap = start
        /\ S * Cycles <= U - age - 1
        /\ (S - (asked - ms) * Ms + 1) * Cycles >= U - elapsed

DelayInv ==
    /\ start \in -1..(Wrap-1) /\ elapsed \in 0..Horizon /\ age <= elapsed
    /\ todo # "idle" =>
         /\ asked \in 1..MaxDelay /\ ms \in 1..asked
         /\ start = -1 => ms = asked
         /\ start # -1 => elapsed = Horizon \/ Lasted

(* Cycles that pass within delay.                                           *)
LEMMA DelayPasses ==
    ASSUME ClockTyped, DelayInv, NEW n \in Nat, now' = (now + n) % Horizon,
           todo # "idle", UNCHANGED <<ms, start, asked>>,
           age' = Min({age + n, Horizon}), elapsed' = Min({elapsed + n, Horizon})
    PROVE DelayInv'
<1>1. age \in 0..Horizon /\ elapsed \in 0..Horizon /\ age <= elapsed /\ Horizon \in Nat \ {0}
  BY TimeConstants DEF ClockTyped, DelayInv
<1>2. /\ age' = IF age + n <= Horizon THEN age + n ELSE Horizon
      /\ elapsed' = IF elapsed + n <= Horizon THEN elapsed + n ELSE Horizon
  BY <1>1, LeastOfTwo
<1>3. age' \in Nat /\ age' <= age + n /\ elapsed' \in 0..Horizon /\ age' <= elapsed'
  BY <1>1, <1>2
<1>4. ASSUME start # -1 PROVE elapsed' = Horizon \/ Lasted'
  <2>1. CASE elapsed = Horizon
    BY <1>1, <1>2, <2>1
  <2>2. CASE elapsed # Horizon /\ elapsed' # Horizon
    <3>1. Lasted
      BY <1>4, <2>2 DEF DelayInv
    <3>2. PICK U \in Int, S \in Int :
            /\ U % Horizon = now /\ S % Wrap = start /\ S * Cycles <= U - age - 1
            /\ (S - (asked - ms) * Ms + 1) * Cycles >= U - elapsed
      BY <3>1 DEF Lasted
    <3>3. Cycles \in Int /\ Ms \in Int /\ asked - ms \in Int
      BY <1>4, TimeProducts, TimeAssumption DEF DelayInv
    <3>4. PICK a \in Int, b \in Int : /\ a = S * Cycles
                                      /\ b = (S - (asked - ms) * Ms + 1) * Cycles
      BY <3>3
    <3>5. PICK V \in Int : V = U + n
      OBVIOUS
    <3>6. V % Horizon = now'
      <4>1. ((U % Horizon) + n) % Horizon = (U + n) % Horizon
        <5>1. n \in Int
          OBVIOUS
        <5> QED
          BY <1>1, <5>1, ModPlus, Zenon
      <4> QED
        BY <3>2, <3>5, <4>1
    <3>7. elapsed' = elapsed + n
      BY <1>1, <1>2, <2>2
    <3>8. a <= V - age' - 1 /\ b >= V - elapsed'
      BY <1>1, <1>3, <3>2, <3>4, <3>5, <3>7
    <3> QED
      BY <3>2, <3>4, <3>6, <3>8 DEF Lasted
  <2> QED
    BY <2>1, <2>2
<1>5. todo' # "idle" =>
         /\ asked' \in 1..MaxDelay /\ ms' \in 1..asked'
         /\ start' = -1 => ms' = asked'
         /\ start' # -1 => elapsed' = Horizon \/ Lasted'
  BY <1>4 DEF DelayInv
<1>6. start' \in -1..(Wrap-1)
  BY DEF DelayInv
<1> QED
  BY <1>3, <1>5, <1>6 DEF DelayInv

(* The time micros returns, as one of those it may return.                  *)
LEMMA DoneGives ==
    ASSUME LongTick, FineScale, ClockInv, ReadDone, NEW U \in Int, U % Horizon = now
    PROVE \E d \in 0..(age + 1), R \in Int :
             /\ Micros(old) = R % Wrap /\ Micros(old) \in 0..(Wrap-1)
             /\ R * Cycles <= U - d /\ U - d < (R + 1) * Cycles
<1>1. PICK d \in 0..(age + 1) : Micros(old) = (((now - d) % Horizon) \div Cycles) % Wrap
  BY DoneTellsTime DEF WithinCall, Microseconds
<1>2. Horizon \in Nat \ {0} /\ Cycles \in Nat \ {0} /\ Wrap \in Nat \ {0} /\ d \in Nat
  BY <1>1, TimeProducts DEF ClockInv, ClockTyped
<1>3. PICK u \in Int, m \in Int : u = U - d /\ m = -d
  BY <1>2
<1>4. (now - d) % Horizon = u % Horizon
  <2>1. ((U % Horizon) + m) % Horizon = (U + m) % Horizon
    BY <1>2, ModPlus
  <2>2. now \in Int /\ U + m = u /\ now + m = now - d
    BY <1>2, <1>3 DEF ClockInv, ClockTyped
  <2> QED
    BY <2>1, <2>2
<1>5. PICK R \in Int, b \in 0..(Cycles-1) : R = u \div Cycles /\ u = (Cycles * R) + b
  BY <1>2, DivMod
<1>6. Micros(old) = R % Wrap
  BY <1>1, <1>4, <1>5, WrappedMicros
<1>7. R % Wrap \in 0..(Wrap-1)
  BY <1>2, DivMod
<1>8. PICK a \in Int : a = Cycles * R
  BY <1>2
<1>9. R * Cycles = a /\ (R + 1) * Cycles = a + Cycles
  BY <1>2, <1>8
<1>10. R * Cycles <= U - d /\ U - d < (R + 1) * Cycles
  BY <1>2, <1>3, <1>5, <1>8, <1>9
<1> QED
  BY <1>6, <1>7, <1>10

(* One of the milliseconds has passed.                                      *)
LEMMA Apart ==
    ASSUME NEW R \in Int, NEW S \in Int, R >= S,
           ((R % Wrap) - (S % Wrap)) % Wrap >= Ms
    PROVE R >= S + Ms
<1>1. Wrap \in Nat \ {0} /\ Ms \in Nat \ {0}
  BY TimeProducts
<1>2. PICK i \in Int, j \in Int, r \in Int, s \in Int :
         /\ r = R % Wrap /\ s = S % Wrap /\ R = (Wrap * i) + r /\ S = (Wrap * j) + s
  <2>1. PICK i \in Int, r \in 0..(Wrap-1) : r = R % Wrap /\ R = (Wrap * i) + r
    BY <1>1, DivMod
  <2>2. PICK j \in Int, s \in 0..(Wrap-1) : s = S % Wrap /\ S = (Wrap * j) + s
    BY <1>1, DivMod
  <2>3. r \in Int /\ s \in Int
    BY <1>1
  <2> QED
    BY <2>1, <2>2, <2>3
<1>3. PICK k \in Int, x \in Int, y \in Int : k = j - i /\ x = R - S /\ y = r - s
  OBVIOUS
<1>4. y = x + (Wrap * k)
  <2>1. Wrap * k = (Wrap * j) - (Wrap * i)
    BY <1>1, <1>3
  <2>2. PICK a \in Int, b \in Int : a = Wrap * i /\ b = Wrap * j
    BY <1>1
  <2>3. R = a + r /\ S = b + s
    BY <1>2, <2>2
  <2>4. Wrap * k = b - a
    BY <2>1, <2>2
  <2>5. y = x + (b - a)
    BY <1>3, <2>3
  <2> QED
    BY <2>4, <2>5
<1>5. y % Wrap = x % Wrap
  BY <1>1, <1>4, ModShift
<1>6. PICK q \in Int, m \in 0..(Wrap-1) : m = x % Wrap /\ x = (Wrap * q) + m
  <2>1. /\ x \div Wrap \in Int /\ x % Wrap \in 0..(Wrap-1)
        /\ x = (Wrap * (x \div Wrap)) + (x % Wrap)
    BY <1>1, DivMod, Zenon
  <2> QED
    BY <2>1
<1>7. m >= Ms
  BY <1>2, <1>3, <1>5, <1>6
<1>8. x >= m
  <2>1. x >= 0
    BY <1>3
  <2>2. \A w \in Nat \ {0}, z, h \in Int : h < w /\ (w * z) + h >= 0 => w * z >= 0
    <3> TAKE w \in Nat \ {0}, z, h \in Int
    <3>1. ASSUME z <= -1 PROVE w * z <= -w
      BY <3>1
    <3>2. ASSUME z >= 0 PROVE w * z >= 0
      BY <3>2
    <3> QED
      BY <3>1, <3>2
  <2>3. m < Wrap /\ m \in Int /\ Wrap * q \in Int
    BY <1>1
  <2>4. Wrap * q >= 0
    BY <1>1, <1>6, <2>1, <2>2, <2>3
  <2> QED
    BY <1>6, <2>3, <2>4
<1> QED
  BY <1>1, <1>3, <1>7, <1>8

(* The answer is not earlier than the one it is compared with.              *)
LEMMA Earlier ==
    ASSUME NEW U \in Int, NEW a \in Nat, NEW d \in 0..(a + 1), NEW S \in Int, NEW R \in Int,
           S * Cycles <= U - a - 1, U - d < (R + 1) * Cycles
    PROVE R >= S
<1>1. Cycles \in Nat \ {0}
  BY TimeProducts
<1>2. SUFFICES ASSUME R + 1 <= S PROVE FALSE
  OBVIOUS
<1>3. (R + 1) * Cycles <= S * Cycles /\ (R + 1) * Cycles \in Int /\ S * Cycles \in Int
  BY <1>1, <1>2
<1> QED
  BY <1>3

(* What the return of micros does to delay.                                 *)
LEMMA DoneStep ==
    ASSUME LongTick, FineScale, ClockInv, DelayInv, ReadDone
    PROVE /\ asked \in 1..MaxDelay /\ ms \in 1..asked /\ MaxDelay \in Nat
          /\ Horizon \in Nat \ {0} /\ age \in 0..Horizon /\ elapsed \in 0..Horizon /\ age <= elapsed
          /\ Micros(old) \in 0..(Wrap-1)
          /\ start = -1 => start' = Micros(old) /\ ms' = ms /\ ms = asked
          /\ start # -1 =>
               IF (Micros(old) - start) % Wrap >= Ms
               THEN ms' = ms - 1 /\ start' = (IF ms = 1 THEN 0 ELSE (start + Ms) % Wrap)
               ELSE ms' = ms /\ start' = start
          /\ age' = 0 /\ now' = (now + 1) % Horizon
          /\ ms' # 0 => /\ todo' = "val" /\ asked' = asked
                        /\ elapsed' = IF elapsed + 1 <= Horizon THEN elapsed + 1 ELSE Horizon
          /\ ms' = 0 => todo' = "idle" /\ elapsed' = 0
<1>1. todo = "count" /\ Step
  BY DEF ReadDone
<1>2. asked \in 1..MaxDelay /\ ms \in 1..asked /\ (start = -1 => ms = asked)
  BY <1>1 DEF DelayInv
<1>3. /\ Horizon \in Nat \ {0} /\ age \in 0..Horizon /\ elapsed \in 0..Horizon /\ age <= elapsed
      /\ now \in 0..(Horizon-1)
  BY TimeConstants DEF ClockInv, ClockTyped, DelayInv
<1>4. Micros(old) \in 0..(Wrap-1)
  <2>1. now \in Int /\ now = (Horizon * 0) + now
    BY <1>3
  <2>2. now % Horizon = now
    BY <1>3, <2>1, DivIs
  <2> QED
    BY <2>1, <2>2, DoneGives
<1>5. now' = (now + 1) % Horizon
  BY <1>1, StepKeeps
<1>6. Min({elapsed + 1, Horizon}) = IF elapsed + 1 <= Horizon THEN elapsed + 1 ELSE Horizon
  BY <1>3, LeastOfTwo
<1>7. /\ start = -1 => start' = Micros(old) /\ ms' = ms
      /\ start # -1 => NextMs(Micros(old))
      /\ age' = 0
      /\ ms' # 0 => todo' = "val" /\ asked' = asked /\ elapsed' = Min({elapsed + 1, Horizon})
      /\ ms' = 0 => todo' = "idle" /\ elapsed' = 0
  BY DEF ReadDone
<1>8. start # -1 => IF (Micros(old) - start) % Wrap >= Ms
                    THEN ms' = ms - 1 /\ start' = (IF ms = 1 THEN 0 ELSE (start + Ms) % Wrap)
                    ELSE ms' = ms /\ start' = start
  BY <1>7 DEF NextMs
<1>9. MaxDelay \in Nat
  BY TimeAssumption
<1> QED
  BY <1>2, <1>3, <1>4, <1>5, <1>6, <1>7, <1>8, <1>9

(* The first answer of micros.                                              *)
LEMMA DelayStarts ==
    ASSUME LongTick, FineScale, ClockInv, DelayInv, ReadDone, start = -1
    PROVE elapsed' = Horizon \/ Lasted'
<1>1. /\ asked \in 1..MaxDelay /\ ms = asked /\ ms' = ms /\ asked' = asked
      /\ Horizon \in Nat \ {0} /\ age \in 0..Horizon /\ elapsed \in 0..Horizon /\ age <= elapsed
      /\ start' = Micros(old) /\ age' = 0 /\ now' = (now + 1) % Horizon
      /\ elapsed' = IF elapsed + 1 <= Horizon THEN elapsed + 1 ELSE Horizon
  <2>1. asked \in 1..MaxDelay /\ ms = asked /\ ms' = ms
    BY DoneStep
  <2>2. ms' # 0
    BY <2>1, DoneStep
  <2> QED
    BY <2>1, <2>2, DoneStep
<1>2. PICK U \in Int : U = now /\ U % Horizon = now
  <2>1. now \in 0..(Horizon-1) /\ now \in Int /\ now = (Horizon * 0) + now
    BY <1>1 DEF ClockInv, ClockTyped
  <2>2. now % Horizon = now
    BY <1>1, <2>1, DivIs
  <2> QED
    BY <2>1, <2>2
<1>3. PICK d \in 0..(age + 1), R \in Int :
         /\ Micros(old) = R % Wrap /\ R * Cycles <= U - d /\ U - d < (R + 1) * Cycles
  BY <1>2, DoneGives
<1>4. PICK V \in Int : V = U + 1
  OBVIOUS
<1>5. V % Horizon = now'
  BY <1>1, <1>2, <1>4
<1>6. PICK a \in Int, b \in Int : a = R * Cycles /\ b = (R + 1) * Cycles
  BY TimeProducts
<1>7. (R - (asked' - ms') * Ms + 1) * Cycles = b
  <2>1. asked' - ms' = 0
    BY <1>1
  <2>2. (asked' - ms') * Ms = 0
    BY <2>1, TimeAssumption
  <2> QED
    BY <1>6, <2>2
<1>8. a <= V - age' - 1
  BY <1>1, <1>3, <1>4, <1>6
<1>9. elapsed' = Horizon \/ b >= V - elapsed'
  BY <1>1, <1>3, <1>4, <1>6
<1> QED
  BY <1>1, <1>3, <1>5, <1>6, <1>7, <1>8, <1>9 DEF Lasted

(* The answers that follow, as long as there are milliseconds to wait for.  *)
LEMMA DelayGoesOn ==
    ASSUME LongTick, FineScale, ClockInv, DelayInv, ReadDone, start # -1, ms' # 0,
           elapsed = Horizon \/ Lasted
    PROVE elapsed' = Horizon \/ Lasted'
<1>1. /\ asked \in 1..MaxDelay /\ ms \in 1..asked /\ asked' = asked /\ MaxDelay \in Nat
      /\ Horizon \in Nat \ {0} /\ age \in 0..Horizon /\ elapsed \in 0..Horizon
      /\ age' = 0 /\ now' = (now + 1) % Horizon
      /\ elapsed' = IF elapsed + 1 <= Horizon THEN elapsed + 1 ELSE Horizon
      /\ IF (Micros(old) - start) % Wrap >= Ms
         THEN ms' = ms - 1 /\ start' = (IF ms = 1 THEN 0 ELSE (start + Ms) % Wrap)
         ELSE ms' = ms /\ start' = start
  BY DoneStep
<1>2. SUFFICES ASSUME Lasted, elapsed' # Horizon PROVE Lasted'
  BY <1>1
<1>3. PICK U \in Int, S \in Int :
        /\ U % Horizon = now /\ S % Wrap = start /\ S * Cycles <= U - age - 1
        /\ (S - (asked - ms) * Ms + 1) * Cycles >= U - elapsed
  BY <1>2 DEF Lasted
<1>4. PICK d \in 0..(age + 1), R \in Int :
         /\ Micros(old) = R % Wrap /\ R * Cycles <= U - d /\ U - d < (R + 1) * Cycles
  BY <1>3, DoneGives
<1>5. /\ Wrap \in Nat \ {0} /\ Cycles \in Nat \ {0} /\ Ms \in Nat \ {0}
  BY TimeProducts
<1>6. PICK V \in Int : V = U + 1
  OBVIOUS
<1>7. V % Horizon = now'
  <2>1. ((U % Horizon) + 1) % Horizon = (U + 1) % Horizon
    <3>1. 1 \in Int
      OBVIOUS
    <3> QED
      BY <1>1, <3>1, ModPlus, Zenon
  <2> QED
    BY <1>1, <1>3, <1>6, <2>1
<1>8. PICK a \in Int, b \in Int, c \in Int :
        /\ a = S * Cycles /\ b = (S - (asked - ms) * Ms + 1) * Cycles /\ c = R * Cycles
  <2>1. asked - ms \in Int
    BY <1>1
  <2> QED
    BY <1>5, <2>1
<1>9. elapsed' = elapsed + 1
  BY <1>1, <1>2
<1>10. a <= V - age' - 1 /\ b >= V - elapsed' /\ c <= V - age' - 1
  BY <1>1, <1>3, <1>4, <1>6, <1>8, <1>9
<1>11. CASE ~((Micros(old) - start) % Wrap >= Ms)
  <2>1. ms' = ms /\ start' = start
    BY <1>1, <1>11
  <2> QED
    BY <1>1, <1>3, <1>7, <1>8, <1>10, <2>1 DEF Lasted
<1>12. CASE (Micros(old) - start) % Wrap >= Ms
  <2>1. ms' = ms - 1 /\ start' = (start + Ms) % Wrap
    BY <1>1, <1>12
  <2>2. R >= S
    BY <1>1, <1>3, <1>4, <1>5, <1>8, Earlier
  <2>3. R >= S + Ms
    BY <1>3, <1>4, <1>12, <2>2, Apart
  <2>4. PICK T \in Int : T = S + Ms
    BY <1>5
  <2>5. T % Wrap = start'
    <3>1. ((S % Wrap) + Ms) % Wrap = (S + Ms) % Wrap
      <4>1. Ms \in Int
        BY <1>5
      <4> QED
        BY <1>5, <4>1, ModPlus, Zenon
    <3> QED
      BY <1>3, <2>1, <2>4, <3>1
  <2>6. T * Cycles <= V - age' - 1
    <3>1. T * Cycles <= R * Cycles /\ T * Cycles \in Int
      BY <1>5, <2>3, <2>4
    <3> QED
      BY <1>1, <1>6, <1>8, <1>10, <3>1
  <2>7. T - (asked' - ms') * Ms = S - (asked - ms) * Ms
    <3>1. PICK k \in Int, z \in Int : k = asked - ms /\ z = k * Ms
      BY <1>1, <1>5
    <3>2. asked' - ms' = k + 1
      BY <1>1, <2>1, <3>1
    <3>3. (k + 1) * Ms = z + Ms
      BY <1>5, <3>1
    <3> QED
      BY <1>5, <2>4, <3>1, <3>2, <3>3
  <2>8. (T - (asked' - ms') * Ms + 1) * Cycles >= V - elapsed'
    BY <1>8, <1>10, <2>7
  <2> QED
    BY <1>7, <2>5, <2>6, <2>8 DEF Lasted
<1> QED
  BY <1>11, <1>12

(* The last answer.                                                         *)
LEMMA DelayEnds ==
    ASSUME LongTick, FineScale, ClockInv, DelayInv, ReadDone, ms' = 0
    PROVE elapsed >= (asked * Ms - 1) * Cycles - 1
<1>1. /\ asked \in 1..MaxDelay /\ ms \in 1..asked /\ MaxDelay \in Nat
      /\ Horizon \in Nat \ {0} /\ age \in 0..Horizon /\ elapsed \in 0..Horizon
      /\ start # -1 /\ ms = 1 /\ (Micros(old) - start) % Wrap >= Ms
  <2>1. asked \in 1..MaxDelay /\ ms \in 1..asked /\ MaxDelay \in Nat
    BY DoneStep
  <2>2. ms # 0
    BY <2>1
  <2> QED
    BY <2>1, <2>2, DoneStep
<1>2. /\ Wrap \in Nat \ {0} /\ Cycles \in Nat \ {0} /\ Ms \in Nat \ {0} /\ CountWrap \in Nat
      /\ Span \in Nat /\ Horizon = Cycles * Span /\ Span = Ms * CountWrap
  BY TimeProducts
<1>3. elapsed = Horizon \/ Lasted
  BY <1>1 DEF DelayInv, ReadDone
<1>4. PICK m \in Int : m = asked * Ms
  BY <1>1, <1>2
<1>5. PICK h \in Int : h = (m - 1) * Cycles
  BY <1>2
<1>6. CASE elapsed = Horizon
  <2>1. asked <= CountWrap
    BY <1>1, <1>2, TimeAssumption
  <2>2. asked * Ms <= Ms * CountWrap
    BY <1>1, <1>2, <2>1
  <2>3. m - 1 <= Span
    BY <1>2, <1>4, <2>2
  <2>4. (m - 1) * Cycles <= Cycles * Span
    BY <1>2, <2>3
  <2> QED
    BY <1>1, <1>2, <1>4, <1>5, <1>6, <2>4
<1>7. CASE Lasted
  <2>1. PICK U \in Int, S \in Int :
          /\ U % Horizon = now /\ S % Wrap = start /\ S * Cycles <= U - age - 1
          /\ (S - (asked - ms) * Ms + 1) * Cycles >= U - elapsed
    BY <1>7 DEF Lasted
  <2>2. PICK d \in 0..(age + 1), R \in Int :
           /\ Micros(old) = R % Wrap /\ R * Cycles <= U - d /\ U - d < (R + 1) * Cycles
    BY <2>1, DoneGives
  <2>3. R >= S
    BY <1>1, <1>2, <2>1, <2>2, Earlier
  <2>4. R >= S + Ms
    BY <1>1, <2>1, <2>2, <2>3, Apart
  <2>5. (asked - ms) * Ms = m - Ms
    BY <1>1, <1>2, <1>4
  <2>6. PICK w \in Int : w = S - (m - Ms) + 1
    BY <1>2
  <2>7. w * Cycles >= U - elapsed
    BY <2>1, <2>5, <2>6
  <2>8. R * Cycles <= U
    <3>1. R * Cycles \in Int
      BY <1>2
    <3> QED
      BY <1>1, <2>2, <3>1
  <2>9. R - w >= m - 1
    BY <1>2, <2>4, <2>6
  <2>10. (R - w) * Cycles >= h
    BY <1>2, <1>5, <2>9
  <2>11. (R - w) * Cycles = (R * Cycles) - (w * Cycles)
    BY <1>2
  <2>12. R * Cycles \in Int /\ w * Cycles \in Int
    BY <1>2
  <2>13. elapsed >= h
    BY <1>1, <2>7, <2>8, <2>10, <2>11, <2>12
  <2> QED
    BY <1>1, <1>4, <1>5, <2>13
<1> QED
  BY <1>3, <1>6, <1>7

(* Handlers, and the steps of micros before the last, within delay or not.  *)
LEMMA DelayWaits ==
    ASSUME ClockTyped, DelayInv, NEW n \in Nat, now' = (now + n) % Horizon, Wait(n)
    PROVE DelayInv'
<1>1. CASE todo = "idle"
  <2>1. start' = start /\ todo' = "idle" /\ age' = 0 /\ elapsed' = 0
    BY <1>1 DEF Wait
  <2> QED
    BY <2>1, TimeConstants DEF DelayInv
<1>2. CASE todo # "idle"
  <2>1. /\ UNCHANGED <<ms, start, asked>> /\ age' = Min({age + n, Horizon})
        /\ elapsed' = Min({elapsed + n, Horizon})
    BY <1>2 DEF Wait
  <2> QED
    BY <1>2, <2>1, DelayPasses
<1> QED
  BY <1>1, <1>2

LEMMA DelayReads ==
    ASSUME LongTick, ClockInv, DelayInv, ReadVal \/ ReadPend \/ ReadAgain
    PROVE DelayInv'
<1>1. Step /\ InMicros /\ todo # "idle"
  BY DEF ReadVal, ReadPend, ReadAgain
<1>2. /\ UNCHANGED <<ms, start, asked>> /\ age' = Min({age + 1, Horizon})
      /\ elapsed' = Min({elapsed + 1, Horizon})
  BY <1>1 DEF InMicros
<1>3. now' = (now + 1) % Horizon /\ 1 \in Nat
  BY <1>1, StepKeeps
<1> QED
  BY <1>1, <1>2, <1>3, DelayPasses DEF ClockInv

(* The answer of micros, whichever it is.                                   *)
LEMMA DelayDone ==
    ASSUME LongTick, FineScale, ClockInv, DelayInv, ReadDone
    PROVE DelayInv'
<1>1. /\ asked \in 1..MaxDelay /\ ms \in 1..asked /\ MaxDelay \in Nat
      /\ Horizon \in Nat \ {0} /\ elapsed \in 0..Horizon
      /\ Micros(old) \in 0..(Wrap-1)
      /\ start = -1 => start' = Micros(old) /\ ms' = ms /\ ms = asked
      /\ start # -1 =>
           IF (Micros(old) - start) % Wrap >= Ms
           THEN ms' = ms - 1 /\ start' = (IF ms = 1 THEN 0 ELSE (start + Ms) % Wrap)
           ELSE ms' = ms /\ start' = start
      /\ age' = 0
      /\ ms' # 0 => /\ todo' = "val" /\ asked' = asked
                    /\ elapsed' = IF elapsed + 1 <= Horizon THEN elapsed + 1 ELSE Horizon
      /\ ms' = 0 => todo' = "idle" /\ elapsed' = 0
  BY DoneStep
<1>2. Wrap \in Nat \ {0} /\ Ms \in Int /\ start \in -1..(Wrap-1)
  BY TimeConstants, TimeAssumption DEF DelayInv
<1>3. (start + Ms) % Wrap \in 0..(Wrap-1)
  <2>1. start + Ms \in Int
    BY <1>2
  <2> QED
    BY <1>2, <2>1, DivMod
<1>4. start' \in 0..(Wrap-1) /\ ms' \in 0..asked
  <2>1. CASE start = -1
    BY <1>1, <2>1
  <2>2. CASE start # -1
    <3>1. start \in 0..(Wrap-1) /\ 0 \in 0..(Wrap-1)
      BY <1>2, <2>2
    <3>2. ms \in 0..asked /\ ms - 1 \in 0..asked
      BY <1>1
    <3> QED
      BY <1>1, <1>3, <2>2, <3>1, <3>2
  <2> QED
    BY <2>1, <2>2
<1>5. elapsed' \in 0..Horizon /\ age' <= elapsed'
  BY <1>1
<1>6. ASSUME ms' # 0 PROVE elapsed' = Horizon \/ Lasted'
  <2>1. start # -1 => elapsed = Horizon \/ Lasted
    BY DEF DelayInv, ReadDone
  <2> QED
    BY <1>6, <2>1, DelayStarts, DelayGoesOn
<1>7. todo' # "idle" => asked' \in 1..MaxDelay /\ ms' \in 1..asked'
  BY <1>1, <1>4
<1>8. start' \in -1..(Wrap-1) /\ start' # -1
  BY <1>2, <1>4
<1> QED
  BY <1>1, <1>5, <1>6, <1>7, <1>8 DEF DelayInv

(* Every step keeps what delay has waited.                                  *)
LEMMA DelayStep ==
    ASSUME LongTick, FineScale, ClockInv, DelayInv, [TimeNext]_timeVars
    PROVE DelayInv'
<1>0. ClockTyped /\ InTime /\ Busy \in Nat /\ busy \in 0..Busy /\ Handling \in Nat \ {0}
      /\ Horizon \in Nat \ {0} /\ Wrap \in Nat \ {0} /\ Period \in Nat
      /\ 2 * Busy + 10 < Period
  BY TimeAssumption, TimeConstants DEF ClockInv, ClockTyped, InTime, LongTick
<1>1. CASE Work
  <2>1. UNCHANGED <<todo, start, elapsed, age>> /\ todo = "idle"
    BY <1>1 DEF Work, reader, delaying
  <2> QED
    BY <2>1 DEF DelayInv
<1>2. CASE \E n \in 1..MaxDelay : Delay(n)
  <2>1. PICK n \in 1..MaxDelay : Delay(n)
    BY <1>2
  <2>2. ms' = n /\ asked' = n /\ start' = -1 /\ UNCHANGED <<age, elapsed>>
    BY <2>1 DEF Delay
  <2>3. ms' \in 1..asked' /\ -1 \in -1..(Wrap-1)
    BY <1>0, <2>2, TimeAssumption
  <2> QED
    BY <2>2, <2>3 DEF DelayInv
<1>3. CASE ReadVal \/ ReadPend \/ ReadAgain
  BY <1>3, DelayReads
<1>4. CASE ReadDone
  BY <1>4, DelayDone
<1>5. ASSUME NEW n \in 1..(Period-1), Wait(n), NEW p, Pass(n, p)
      PROVE DelayInv'
  <2>1. now' = (now + n) % Horizon /\ n \in Nat
    BY <1>5 DEF Pass
  <2> QED
    BY <1>0, <1>5, <2>1, DelayWaits
<1>6. CASE SysTick
  <2>1. \E p : Pass(1, p) /\ Wait(1)
    BY <1>6 DEF SysTick, Enter, Count, TestReset, TickReset, Banzai, Tick
  <2>2. 1 \in 1..(Period-1)
    BY <1>0
  <2> QED
    BY <1>5, <2>1, <2>2
<1>7. CASE IsrMicros
  <2>1. IsrCost \in 1..(Period-1)
    BY <1>0, IsrStable DEF IsrCost
  <2>2. Wait(IsrCost) /\ Pass(IsrCost, pend)
    BY <1>7 DEF IsrMicros
  <2> QED
    BY <1>5, <2>1, <2>2
<1>8. CASE IsrWork \/ \E b \in BOOLEAN : SetLineCoding(b) \/ SetControlLineState(b)
  <2>1. Wait(Handling) /\ Pass(Handling, pend) /\ busy + Handling <= Busy
    BY <1>8 DEF IsrWork, SetLineCoding, SetControlLineState, Setup
  <2>2. Handling \in 1..(Period-1)
    BY <1>0, <2>1
  <2> QED
    BY <1>5, <2>1, <2>2
<1>9. CASE UNCHANGED timeVars
  <2>1. UNCHANGED <<now, todo, age, ms, start, asked, elapsed>>
    BY <1>9 DEF timeVars, clock, reader, delaying
  <2> QED
    BY <2>1 DEF DelayInv, Lasted
<1> QED
  BY <1>1, <1>2, <1>3, <1>4, <1>6, <1>7, <1>8, <1>9 DEF TimeNext, Running

LEMMA DelayInit == TimeInit => DelayInv
<1> SUFFICES ASSUME TimeInit PROVE DelayInv
  OBVIOUS
<1>1. start = 0 /\ elapsed = 0 /\ age = 0 /\ todo = "idle"
  BY DEF TimeInit
<1>2. 0 \in -1..(Wrap-1) /\ 0 \in 0..Horizon
  BY TimeConstants
<1> QED
  BY <1>1, <1>2 DEF DelayInv

(* Only the last answer of micros ends delay.                               *)
LEMMA DelayEndsLate ==
    ASSUME LongTick, FineScale, ClockInv, DelayInv, [TimeNext]_timeVars,
           todo # "idle", todo' = "idle"
    PROVE elapsed >= (asked * Ms - 1) * Cycles - 1
<1>1. ReadDone
  BY DEF TimeNext, Running, timeVars, reader, Work, Delay, ReadVal, ReadPend, ReadAgain, SysTick,
         Enter, Count, TestReset, TickReset, Banzai, Tick, Wait, IsrMicros, IsrWork, SetLineCoding,
         SetControlLineState, Setup
<1>2. ms' = 0
  BY <1>1 DEF ReadDone
<1> QED
  BY <1>1, <1>2, DelayEnds

(* delay does not return before its milliseconds are over, less the         *)
(* microsecond its start was rounded by, though the time wraps meanwhile    *)
(* (delay.c 64-82).                                                         *)
THEOREM DelayTakesItsTime == LongTick /\ FineScale /\ TimeSpec => DelayLasts
<1>1. SUFFICES ASSUME LongTick, FineScale PROVE TimeSpec => DelayLasts
  OBVIOUS
<1>2. TimeInit => DelayInv
  BY DelayInit
<1>3. ClockInv /\ DelayInv /\ [TimeNext]_timeVars => DelayInv'
  BY <1>1, DelayStep
<1>4. ClockInv /\ DelayInv /\ [TimeNext]_timeVars
        => [todo # "idle" /\ todo' = "idle"
              => elapsed >= (asked * Ms - 1) * Cycles - 1]_timeVars
  BY <1>1, DelayEndsLate
<1>5. TimeSpec => []ClockInv
  BY <1>1, ClockInvariant
<1> QED
  BY <1>2, <1>3, <1>4, <1>5, PTL DEF TimeSpec, DelayLasts
=============================================================================
