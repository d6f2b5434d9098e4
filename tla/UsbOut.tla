------------------------------- MODULE UsbOut -------------------------------
(***************************************************************************)
(* A bulk OUT endpoint of the USB device: DoubleBufferedEPOutHandler of     *)
(* cores/arduino/USB/SAMD21_USBDevice.h over a RingBuffer.                  *)
(*                                                                         *)
(* The host fills two banks in turn, the interrupt handler hands a filled   *)
(* bank to the sketch and the other one to the hardware, the sketch copies  *)
(* a bank to the ring and reads the ring.  When both banks are full the     *)
(* handler keeps the hardware waiting (notify) and the sketch releases it.  *)
(*                                                                         *)
(* A "synchronized" block runs with interrupts off and is one step.  Bytes  *)
(* are numbered in the order the host sends them.                           *)
(***************************************************************************)
EXTENDS RingBuffer, Sequences

CONSTANTS
    Size,           \* size: the bytes of a bank, and of the longest packet
    MaxRead,        \* bound: the bytes one recv asks for
    MaxBytes,       \* bound: bytes the host sends
    MaxZlp          \* bound: zero-length packets the host sends

ASSUME UsbAssumption ==
    /\ Size \in Nat \ {0} /\ MaxRead \in Nat \ {0}
    /\ MaxBytes \in Nat /\ MaxZlp \in Nat

Banks == {0, 1}
Other(b) == 1 - b

VARIABLES
    ring,           \* _rx_buffer
    current,        \* the bank the sketch reads
    incoming,       \* the bank the next packet goes to
    first, last,    \* first0/1, last0/1: the bytes of a bank not yet copied
    ready,          \* ready0/1: the bank is the sketch's
    notify,         \* the hardware waits for the sketch to release it
    data,           \* data0/1
    address,        \* the bank the endpoint descriptor points at
    byteCount,      \* BYTE_COUNT of the endpoint descriptor
    full,           \* BK0RDY: the hardware refuses packets
    trcpt,          \* EPINTFLAG.TRCPT0
    sent, zlps,     \* bytes and zero-length packets sent
    pc, len, count, \* the call in progress: next step, room in the ring, i
    want,           \* bytes recv asks for, 0 in available and peek
    got             \* the bytes recv returned

bank == <<current, first, ready, notify>>
hw == <<incoming, last, data, address, trcpt, sent, zlps>>
endpoint == <<full, byteCount>>
vars == <<ring, bank, endpoint, hw, pc, len, count, want, got>>

Init ==
    /\ ring = EmptyRing
    /\ current = 0 /\ incoming = 0 /\ address = 0
    /\ first = [b \in Banks |-> 0] /\ last = [b \in Banks |-> 0]
    /\ ready = [b \in Banks |-> FALSE] /\ notify = FALSE
    /\ data = [b \in Banks |-> <<>>]
    /\ byteCount = 0 /\ full = FALSE /\ trcpt = FALSE
    /\ sent = 0 /\ zlps = 0
    /\ pc = "idle" /\ len = 0 /\ count = 0 /\ want = 0 /\ got = <<>>

-----------------------------------------------------------------------------
(* The host sends a packet into the bank the descriptor points at.          *)
HostPacket(n) ==
    /\ ~full
    /\ sent + n <= MaxBytes /\ (n = 0 => zlps < MaxZlp)
    /\ data' = [data EXCEPT ![address] = [i \in 1 .. n |-> sent + i]]
    /\ byteCount' = n /\ full' = TRUE /\ trcpt' = TRUE
    /\ sent' = sent + n
    /\ zlps' = IF n = 0 THEN zlps + 1 ELSE zlps
    /\ UNCHANGED <<ring, bank, incoming, last, address, pc, len, count, want, got>>

-----------------------------------------------------------------------------
(* release: the hardware may receive again.                                 *)
EpRelease == full' = FALSE /\ byteCount' = 0

HandleEndpointMutant ==     \* a bug: the hardware is never kept waiting
    /\ trcpt /\ trcpt' = FALSE
    /\ IF byteCount = 0
       THEN EpRelease /\ UNCHANGED <<last, incoming, address, ready, notify>>
       ELSE /\ last' = [last EXCEPT ![incoming] = byteCount]
            /\ incoming' = Other(incoming) /\ address' = Other(incoming)
            /\ ready' = [ready EXCEPT ![incoming] = TRUE]
            /\ notify' = ready[Other(incoming)]
            /\ EpRelease
    /\ UNCHANGED <<ring, current, first, data, sent, zlps,
                   pc, len, count, want, got>>

(* handleEndpoint, in the USB interrupt.  A zero-length packet leaves the   *)
(* bank where it is.                                                        *)
HandleEndpoint ==
    /\ trcpt /\ trcpt' = FALSE
    /\ IF byteCount = 0
       THEN EpRelease /\ UNCHANGED <<last, incoming, address, ready, notify>>
       ELSE /\ last' = [last EXCEPT ![incoming] = byteCount]
            /\ incoming' = Other(incoming) /\ address' = Other(incoming)
            /\ ready' = [ready EXCEPT ![incoming] = TRUE]
            /\ notify' = ready[Other(incoming)]
            /\ IF notify' THEN UNCHANGED endpoint ELSE EpRelease
    /\ UNCHANGED <<ring, current, first, data, sent, zlps,
                   pc, len, count, want, got>>

-----------------------------------------------------------------------------
(* available, peek and recv of the sketch: all begin with _recv.            *)
Go(from, to) == pc = from /\ pc' = to

Call(n) ==
    /\ Go("idle", "room")
    /\ want' = n /\ count' = 0
    /\ UNCHANGED <<ring, bank, endpoint, hw, len, got>>

Room ==
    /\ Go("room", "test")
    /\ len' = AvailableForStore(ring)
    /\ UNCHANGED <<ring, bank, endpoint, hw, count, want, got>>

TestReady ==
    /\ Go("test", IF ready[current] THEN "copy" ELSE "answer")
    /\ UNCHANGED <<ring, bank, endpoint, hw, len, count, want, got>>

CopyByteMutant ==           \* a bug: the room in the ring not counted down
    /\ pc = "copy" /\ first[current] < last[current] /\ len > 0
    /\ ring' = StoreChar(ring, data[current][first[current] + 1])
    /\ first' = [first EXCEPT ![current] = @ + 1]
    /\ UNCHANGED <<current, ready, notify, endpoint, hw, pc, len, count, want, got>>

CopyByte ==
    /\ pc = "copy" /\ count < len /\ first[current] < last[current]
    /\ ring' = StoreChar(ring, data[current][first[current] + 1])
    /\ first' = [first EXCEPT ![current] = @ + 1]
    /\ count' = count + 1
    /\ UNCHANGED <<current, ready, notify, endpoint, hw, pc, len, want, got>>

(* The ring is full, or the bank is empty and the next one is due.          *)
CopyEnd ==
    /\ pc = "copy" /\ ~(count < len /\ first[current] < last[current])
    /\ IF first[current] = last[current]
       THEN /\ pc' = "release"
            /\ first' = [first EXCEPT ![current] = 0]
            /\ current' = Other(current)
       ELSE pc' = "answer" /\ UNCHANGED <<first, current>>
    /\ UNCHANGED <<ring, ready, notify, endpoint, hw, len, count, want, got>>

ReleaseMutant ==            \* a bug: the waiting hardware forgotten
    /\ Go("release", "answer")
    /\ ready' = [ready EXCEPT ![Other(current)] = FALSE]
    /\ notify' = FALSE
    /\ UNCHANGED <<ring, current, first, endpoint, hw, len, count, want, got>>

Release ==
    /\ Go("release", "answer")
    /\ ready' = [ready EXCEPT ![Other(current)] = FALSE]
    /\ notify' = FALSE
    /\ IF notify THEN EpRelease ELSE UNCHANGED endpoint
    /\ UNCHANGED <<ring, current, first, hw, len, count, want, got>>

(* recv reads the ring; available and peek leave it.  The call is over, its *)
(* locals are no more.                                                      *)
Answer ==
    LET n == IF want < Available(ring) THEN want ELSE Available(ring)
    IN  /\ Go("answer", "idle")
        /\ got' = got \o SubSeq(Contents(ring), 1, n)
        /\ ring' = [ring EXCEPT !.tail = (@ + n) % N]
        /\ len' = 0 /\ count' = 0 /\ want' = 0
        /\ UNCHANGED <<bank, endpoint, hw>>

RecvStep == Room \/ TestReady \/ CopyByte \/ CopyEnd \/ Release \/ Answer

-----------------------------------------------------------------------------
Next ==
    \/ \E n \in 0 .. Size : HostPacket(n)
    \/ HandleEndpoint
    \/ \E n \in 0 .. MaxRead : Call(n)
    \/ RecvStep

Spec == Init /\ [][Next]_vars

-----------------------------------------------------------------------------
TypeOK ==
    /\ ring \in Ring(Nat)
    /\ current \in Banks /\ incoming \in Banks /\ address \in Banks
    /\ first \in [Banks -> 0 .. Size] /\ last \in [Banks -> 0 .. Size]
    /\ ready \in [Banks -> BOOLEAN] /\ notify \in BOOLEAN
    /\ data \in [Banks -> Seq(Nat)] /\ byteCount \in 0 .. Size
    /\ full \in BOOLEAN /\ trcpt \in BOOLEAN
    /\ sent \in Nat /\ zlps \in Nat
    /\ pc \in {"idle", "room", "test", "copy", "release", "answer"}
    /\ len \in 0 .. N-1 /\ count \in 0 .. N-1
    /\ want \in 0 .. MaxRead /\ got \in Seq(Nat)

(* The bytes of a bank the sketch has still to copy.                        *)
Left(b) == IF ready[b] /\ (pc = "release" => b = current)
           THEN SubSeq(data[b], first[b] + 1, last[b]) ELSE <<>>
InFlight == IF trcpt THEN data[address] ELSE <<>>

(* What the host sent passes through two banks and the ring to the sketch   *)
(* in order and once, also when a bank does not fit the ring at once.       *)
InOrder ==
    got \o Contents(ring) \o Left(current) \o Left(Other(current)) \o InFlight
        = [i \in 1 .. sent |-> i]

(* "when ready0==true the buffer is not being filled and last0 is constant" *)
(* (SAMD21_USBDevice.h 296).                                                *)
BankStable ==
    [][\A b \in Banks : ready[b] => data'[b] = data[b] /\ last'[b] = last[b]]_vars

(* The hardware refuses packets only while someone will release it: the     *)
(* interrupt handler, or the sketch, which then finds a bank to read.       *)
NoLostRelease == full => trcpt \/ (notify /\ ready[current])
=============================================================================
