-------------------------------- MODULE Cdc --------------------------------
(***************************************************************************)
(* The receiving half of the USB serial port: available, peek, read and     *)
(* readBytes of Serial_ in cores/arduino/USB/CDC.cpp, over recv of          *)
(* USBDeviceClass and the OUT endpoint of UsbOut.                           *)
(*                                                                         *)
(* The port exists before the host has configured the device: recv answers  *)
(* (uint32_t)-1 until SET_CONFIGURATION has created the endpoint's handler. *)
(***************************************************************************)
EXTENDS UsbOut

CONSTANT Modulus    \* the number of values of size_t, 2^32 in the code

ASSUME CdcAssumption == Modulus \in Nat /\ Modulus > MaxRead + 1

VARIABLES
    configured,     \* _usbConfiguration # 0, and the handler exists
    peeked,         \* _serialPeek
    op,             \* the call of Serial_ in progress
    length, total,  \* readBytes: length, count
    base,           \* bytes the sketch had been given at the call of readBytes
    expired,        \* readBytes: _timeout has passed since _startMillis
    early,          \* readBytes was called before the configuration
    jumped,         \* readBytes was called while a byte was peeked
    delivered       \* the bytes the sketch was given, in that order

callVars == <<length, total, base, expired, early>>
cdcVars == <<configured, peeked, op, callVars, jumped, delivered>>
allVars == <<vars, cdcVars>>

CdcInit ==
    /\ Init
    /\ configured = FALSE /\ peeked = NoChar /\ op = "none"
    /\ length = 0 /\ total = 0 /\ base = 0 /\ expired = FALSE
    /\ early = FALSE /\ jumped = FALSE /\ delivered = <<>>

One(b) == IF b = NoChar THEN <<>> ELSE <<b>>

(* SET_CONFIGURATION, in the USB interrupt: initEP, then _usbConfiguration. *)
Configure ==
    /\ ~configured /\ configured' = TRUE
    /\ UNCHANGED <<vars, peeked, op, callVars, jumped, delivered>>

Host ==
    /\ configured /\ \E n \in 0 .. Size : HostPacket(n)
    /\ UNCHANGED cdcVars

UsbInterrupt == HandleEndpoint /\ UNCHANGED cdcVars

(* readBytes has returned, its locals are no more.                          *)
Forget ==
    /\ length' = 0 /\ total' = 0 /\ base' = 0
    /\ expired' = FALSE /\ early' = FALSE

-----------------------------------------------------------------------------
(* The calls of the sketch.  Before the configuration available reads a     *)
(* byte count of 0 and peek and read answer -1: nothing changes.            *)
SerialAvailable ==
    /\ op = "none" /\ configured
    /\ Call(0) /\ op' = "available"
    /\ UNCHANGED <<configured, peeked, callVars, jumped, delivered>>

SerialPeek ==
    /\ op = "none" /\ peeked = NoChar /\ configured
    /\ Call(1) /\ op' = "peek"
    /\ UNCHANGED <<configured, peeked, callVars, jumped, delivered>>

ReadPeekedMutant ==     \* a bug: the peeked byte is given out and kept
    /\ op = "none" /\ peeked # NoChar
    /\ delivered' = Append(delivered, peeked)
    /\ Len(delivered) < MaxBytes
    /\ UNCHANGED <<vars, configured, peeked, op, callVars, jumped>>

ReadPeeked ==
    /\ op = "none" /\ peeked # NoChar
    /\ delivered' = Append(delivered, peeked) /\ peeked' = NoChar
    /\ UNCHANGED <<vars, configured, op, callVars, jumped>>

ReadEndpoint ==
    /\ op = "none" /\ peeked = NoChar /\ configured
    /\ Call(1) /\ op' = "read"
    /\ UNCHANGED <<configured, peeked, callVars, jumped, delivered>>

SerialRead == ReadPeeked \/ ReadEndpoint

ReadBytes(n) ==
    /\ op = "none" /\ op' = "readBytes"
    /\ length' = n /\ total' = 0 /\ base' = Len(delivered)
    /\ expired' = FALSE /\ early' = ~configured
    /\ jumped' = (jumped \/ peeked # NoChar)
    /\ UNCHANGED <<vars, configured, peeked, delivered>>

Timeout ==
    /\ op = "readBytes" /\ ~expired /\ expired' = TRUE
    /\ UNCHANGED <<vars, configured, peeked, op, length, total, base, early,
                   jumped, delivered>>

(* One round of the loop of readBytes.  An answer of -1 is added to count.  *)
BytesRecv ==
    /\ op = "readBytes" /\ total < length /\ configured
    /\ Call(length - total)
    /\ UNCHANGED cdcVars

BytesUnconfigured ==
    /\ op = "readBytes" /\ total < length /\ ~configured
    /\ total' = (total + Modulus - 1) % Modulus
    /\ UNCHANGED <<vars, configured, peeked, op, length, base, expired, early,
                   jumped, delivered>>

BytesEnd ==
    /\ op = "readBytes" /\ pc = "idle" /\ total >= length
    /\ op' = "none" /\ Forget
    /\ UNCHANGED <<vars, configured, peeked, jumped, delivered>>

-----------------------------------------------------------------------------
(* recv of the endpoint goes on, and its answer comes back to the caller.   *)
Endpoint ==
    /\ Room \/ TestReady \/ CopyByte \/ CopyEnd \/ Release
    /\ UNCHANGED cdcVars

NewBytes == SubSeq(got', Len(got) + 1, Len(got'))

BytesAnswerMutant ==    \* a bug: readBytes counts a byte twice
    /\ op = "readBytes"
    /\ delivered' = delivered \o NewBytes
    /\ IF NewBytes = <<>> /\ expired
       THEN op' = "none" /\ Forget
       ELSE total' = total + 2 * Len(NewBytes)
            /\ UNCHANGED <<op, length, base, expired, early>>
    /\ UNCHANGED peeked

BytesAnswerForever ==   \* a bug: readBytes waits for all it asked for
    /\ op = "readBytes"
    /\ delivered' = delivered \o NewBytes
    /\ total' = total + Len(NewBytes)
    /\ UNCHANGED <<peeked, op, length, base, expired, early>>

BytesAnswer ==
    /\ op = "readBytes"
    /\ delivered' = delivered \o NewBytes
    /\ IF NewBytes = <<>> /\ expired
       THEN op' = "none" /\ Forget
       ELSE total' = total + Len(NewBytes)
            /\ UNCHANGED <<op, length, base, expired, early>>
    /\ UNCHANGED peeked

ByteAnswer ==
    /\ op # "readBytes" /\ op' = "none"
    /\ peeked' = IF op = "peek" /\ NewBytes # <<>> THEN NewBytes[1] ELSE peeked
    /\ delivered' = IF op = "read" THEN delivered \o NewBytes ELSE delivered
    /\ UNCHANGED callVars

EndpointAnswer ==
    /\ Answer
    /\ BytesAnswer \/ ByteAnswer
    /\ UNCHANGED <<configured, jumped>>

-----------------------------------------------------------------------------
CdcStep == \/ Endpoint \/ EndpointAnswer
           \/ BytesRecv \/ BytesUnconfigured \/ BytesEnd

CdcNext ==
    \/ Configure \/ Host \/ UsbInterrupt \/ Timeout
    \/ SerialAvailable \/ SerialPeek \/ SerialRead
    \/ \E n \in 1 .. MaxRead : ReadBytes(n)
    \/ CdcStep

CdcSpec == CdcInit /\ [][CdcNext]_allVars

(* A call goes on, time passes, the interrupt is served, and the sketch     *)
(* goes on calling read whatever else it calls.                             *)
ReadingSpec ==
    /\ CdcSpec
    /\ WF_allVars(UsbInterrupt) /\ WF_allVars(CdcStep) /\ WF_allVars(Timeout)
    /\ SF_allVars(SerialRead)

-----------------------------------------------------------------------------
(* The sketch gets what the endpoint answered, in that order and once,      *)
(* through any mixture of peek and read and readBytes: only a readBytes     *)
(* that ignores a peeked byte (CDC.cpp 241-253) hands out later bytes       *)
(* before it.  With InOrder this is the order in which the host sent.       *)
StreamOrder == ~jumped => delivered \o One(peeked) = got

(* What readBytes has counted, and so what it answers, is what it has put   *)
(* into the caller's buffer, and never more than that holds, over any       *)
(* number of rounds, empty answers and the timeout (CDC.cpp 241-253).  Only *)
(* a call made before the host configured the device counts otherwise: the  *)
(* -1 of recv becomes its count, with nothing in the buffer.                *)
InBuffer == Len(delivered) - base

CountHonest ==
    op = "readBytes" =>
        /\ InBuffer <= length
        /\ \/ total = InBuffer
           \/ early /\ total = Modulus - 1 /\ InBuffer = 0

(* Every byte the host has sent reaches a sketch that goes on reading.      *)
EverythingRead ==
    \A k \in 1 .. MaxBytes :
        (sent >= k) ~> (\E i \in DOMAIN delivered : delivered[i] = k)
=============================================================================
