-------------------------------- MODULE UsbIn --------------------------------
(***************************************************************************)
(* A bulk IN endpoint of the USB device: USBDeviceClass::send and clear of  *)
(* cores/arduino/USB/USBCore.cpp, under Serial_::write of CDC.cpp.          *)
(*                                                                         *)
(* The sketch fills the only bank and hands it to the hardware (BK1RDY);    *)
(* the host takes it when it polls, and the hardware gives it back and sets *)
(* TRCPT1.  The endpoint has no handler, so every USB interrupt, one at the *)
(* latest every millisecond, acknowledges all its flags.                    *)
(*                                                                         *)
(* Bytes are numbered in the order the sketch writes them.  Names differ    *)
(* from those of UsbOut, the other direction of the same device.            *)
(***************************************************************************)
EXTENDS Integers, Sequences, SequencesExt

CONSTANTS
    InSize,         \* EPX_SIZE: the bytes of a packet
    MaxLen,         \* bound: the bytes of one send
    MaxIn,          \* bound: the bytes the sketch sends
    MaxClear        \* bound: the calls of clear

ASSUME InAssumption ==
    /\ InSize \in Nat \ {0} /\ MaxLen \in Nat \ {0}
    /\ MaxIn \in Nat /\ MaxClear \in Nat

VARIABLES
    buf,            \* udd_ep_in_cache_buffer
    inCount,        \* BYTE_COUNT of bank 1
    bk1Rdy,         \* BK1RDY: the bank is the hardware's
    trcpt1,         \* EPINTFLAG.TRCPT1
    flight,         \* bytes of the packet on the wire, -1 when there is none
    hostGot,        \* the bytes the host received
    timedOut,       \* LastTransmitTimedOut
    inPc, rest,     \* the call in progress: next step, bytes still to send
    next, clears,   \* bytes written, calls of clear
    \* history
    dropped,        \* bytes given up in a bank or in a call that failed
    stolen,         \* an interrupt acknowledged the completion send waits for
    overtaken           \* clear was called while the bank was the hardware's

inHw == <<bk1Rdy, trcpt1, flight, hostGot>>
call == <<inPc, rest, next, clears>>
history == <<dropped, stolen, overtaken>>
inVars == <<buf, inCount, inHw, timedOut, call, history>>

InInit ==
    /\ buf = [i \in 1..InSize |-> 0] /\ inCount = 0
    /\ bk1Rdy = FALSE /\ trcpt1 = FALSE /\ flight = -1 /\ hostGot = <<>>
    /\ timedOut = FALSE
    /\ inPc = "idle" /\ rest = <<>> /\ next = 0 /\ clears = 0
    /\ dropped = {} /\ stolen = FALSE /\ overtaken = FALSE

-----------------------------------------------------------------------------
(* The hardware and the host.  BYTE_COUNT is read when the packet begins,   *)
(* the bytes while it is on the wire.                                       *)

HostPolls ==
    /\ bk1Rdy /\ flight = -1
    /\ flight' = inCount
    /\ UNCHANGED <<buf, inCount, bk1Rdy, trcpt1, hostGot, timedOut, call,
                   history>>

Completes ==
    /\ flight # -1
    /\ hostGot' = hostGot \o SubSeq(buf, 1, flight)
    /\ flight' = -1 /\ bk1Rdy' = FALSE /\ trcpt1' = TRUE
    /\ UNCHANGED <<buf, inCount, timedOut, call, history>>

\* ISRHandler, on a start of frame or on any other endpoint's interrupt.
Interrupt ==
    /\ trcpt1
    /\ trcpt1' = FALSE
    /\ stolen' = (stolen \/ inPc \in {"poll", "tick"})
    /\ UNCHANGED <<buf, inCount, bk1Rdy, flight, hostGot, timedOut, call,
                   dropped, overtaken>>

-----------------------------------------------------------------------------
(* The bytes of the bank the host can still receive.                        *)
InBank ==
    IF flight # -1 THEN ToSet(SubSeq(buf, 1, flight))
    ELSE IF bk1Rdy THEN ToSet(SubSeq(buf, 1, inCount)) ELSE {}

\* What SetByteCount(0) takes out of the bank: a packet on the wire is safe.
Discarded == IF flight # -1 THEN {} ELSE InBank

(* USBDeviceClass::send *)

Send(n) ==
    /\ inPc = "idle" /\ next + n <= MaxIn
    /\ rest' = [i \in 1..n |-> next + i]
    /\ next' = next + n /\ inPc' = "test"
    /\ UNCHANGED <<buf, inCount, inHw, timedOut, clears, history>>

\* a bug: the flag is awaited also when no transfer is in progress
TestBankMutant ==
    /\ inPc = "test"
    /\ inPc' = "poll"
    /\ UNCHANGED <<buf, inCount, inHw, timedOut, rest, next, clears, history>>

TestBank ==
    /\ inPc = "test"
    /\ inPc' = IF bk1Rdy THEN "poll" ELSE "copy"
    /\ UNCHANGED <<buf, inCount, inHw, timedOut, rest, next, clears, history>>

\* a bug: the flag of the completion is not looked at
PollMutant ==
    /\ inPc = "poll"
    /\ inPc' = "copy"
    /\ UNCHANGED <<buf, inCount, inHw, timedOut, rest, next, clears, history>>

Poll ==
    /\ inPc = "poll"
    /\ inPc' = IF trcpt1 THEN "copy" ELSE "tick"
    /\ UNCHANGED <<buf, inCount, inHw, timedOut, rest, next, clears, history>>

\* The wait has lasted TX_TIMEOUT_MS, or the last transmission timed out.
GiveUp ==
    /\ inPc = "tick"
    /\ timedOut' = TRUE /\ inCount' = 0
    /\ dropped' = dropped \cup Discarded \cup ToSet(rest)
    /\ stolen' = FALSE
    /\ inPc' = "idle" /\ rest' = <<>>
    /\ UNCHANGED <<buf, inHw, next, clears, overtaken>>

WaitOn ==
    /\ inPc = "tick" /\ ~timedOut
    /\ inPc' = "poll"
    /\ UNCHANGED <<buf, inCount, inHw, timedOut, rest, next, clears, history>>

chunk == IF Len(rest) < InSize THEN Len(rest) ELSE InSize

Copy ==
    /\ inPc = "copy"
    /\ timedOut' = FALSE
    /\ buf' = [i \in 1..InSize |-> IF i <= chunk THEN rest[i] ELSE buf[i]]
    /\ inPc' = "count" /\ stolen' = FALSE
    /\ UNCHANGED <<inCount, inHw, rest, next, clears, dropped, overtaken>>

SetByteCount ==
    /\ inPc = "count"
    /\ inCount' = chunk /\ inPc' = "ack"
    /\ UNCHANGED <<buf, inHw, timedOut, rest, next, clears, history>>

\* a bug: the flag of the previous packet is left set
AckMutant ==
    /\ inPc = "ack"
    /\ inPc' = "arm"
    /\ UNCHANGED <<buf, inCount, inHw, timedOut, rest, next, clears, history>>

AckTransferComplete ==
    /\ inPc = "ack"
    /\ trcpt1' = FALSE /\ inPc' = "arm"
    /\ UNCHANGED <<buf, inCount, bk1Rdy, flight, hostGot, timedOut, rest, next,
                   clears, history>>

SetReady ==
    /\ inPc = "arm"
    /\ bk1Rdy' = TRUE
    /\ rest' = SubSeq(rest, chunk + 1, Len(rest))
    /\ inPc' = IF Len(rest) > chunk THEN "test" ELSE "idle"
    /\ UNCHANGED <<buf, inCount, trcpt1, flight, hostGot, timedOut, next,
                   clears, history>>

\* USBDeviceClass::clear, which goes on with the last two steps of send.
Clear ==
    /\ inPc = "idle" /\ clears < MaxClear
    /\ inCount' = 0 /\ inPc' = "ack" /\ clears' = clears + 1
    /\ dropped' = dropped \cup Discarded
    /\ overtaken' = (overtaken \/ bk1Rdy)
    /\ UNCHANGED <<buf, inHw, timedOut, rest, next, stolen>>

-----------------------------------------------------------------------------
SendStep ==
    \/ TestBank \/ Poll \/ GiveUp \/ WaitOn
    \/ Copy \/ SetByteCount \/ AckTransferComplete \/ SetReady

InNext ==
    \/ HostPolls \/ Completes \/ Interrupt
    \/ \E n \in 1..MaxLen : Send(n)
    \/ Clear
    \/ SendStep

(* The processor goes on, the wait comes to its end, and a packet on the    *)
(* wire ends.  The host need not poll.                                      *)
Fairness == WF_inVars(SendStep) /\ SF_inVars(GiveUp) /\ WF_inVars(Completes)

InSpec == InInit /\ [][InNext]_inVars /\ Fairness

-----------------------------------------------------------------------------
Bytes == 1..MaxIn

(* The state keeps its types, and a count never exceeds a packet.           *)
InTypeOK ==
    /\ buf \in [1..InSize -> 0..MaxIn]
    /\ inCount \in 0..InSize /\ flight \in -1..InSize
    /\ bk1Rdy \in BOOLEAN /\ trcpt1 \in BOOLEAN /\ timedOut \in BOOLEAN
    /\ hostGot \in Seq(0..MaxIn) /\ rest \in Seq(Bytes) /\ Len(rest) <= MaxLen
    /\ inPc \in {"idle", "test", "poll", "tick", "copy", "count", "ack", "arm"}
    /\ next \in 0..MaxIn /\ clears \in 0..MaxClear
    /\ dropped \subseteq 0..MaxIn
    /\ stolen \in BOOLEAN /\ overtaken \in BOOLEAN

(* The host receives every byte at most once and in the order of the        *)
(* writes, whatever times out (USBCore.cpp 617-660): the bank is not        *)
(* rewritten while the hardware sends it.  A clear that overtakes the       *)
(* hardware leaves a stale TRCPT1 behind (lines 451-460 look at nothing),   *)
(* and then bytes may go out twice or not at all.                           *)
HostStream ==
    ~overtaken => \A i, j \in DOMAIN hostGot : i < j => hostGot[i] < hostGot[j]

(* A byte the sketch wrote has been received, is in the bank or still to be *)
(* sent, or was given up by a call that answered -1.                        *)
NothingElseLost ==
    ~overtaken =>
        1..next \subseteq ToSet(hostGot) \cup InBank \cup ToSet(rest) \cup dropped

(* send gives up for a host that does not poll, and not for one that does:  *)
(* unless an interrupt took the flag it waits for (USBCore.cpp 910-914) or  *)
(* the packet ended within the last look at the flag and the end of the     *)
(* wait, the bank is then still the hardware's.                             *)
GivesUpForHost ==
    [][GiveUp => bk1Rdy \/ trcpt1 \/ stolen \/ overtaken]_inVars

=============================================================================
