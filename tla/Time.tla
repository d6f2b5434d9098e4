--------------------------------- MODULE Time ---------------------------------
(***************************************************************************)
(* The SysTick counter and its users: micros and delay of delay.c, and the  *)
(* countdown of Reset.cpp that erases the application when the host closes  *)
(* the port at 1200 baud (Serial_::setup of CDC.cpp).                       *)
(*                                                                         *)
(* Three contexts, each preempting the ones before it: the sketch, the      *)
(* SysTick handler (second lowest priority) and the handlers of highest     *)
(* priority (USB, external interrupts), whose calls are one step.  Every    *)
(* step takes cycles of the processor, which the counter counts: no two     *)
(* reads of it happen at one instant.                                       *)
(*                                                                         *)
(* Time is cyclic: the tick count and the microseconds wrap.                *)
(***************************************************************************)
EXTENDS Integers, FiniteSetsExt

CONSTANTS
    Cycles,         \* cycles of the processor per microsecond
    Ms,             \* microseconds between two ticks
    Scale,          \* 2^20, of the division by Cycles
    CountWrap,      \* 2^32, of _ulTickCount
    Wrap,           \* 2^32, of micros
    Busy,           \* cycles the handlers of highest priority take per tick,
    Handling,       \* cycles of one that does not ask for the time
    MaxDelay,       \* bound: milliseconds of a delay
    ResetTicks,     \* ticks between the request of a reset and the reset
    MaxRequests     \* bound: requests of the host

Period == Cycles * Ms
Horizon == Period * CountWrap

ASSUME TimeAssumption ==
    /\ Cycles \in Nat \ {0} /\ Ms \in Nat \ {0} /\ Scale \in Nat \ {0}
    /\ CountWrap \in Nat \ {0} /\ Wrap \in Nat /\ Ms < Wrap
    /\ (Ms * CountWrap) % Wrap = 0
    /\ Busy \in Nat /\ Handling \in Nat \ {0}
    /\ MaxDelay \in Nat /\ MaxDelay < CountWrap
    /\ ResetTicks \in Nat \ {0} /\ MaxRequests \in Nat

VARIABLES
    \* the counter and its interrupt
    now,            \* cycles since the start, modulo Horizon
    pend,           \* PENDSTSET
    tickCount,      \* _ulTickCount
    sys,            \* the next step of SysTick_Handler
    busy,           \* cycles of the highest handlers in this period
    \* the sketch: micros within delay, and what it reads next
    todo, firstTry, old, new, age,
    ms, start, asked, elapsed,
    \* the reset
    ticks, load,    \* ticks, and its copy in tickReset
    slow, dtr,      \* dwDTERate = 1200, bit 0 of lineState
    requests, erased,
    raced           \* history: the last request fell into tickReset's work on
                    \* a countdown, too late for it

clock == <<now, pend, tickCount, sys, busy>>
reader == <<todo, firstTry, old, new, age>>
delaying == <<ms, start, asked, elapsed>>
line == <<slow, dtr, requests>>
countdown == <<ticks, load, erased, raced>>
timeVars == <<clock, reader, delaying, line, countdown>>

Nothing == [ticks |-> 0, pend |-> FALSE, count |-> 0]

TimeInit ==
    /\ now = 0 /\ pend = FALSE /\ tickCount = 0 /\ sys = "idle" /\ busy = 0
    /\ todo = "idle" /\ firstTry = TRUE
    /\ old = Nothing /\ new = Nothing /\ age = 0
    /\ ms = 0 /\ start = 0 /\ asked = 0 /\ elapsed = 0
    /\ ticks = -1 /\ load = -1 /\ slow = FALSE /\ dtr = FALSE
    /\ requests = 0 /\ erased = FALSE /\ raced = FALSE

-----------------------------------------------------------------------------
(* SysTick counts down from LOAD to zero, pends its interrupt at zero, and  *)
(* starts again.                                                            *)
LOAD == Period - 1
VAL(t) == LOAD - (t % Period)
Expires(n) == \E k \in 1..n : VAL(now + k) = 0

\* n cycles pass; no handler keeps the interrupt waiting for the next one
Pass(n, pending) ==
    /\ ~(pending /\ Expires(n))
    /\ now' = (now + n) % Horizon
    /\ pend' = (pending \/ Expires(n))

\* ... while the sketch is in micros and delay
Wait(n) ==
    /\ age' = IF todo = "idle" THEN 0 ELSE Min({age + n, Horizon})
    /\ elapsed' = IF todo = "idle" THEN 0 ELSE Min({elapsed + n, Horizon})
    /\ UNCHANGED <<todo, firstTry, old, new, ms, start, asked>>

-----------------------------------------------------------------------------
(* micros: readings of counter, pending flag and tick count                 *)

\* a bug: the counter may have started again between the readings
StableMutant(a, b) == a.pend = b.pend /\ a.count = b.count

Stable(a, b) == a.pend = b.pend /\ a.count = b.count /\ a.ticks >= b.ticks

\* the division by Cycles as a multiplication and a shift
Scaled(n) == (n * (Scale \div Cycles)) \div Scale
Ticked(r) == r.count + (IF r.pend THEN 1 ELSE 0)
Micros(r) == (Ticked(r) * Ms + Scaled(LOAD - r.ticks)) % Wrap

(* Calls of handlers of highest priority: the readings follow each other,   *)
(* and count keeps its value.                                               *)
IsrReading(k) ==
    [ticks |-> VAL(now + 2 * k + 1),
     pend |-> pend \/ Expires(2 * k + 2),
     count |-> tickCount]
IsrTries == Min({k \in 0..3 : Stable(IsrReading(k), IsrReading(k + 1))})
IsrCost == 2 * IsrTries + 4

IsrMicros ==
    /\ ~erased
    /\ busy + IsrCost <= Busy
    /\ busy' = busy + IsrCost
    /\ Pass(IsrCost, pend) /\ Wait(IsrCost)
    /\ UNCHANGED <<tickCount, sys, line, countdown>>

\* any other work of such a handler
IsrWork ==
    /\ ~erased
    /\ busy + Handling <= Busy
    /\ busy' = busy + Handling
    /\ Pass(Handling, pend) /\ Wait(Handling)
    /\ UNCHANGED <<tickCount, sys, line, countdown>>

-----------------------------------------------------------------------------
(* The sketch                                                               *)
(* A pending interrupt is taken before the next instruction, the one of the *)
(* cycle in which it pends excepted.                                        *)
Sketch == sys = "idle" /\ ~erased /\ (pend => VAL(now) = 0)
Step ==
    /\ Sketch /\ Pass(1, pend)
    /\ UNCHANGED <<tickCount, sys, busy, line, countdown>>
InMicros ==
    /\ todo # "idle"
    /\ age' = Min({age + 1, Horizon}) /\ elapsed' = Min({elapsed + 1, Horizon})
    /\ UNCHANGED <<ms, start, asked>>

Work ==
    /\ todo = "idle"
    /\ Step /\ UNCHANGED <<reader, delaying>>

\* delay(n), which asks micros for its start.  Two bounds: it starts within
\* the last tick before the wrap, and before the host's requests.
Delay(n) ==
    /\ todo = "idle" /\ tickCount = CountWrap - 1 /\ requests = 0 /\ Step
    /\ todo' = "val" /\ ms' = n /\ asked' = n /\ start' = -1
    /\ UNCHANGED <<firstTry, old, new, age, elapsed>>

ReadVal ==
    /\ todo = "val" /\ Step /\ InMicros
    /\ todo' = "pend"
    /\ old' = new
    /\ new' = [Nothing EXCEPT !.ticks = VAL(now)]
    /\ UNCHANGED firstTry

ReadPend ==
    /\ todo = "pend" /\ Step /\ InMicros
    /\ todo' = "count"
    /\ new' = [new EXCEPT !.pend = pend]
    /\ UNCHANGED <<firstTry, old>>

ThisReading == [new EXCEPT !.count = tickCount]

\* the first reading, or one that disagrees with the one before it
ReadAgain ==
    /\ todo = "count" /\ (firstTry \/ ~Stable(old, ThisReading))
    /\ Step /\ InMicros
    /\ todo' = "val" /\ firstTry' = FALSE
    /\ old' = Nothing /\ new' = ThisReading

\* a bug: the comparison does not wrap
NextMsMutant(r) ==
    IF r >= start + Ms
    THEN /\ ms' = ms - 1
         /\ start' = IF ms = 1 THEN 0 ELSE (start + Ms) % Wrap
    ELSE UNCHANGED <<ms, start>>

\* one of the milliseconds has passed; after the last, start is gone
NextMs(r) ==
    IF (r - start) % Wrap >= Ms
    THEN /\ ms' = ms - 1
         /\ start' = IF ms = 1 THEN 0 ELSE (start + Ms) % Wrap
    ELSE UNCHANGED <<ms, start>>

\* micros returns to delay, which starts, or goes on until ms is zero
ReadDone ==
    /\ todo = "count" /\ ~firstTry /\ Stable(old, ThisReading)
    /\ Step
    /\ firstTry' = TRUE /\ old' = Nothing /\ new' = Nothing /\ age' = 0
    /\ IF start = -1
       THEN start' = Micros(old) /\ ms' = ms
       ELSE NextMs(Micros(old))
    /\ todo' = IF ms' = 0 THEN "idle" ELSE "val"
    /\ asked' = IF ms' = 0 THEN 0 ELSE asked
    /\ elapsed' = IF ms' = 0 THEN 0 ELSE Min({elapsed + 1, Horizon})

-----------------------------------------------------------------------------
(* SysTick_Handler; sysTickHook is the sketch's and returns false.          *)
Tick(pending) == Pass(1, pending) /\ Wait(1) /\ UNCHANGED line

Enter ==
    /\ pend /\ sys = "idle" /\ ~erased
    /\ sys' = "count" /\ busy' = 0
    /\ Tick(FALSE)
    /\ UNCHANGED <<tickCount, countdown>>

Count ==
    /\ sys = "count"
    /\ tickCount' = (tickCount + 1) % CountWrap
    /\ sys' = "reset"
    /\ Tick(pend)
    /\ UNCHANGED <<busy, countdown>>

\* tickReset: ticks is tested and read ...
TestReset ==
    /\ sys = "reset"
    /\ IF ticks = -1 THEN sys' = "idle" /\ UNCHANGED load
                     ELSE sys' = "store" /\ load' = ticks
    /\ Tick(pend)
    /\ UNCHANGED <<busy, tickCount, ticks, erased, raced>>

\* ... and written back, decremented, the copy tested for zero ...
TickReset ==
    /\ sys = "store"
    /\ ticks' = load - 1 /\ load' = -1
    /\ sys' = IF load - 1 = 0 THEN "banzai" ELSE "idle"
    /\ Tick(pend)
    /\ UNCHANGED <<busy, tickCount, erased, raced>>

\* ... which banzai does not look at again: with interrupts masked, it erases
Banzai ==
    /\ sys = "banzai"
    /\ erased' = TRUE /\ sys' = "idle"
    /\ Tick(pend)
    /\ UNCHANGED <<busy, tickCount, ticks, load, raced>>

SysTick == Enter \/ Count \/ TestReset \/ TickReset \/ Banzai

-----------------------------------------------------------------------------
(* Serial_::setup: the host sets the rate, or opens or closes the port.     *)
(* (After the delays, a bound: the countdown and delay share nothing.)      *)

\* a bug: an opened port does not stop the countdown
SetupMutant(rate, open) ==
    /\ ~erased /\ todo = "idle" /\ requests < MaxRequests
    /\ busy + Handling <= Busy
    /\ requests' = requests + 1
    /\ slow' = rate /\ dtr' = open
    /\ ticks' = IF rate /\ ~open THEN ResetTicks ELSE ticks
    /\ raced' = (sys \in {"store", "banzai"})
    /\ busy' = busy + Handling
    /\ Pass(Handling, pend) /\ Wait(Handling)
    /\ UNCHANGED <<tickCount, sys, load, erased>>

Setup(rate, open) ==
    /\ ~erased /\ todo = "idle" /\ requests < MaxRequests
    /\ busy + Handling <= Busy
    /\ requests' = requests + 1
    /\ slow' = rate /\ dtr' = open
    /\ ticks' = IF rate /\ ~open THEN ResetTicks ELSE -1
    /\ raced' = (sys \in {"store", "banzai"})
    /\ busy' = busy + Handling
    /\ Pass(Handling, pend) /\ Wait(Handling)
    /\ UNCHANGED <<tickCount, sys, load, erased>>

SetLineCoding(rate) == Setup(rate, dtr)
SetControlLineState(open) == Setup(slow, open)

Running ==
    \/ Work
    \/ \E n \in 1..MaxDelay : Delay(n)
    \/ ReadVal \/ ReadPend \/ ReadAgain \/ ReadDone
    \/ SysTick

TimeNext ==
    \/ Running
    \/ IsrMicros \/ IsrWork
    \/ \E b \in BOOLEAN : SetLineCoding(b) \/ SetControlLineState(b)

(* The processor runs. *)
TimeSpec == TimeInit /\ [][TimeNext]_timeVars /\ WF_timeVars(Running)

-----------------------------------------------------------------------------
\* the time d cycles ago
Microseconds(d) == (((now - d) % Horizon) \div Cycles) % Wrap

\* r was the time within the last a cycles, or one before them, which the
\* shift rounds away
WithinCall(r, a) == \E d \in 0..(a + 1) : r = Microseconds(d)

IsrAnswer == Micros(IsrReading(IsrTries))
IsrExact == \E d \in -IsrCost..1 : IsrAnswer = Microseconds(d)

(* micros returns a time between its call and its return, whatever handlers *)
(* and the interrupt of the counter do between the reads (delay.c 44-62);   *)
(* also the micros of a handler that keeps SysTick waiting, unless it       *)
(* interrupted SysTick_Handler before it counts.                            *)
MicrosExact ==
    [][/\ ReadDone => WithinCall(Micros(old), age)
       /\ IsrMicros /\ sys # "count" => IsrExact]_timeVars

(* delay does not return before its milliseconds are over, less the         *)
(* microsecond the start was rounded by (delay.c 64-82).                    *)
DelayLasts ==
    [][todo # "idle" /\ todo' = "idle"
          => elapsed >= (asked * Ms - 1) * Cycles - 1]_timeVars

(* delay returns: micros gets two readings that agree, and the wrapped      *)
(* differences add up.                                                      *)
DelayReturns == (todo # "idle") ~> (todo = "idle" \/ erased)

(* The application is erased only while the host keeps the port closed at   *)
(* 1200 baud, unless its last request fell between tickReset's read of      *)
(* ticks and the masking of the interrupts in banzai: before the write the  *)
(* countdown goes on although it is cancelled, after it, at zero, nothing   *)
(* looks at ticks again (Reset.cpp 42-44 and 75-86, CDC.cpp 157-169).       *)
EraseWanted == erased => raced \/ (slow /\ ~dtr)

=============================================================================
