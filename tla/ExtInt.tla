------------------------------- MODULE ExtInt -------------------------------
(***************************************************************************)
(* External interrupts (cores/arduino/WInterrupts.c): the list of attached  *)
(* lines that attachInterrupt and detachInterrupt change in the sketch and  *)
(* EIC_Handler walks in the interrupt.                                      *)
(*                                                                         *)
(* The handler has the highest priority and runs between any two stores of  *)
(* the sketch, taken in program order; the sketch goes on when it has       *)
(* returned and nothing is pending.  A callback may detach its own line,    *)
(* as long as the sketch is not in the middle of its own call: a sketch     *)
(* that has both masks interrupts around it.                                *)
(***************************************************************************)
EXTENDS Integers, FiniteSets

CONSTANTS
    Lines,      \* the lines in use, each the bit of its mask
    OneShots,   \* those whose callback may detach them
    Versions    \* the callbacks a line may be given

ASSUME ExtIntAssumption == IsFiniteSet(Lines) /\ 0 \notin Lines /\ OneShots \subseteq Lines

Slots == 0..(Cardinality(Lines) - 1)
NoLine == 0
NoCallback == <<NoLine, 0>>

VARIABLES
    ISRlist, ISRcallback,   \* the arrays, by slot
    nints,                  \* slots in use
    sense, enabled, flags,  \* lines in CONFIG, INTENSET, INTFLAG
    pc,                     \* the sketch: step, line, callback, slot
    isr,                    \* the handler: step, slot
    \* history
    attached,               \* line -> the callback it has
    waiting,                \* enabled lines with an event no callback has seen
    late,                   \* the event came between callback and clearing
    torn,                   \* the slot was between its two stores
    shifted                 \* the slot changed under the callback

table == <<ISRlist, ISRcallback, nints>>
eic == <<sense, enabled, flags>>
history == <<attached, waiting, late, torn, shifted>>
vars == <<table, eic, pc, isr, history>>

Idle == [step |-> "idle", line |-> NoLine, callback |-> NoCallback, current |-> 0]
Out == [step |-> "idle", i |-> 0]

Init ==
    /\ ISRlist = [i \in Slots |-> NoLine] /\ ISRcallback = [i \in Slots |-> NoCallback]
    /\ nints = 0
    /\ sense = {} /\ enabled = {} /\ flags = {}
    /\ pc = Idle /\ isr = Out
    /\ attached = [x \in Lines |-> NoCallback]
    /\ waiting = {} /\ late = {} /\ torn = {} /\ shifted = {}

Pending == flags \cap enabled # {}

\* Its slot, or the one behind the last
SlotOf(x) ==
    IF \E i \in 0..(nints - 1) : ISRlist[i] = x
    THEN CHOOSE i \in 0..(nints - 1) : ISRlist[i] = x /\ \A j \in 0..(i - 1) : ISRlist[j] # x
    ELSE nints

Runs(step) == isr = Out /\ ~Pending /\ pc.step = step
Goes(step) == pc' = [pc EXCEPT !.step = step]

-----------------------------------------------------------------------------
(* attachInterrupt *)
Attach(x, f) ==
    /\ Runs("idle")
    /\ pc' = [step |-> IF SlotOf(x) = nints THEN "new" ELSE "list",
              line |-> x, callback |-> f, current |-> SlotOf(x)]
    /\ UNCHANGED <<table, eic, isr, history>>

\* a bug: the new entry is not counted
AttachNewMutant ==
    /\ Runs("new") /\ Goes("list")
    /\ UNCHANGED <<table, eic, isr, history>>

AttachNew ==
    /\ Runs("new") /\ Goes("list")
    /\ nints' = nints + 1
    /\ UNCHANGED <<ISRlist, ISRcallback, eic, isr, history>>

AttachList ==
    /\ Runs("list") /\ Goes("callback")
    /\ ISRlist' = [ISRlist EXCEPT ![pc.current] = pc.line]
    /\ UNCHANGED <<ISRcallback, nints, eic, isr, history>>

AttachCallback ==
    /\ Runs("callback") /\ Goes("enable")
    /\ ISRcallback' = [ISRcallback EXCEPT ![pc.current] = pc.callback]
    /\ attached' = [attached EXCEPT ![pc.line] = pc.callback]
    /\ UNCHANGED <<ISRlist, nints, eic, isr, waiting, late, torn, shifted>>

\* the mode of the line, then its interrupt
AttachEnable ==
    /\ Runs("enable") /\ pc' = Idle
    /\ sense' = sense \union {pc.line}
    /\ enabled' = enabled \union {pc.line}
    /\ UNCHANGED <<table, flags, isr, history>>

-----------------------------------------------------------------------------
(* detachInterrupt: the mode stays, so the flag of the line goes on rising *)
Forget(x) ==
    /\ waiting' = waiting \ {x} /\ late' = late \ {x}
    /\ torn' = torn \ {x} /\ shifted' = shifted \ {x}

Detach(x) ==
    /\ Runs("idle")
    /\ enabled' = enabled \ {x}
    /\ Forget(x)
    /\ pc' = IF SlotOf(x) = nints THEN Idle
             ELSE [step |-> "shift", line |-> x, callback |-> NoCallback,
                   current |-> SlotOf(x)]
    /\ UNCHANGED <<table, sense, flags, isr, attached>>

\* a bug: the last entry is not moved
LastMutant == nints - 2

Last == nints - 1

ShiftList ==
    /\ Runs("shift") /\ pc.current < Last /\ Goes("shiftCallback")
    /\ ISRlist' = [ISRlist EXCEPT ![pc.current] = ISRlist[pc.current + 1]]
    /\ UNCHANGED <<ISRcallback, nints, eic, isr, history>>

ShiftCallback ==
    /\ Runs("shiftCallback")
    /\ ISRcallback' = [ISRcallback EXCEPT ![pc.current] = ISRcallback[pc.current + 1]]
    /\ pc' = [pc EXCEPT !.step = "shift", !.current = @ + 1]
    /\ UNCHANGED <<ISRlist, nints, eic, isr, history>>

DetachEnds ==
    /\ Runs("shift") /\ pc.current >= Last /\ pc' = Idle
    /\ nints' = nints - 1
    /\ attached' = [attached EXCEPT ![pc.line] = NoCallback]
    /\ UNCHANGED <<ISRlist, ISRcallback, eic, isr, waiting, late, torn, shifted>>

\* The same in one step, as a callback does it
Shifted(array, from) ==
    [i \in Slots |-> IF from <= i /\ i < nints - 1 THEN array[i + 1] ELSE array[i]]

-----------------------------------------------------------------------------
(* The lines and EIC_Handler *)

\* an edge, on a line some call has configured
Edge(x) ==
    /\ x \in sense
    /\ flags' = flags \union {x}
    /\ waiting' = IF x \in enabled THEN waiting \union {x} ELSE waiting
    /\ late' = IF x \in enabled /\ isr.step = "clear" /\ ISRlist[isr.i] = x
               THEN late \union {x} ELSE late
    /\ UNCHANGED <<table, sense, enabled, pc, isr, attached, torn, shifted>>

Enter ==
    /\ isr = Out /\ Pending
    /\ isr' = [step |-> "test", i |-> 0]
    /\ UNCHANGED <<table, eic, pc, history>>

Test ==
    /\ isr.step = "test"
    /\ isr' = IF isr.i >= nints THEN Out
              ELSE IF ISRlist[isr.i] \in flags THEN [isr EXCEPT !.step = "call"]
              ELSE [isr EXCEPT !.i = @ + 1]
    /\ UNCHANGED <<table, eic, pc, history>>

\* The slot is new, or being replaced, and has not got its callback yet.
BetweenStores ==
    pc.step \in {"list", "callback", "shiftCallback"} /\ pc.current = isr.i

\* The null pointer is called: the program ends.
Crashed == isr.step = "call" /\ ISRcallback[isr.i] = NoCallback

\* a callback that only returns
Call ==
    /\ isr.step = "call" /\ ~Crashed
    /\ isr' = [isr EXCEPT !.step = "clear"]
    /\ LET x == ISRcallback[isr.i][1]
           y == IF BetweenStores THEN {ISRlist[isr.i]} ELSE {}
       IN  /\ waiting' = waiting \ {x} /\ late' = late \ {x} /\ shifted' = shifted \ {x}
           /\ torn' = (torn \union y) \intersect waiting'
    /\ UNCHANGED <<table, eic, pc, attached>>

\* a callback that detaches its line
CallDetach ==
    LET x == ISRcallback[isr.i][1]
        s == SlotOf(x)
    IN  /\ isr.step = "call" /\ pc = Idle /\ x \in OneShots
        /\ isr' = [isr EXCEPT !.step = "clear"]
        /\ enabled' = enabled \ {x}
        /\ IF s = nints THEN UNCHANGED <<table, attached>>
           ELSE /\ ISRlist' = Shifted(ISRlist, s)
                /\ ISRcallback' = Shifted(ISRcallback, s)
                /\ nints' = nints - 1
                /\ attached' = [attached EXCEPT ![x] = NoCallback]
        /\ waiting' = waiting \ {x} /\ late' = late \ {x} /\ torn' = torn \ {x}
        /\ shifted' = (shifted \union {ISRlist'[isr.i]}) \intersect waiting'
        /\ UNCHANGED <<sense, flags, pc>>

\* a bug: all flags are cleared
ClearedMutant == flags

\* the entry is read again
Cleared == {ISRlist[isr.i]}

Clear ==
    /\ isr.step = "clear"
    /\ flags' = flags \ Cleared
    /\ isr' = [step |-> "test", i |-> isr.i + 1]
    /\ UNCHANGED <<table, sense, enabled, pc, history>>

Handler == Enter \/ Test \/ Call \/ CallDetach \/ Clear

InCall ==
    \/ AttachNew \/ AttachList \/ AttachCallback \/ AttachEnable
    \/ ShiftList \/ ShiftCallback \/ DetachEnds

Next ==
    \/ \E x \in Lines : Detach(x) \/ Edge(x) \/ \E v \in Versions : Attach(x, <<x, v>>)
    \/ InCall \/ Handler

(* The processor runs the handler, and the sketch when there is none. *)
Spec == Init /\ [][Next]_vars /\ WF_vars(Handler) /\ WF_vars(InCall)

-----------------------------------------------------------------------------
(* Properties *)

(* A callback is called only for the line that has it, and only while it    *)
(* has it, although the list moves under the handler: except in a slot      *)
(* between its two stores (WInterrupts.c 129-130, 206-207), where the       *)
(* callback of the line that was there before answers for the new one, or   *)
(* the null pointer does.                                                   *)
OwnCallback ==
    isr.step = "call" => \/ ISRcallback[isr.i] = attached[ISRlist[isr.i]]
                         \/ BetweenStores

(* No edge of an attached line is lost: its flag is up until its callback   *)
(* runs.  The exceptions are three: the flag is cleared after the callback, *)
(* so an edge in between is cleared unseen (226-228); the handler met the   *)
(* slot between its stores; and a callback that detaches its line moves the *)
(* next one into its slot, whose flag is cleared in its stead.              *)
NoEdgeLost == waiting \subseteq flags \union late \union torn \union shifted

(* Every edge gets its callback: an enabled line is in the part of the list *)
(* the handler walks, also while entries move, so the interrupt ends (the   *)
(* null pointer of OwnCallback apart).                                      *)
EdgeServed ==
    \A x \in Lines :
        x \in waiting ~> x \notin waiting \/ x \in late \union torn \union shifted \/ Crashed
=============================================================================
