--------------------------- MODULE ExtInt_proofs ---------------------------
(***************************************************************************)
(* Proofs about ExtInt for every set of lines and callbacks: while the list *)
(* moves, the handler calls each line's own callback, and loses no edge but *)
(* those of the named windows.                                              *)
(***************************************************************************)
EXTENDS ExtInt, FiniteSetTheorems, TLAPS

Callbacks == (Lines \X Versions) \cup {NoCallback}
Walked == 0..(nints - 1)

(* The slot a call is working on: its line may be a second time in the      *)
(* list, or not yet in it.                                                  *)
Changing == {"list", "callback", "shift", "shiftCallback"}
Open(i) == pc.step \in Changing /\ pc.current = i
HalfStored(i) == pc.step \in {"list", "callback", "shiftCallback"} /\ pc.current = i

Types ==
    /\ ISRlist \in [Slots -> Lines \cup {NoLine}]
    /\ ISRcallback \in [Slots -> Callbacks]
    /\ nints \in 0..Cardinality(Lines)
    /\ attached \in [Lines -> Callbacks]
    /\ pc \in [step : Changing \cup {"idle", "new", "enable"}, line : Lines \cup {NoLine},
               callback : Callbacks, current : Nat]
    /\ isr \in [step : {"idle", "test", "call", "clear"}, i : Nat]
    /\ sense \subseteq Lines /\ enabled \subseteq Lines /\ flags \subseteq Lines

(* Where the call in progress is.                                           *)
Placed ==
    /\ pc.step # "idle" => pc.line \in Lines
    /\ pc.step \in {"new", "list", "callback"} => pc.callback \in {pc.line} \X Versions
    /\ pc.step = "new" => pc.current = nints
    /\ pc.step \in Changing => pc.current < nints
    /\ pc.step = "callback" => ISRlist[pc.current] = pc.line
    /\ pc.step = "shiftCallback" =>
           pc.current < nints - 1 /\ ISRlist[pc.current] = ISRlist[pc.current + 1]

(* No line has two slots, and the line of the call has only the open one.   *)
Distinct ==
    /\ \A i, j \in Walked :
           i # j /\ ~Open(i) /\ ~Open(j) => ISRlist[i] # ISRlist[j]
    /\ pc.step \in Changing \cup {"new"} =>
           \A i \in Walked : ~Open(i) => ISRlist[i] # pc.line

(* A slot has the callback of its line.                                     *)
Agree ==
    /\ \A i \in Walked :
           ~HalfStored(i) => ISRlist[i] \in Lines /\ ISRcallback[i] = attached[ISRlist[i]]
    /\ \A x \in Lines : attached[x] \in ({x} \X Versions) \cup {NoCallback}

(* The handler calls for an entry of the list, and clears what it has seen. *)
Serving ==
    /\ isr.step = "call" => isr.i \in Walked
    /\ isr.step = "clear" =>
           isr.i \in Slots /\ (ISRlist[isr.i] \in waiting =>
                                   ISRlist[isr.i] \in late \cup torn \cup shifted)

IInv == Types /\ Placed /\ Distinct /\ Agree /\ Serving /\ NoEdgeLost

LEMMA CardinalityNat == Cardinality(Lines) \in Nat /\ IsFiniteSet(Lines)
  BY FS_CardinalityType, ExtIntAssumption

LEMMA InitIInv == Init => IInv
  <1> SUFFICES ASSUME Init PROVE IInv
    OBVIOUS
  <1>1. Types
    BY CardinalityNat
    DEF Init, Types, Callbacks, Changing, Idle, Out, NoCallback, NoLine
  <1>2. Placed /\ Distinct /\ Agree /\ Serving /\ NoEdgeLost
    BY DEF Init, Placed, Distinct, Agree, Serving, NoEdgeLost, Walked, Open,
           HalfStored, Changing, Idle, Out
  <1>3. QED
    BY <1>1, <1>2 DEF IInv

(* A list without a line twice has one slot for a line, or none.            *)
LEMMA SlotOfFinds ==
  ASSUME Types, Distinct, pc.step = "idle", NEW x \in Lines
  PROVE  /\ SlotOf(x) \in 0..nints
         /\ SlotOf(x) # nints => SlotOf(x) \in Walked /\ ISRlist[SlotOf(x)] = x
         /\ \A i \in Walked : i # SlotOf(x) => ISRlist[i] # x
  <1>0. nints \in Nat
    BY CardinalityNat DEF Types
  <1>1. \A i, j \in Walked : i # j => ISRlist[i] # ISRlist[j]
    BY DEF Distinct, Open, Changing
  <1>2. CASE \E i \in Walked : ISRlist[i] = x
    <2> DEFINE P(i) == i \in Walked /\ ISRlist[i] = x /\ \A j \in 0..(i - 1) : ISRlist[j] # x
    <2>1. PICK i \in Walked : ISRlist[i] = x
      BY <1>2
    <2>2. \A j \in 0..(i - 1) : j \in Walked /\ j # i
      BY <1>0 DEF Walked
    <2>3. P(i)
      BY <1>1, <2>1, <2>2
    <2>4. SlotOf(x) = CHOOSE k \in Walked : ISRlist[k] = x /\ \A j \in 0..(k - 1) : ISRlist[j] # x
      BY <1>2 DEF SlotOf, Walked
    <2>5. SlotOf(x) \in Walked /\ ISRlist[SlotOf(x)] = x
      BY <2>3, <2>4
    <2>6. QED
      BY <1>0, <1>1, <2>5 DEF Walked
  <1>3. CASE ~ \E i \in Walked : ISRlist[i] = x
    BY <1>0, <1>3 DEF SlotOf, Walked
  <1>4. QED
    BY <1>2, <1>3

(* There is room for one more line: the entries are lines, each once.       *)
LEMMA RoomForNew ==
  ASSUME Types, Placed, Distinct, Agree, pc.step = "new"
  PROVE  nints < Cardinality(Lines)
  <1> DEFINE L == Lines \ {pc.line}
             f == [i \in Walked |-> ISRlist[i]]
  <1>0. nints \in Nat /\ Cardinality(Lines) \in Nat
    BY CardinalityNat DEF Types
  <1>1. \A i \in Walked : ISRlist[i] \in L
    BY DEF Distinct, Agree, Open, HalfStored, Changing
  <1>2. \A i, j \in Walked : i # j => f[i] # f[j]
    BY DEF Distinct, Open, Changing
  <1>3. IsFiniteSet(L) /\ Cardinality(L) = Cardinality(Lines) - 1
    BY FS_RemoveElement, CardinalityNat DEF Placed
  <1>4. IsFiniteSet(Walked) /\ Cardinality(Walked) = nints
    <2>1. 0 \in Int /\ nints - 1 \in Int
      BY <1>0
    <2>2. /\ IsFiniteSet(0..(nints - 1))
          /\ Cardinality(0..(nints - 1)) = IF 0 > nints - 1 THEN 0 ELSE nints - 1 - 0 + 1
      BY <2>1, FS_Interval
    <2>3. (IF 0 > nints - 1 THEN 0 ELSE nints - 1 - 0 + 1) = nints
      BY <1>0
    <2>4. QED
      BY <2>2, <2>3 DEF Walked
  <1>5. f \in [Walked -> L]
    BY <1>1
  <1>6. ~(Cardinality(L) < Cardinality(Walked))
    <2> HIDE DEF L, f
    <2>1. SUFFICES ASSUME Cardinality(L) < Cardinality(Walked) PROVE FALSE
      OBVIOUS
    <2>2. \E x, y \in Walked : x # y /\ f[x] = f[y]
      BY FS_PigeonHole, <1>3, <1>4, <1>5, <2>1
    <2>3. QED
      BY <2>2, <1>2
  <1>7. QED
    BY <1>0, <1>3, <1>4, <1>6

-----------------------------------------------------------------------------
LEMMA AttachIInv ==
  ASSUME IInv, NEW x \in Lines, NEW v \in Versions, Attach(x, <<x, v>>)
  PROVE  IInv'
  <1>1. pc.step = "idle" /\ nints \in Nat /\ NoLine \notin Lines
    BY CardinalityNat, ExtIntAssumption DEF Attach, Runs, IInv, Types, NoLine
  <1>2. /\ SlotOf(x) \in 0..nints
        /\ \A i \in Walked : i # SlotOf(x) => ISRlist[i] # x
    BY <1>1, SlotOfFinds DEF IInv
  <1>3. /\ UNCHANGED <<table, eic, isr, history>>
        /\ pc' = [step |-> IF SlotOf(x) = nints THEN "new" ELSE "list",
                  line |-> x, callback |-> <<x, v>>, current |-> SlotOf(x)]
    BY DEF Attach
  <1>4. Types'
    BY <1>1, <1>2, <1>3
    DEF IInv, Types, Callbacks, Changing, table, eic, history, Slots
  <1>5. Placed'
    BY <1>1, <1>2, <1>3 DEF Placed, Changing, table
  <1>6. Distinct'
    BY <1>1, <1>2, <1>3 DEF IInv, Distinct, Open, Changing, Walked, table
  <1>7. Agree' /\ Serving' /\ NoEdgeLost'
    BY <1>1, <1>3 DEF IInv, Agree, Serving, NoEdgeLost, HalfStored, Walked, Slots,
                      table, eic, history
  <1>8. QED
    BY <1>4, <1>5, <1>6, <1>7 DEF IInv

LEMMA NewEntryIInv ==
  ASSUME IInv, AttachNew \/ AttachList \/ AttachCallback \/ AttachEnable
  PROVE  IInv'
  <1> USE DEF IInv
  <1>0. nints \in Nat /\ Cardinality(Lines) \in Nat /\ pc.current \in Nat
    BY CardinalityNat DEF Types
  <1>1. CASE AttachNew
    <2>1. /\ pc.step = "new" /\ pc' = [pc EXCEPT !.step = "list"] /\ nints' = nints + 1
          /\ UNCHANGED <<ISRlist, ISRcallback, eic, isr, history>>
      BY <1>1 DEF AttachNew, Runs, Goes
    <2>2. nints < Cardinality(Lines)
      BY <2>1, RoomForNew
    <2>3. Types'
      BY SMTT(30), <1>0, <2>1, <2>2 DEF Types, Changing, eic, history, Slots, Callbacks
    <2>4. Placed'
      BY <1>0, <2>1 DEF Placed, Types, Changing
    <2>5. Distinct' /\ Agree'
      BY SMTT(30), <1>0, <2>1
      DEF Placed, Distinct, Agree, Types, Open, HalfStored, Changing, Walked, history
    <2>6. Serving' /\ NoEdgeLost'
      BY <1>0, <1>1, <2>1 DEF AttachNew, Runs, Out, Serving, NoEdgeLost, eic, history
    <2>7. QED
      BY <2>3, <2>4, <2>5, <2>6
  <1>2. CASE AttachList
    <2>1. /\ pc.step = "list" /\ pc' = [pc EXCEPT !.step = "callback"]
          /\ ISRlist' = [ISRlist EXCEPT ![pc.current] = pc.line]
          /\ isr = Out
          /\ UNCHANGED <<ISRcallback, nints, eic, isr, history>>
      BY <1>2 DEF AttachList, Runs, Goes
    <2>2. pc.current \in Walked /\ Walked \subseteq Slots /\ pc.line \in Lines
      BY <1>0, <2>1 DEF Placed, Changing, Walked, Slots, Types
    <2>3. Types'
      BY <1>0, <2>1, <2>2 DEF Types, Changing, eic, history, Slots, Callbacks
    <2>4. Placed'
      BY <1>0, <2>1, <2>2 DEF Placed, Types, Changing
    <2>5. Distinct' /\ Agree'
      BY <1>0, <2>1, <2>2
      DEF Placed, Distinct, Agree, Types, Open, HalfStored, Changing, Walked, history
    <2>6. Serving' /\ NoEdgeLost'
      BY <2>1 DEF Out, Serving, NoEdgeLost, eic, history
    <2>7. QED
      BY <2>3, <2>4, <2>5, <2>6
  <1>3. CASE AttachCallback
    <2>1. /\ pc.step = "callback" /\ pc' = [pc EXCEPT !.step = "enable"]
          /\ ISRcallback' = [ISRcallback EXCEPT ![pc.current] = pc.callback]
          /\ attached' = [attached EXCEPT ![pc.line] = pc.callback]
          /\ isr = Out
          /\ UNCHANGED <<ISRlist, nints, eic, isr, waiting, late, torn, shifted>>
      BY <1>3 DEF AttachCallback, Runs, Goes
    <2>2. /\ pc.current \in Walked /\ Walked \subseteq Slots /\ pc.line \in Lines
          /\ ISRlist[pc.current] = pc.line /\ pc.callback \in {pc.line} \X Versions
      BY <1>0, <2>1 DEF Placed, Changing, Walked, Slots, Types
    <2>3. Types'
      BY <1>0, <2>1, <2>2 DEF Types, Changing, eic, Slots, Callbacks
    <2>4. Placed'
      BY <1>0, <2>1, <2>2 DEF Placed, Types, Changing
    <2>5. Distinct'
      BY <1>0, <2>1, <2>2 DEF Placed, Distinct, Types, Open, Changing, Walked
    <2>6. Agree'
      BY <1>0, <2>1, <2>2
      DEF Placed, Distinct, Agree, Types, Open, HalfStored, Changing, Walked
    <2>7. Serving' /\ NoEdgeLost'
      BY <2>1 DEF Out, Serving, NoEdgeLost, eic
    <2>8. QED
      BY <2>3, <2>4, <2>5, <2>6, <2>7
  <1>4. CASE AttachEnable
    <2>1. /\ pc.step = "enable" /\ pc' = Idle /\ isr = Out
          /\ sense' = sense \cup {pc.line} /\ enabled' = enabled \cup {pc.line}
          /\ UNCHANGED <<table, flags, isr, history>>
      BY <1>4 DEF AttachEnable, Runs
    <2>2. Types'
      BY <1>0, <2>1 DEF Types, Placed, Changing, table, history, Slots, Callbacks, Idle
    <2>3. Placed' /\ Distinct' /\ Agree' /\ Serving' /\ NoEdgeLost'
      BY <1>0, <2>1
      DEF Placed, Distinct, Agree, Serving, NoEdgeLost, Types, Open, HalfStored,
          Changing, Walked, table, history, Idle, Out
    <2>4. QED
      BY <2>2, <2>3
  <1>5. QED
    BY <1>1, <1>2, <1>3, <1>4

-----------------------------------------------------------------------------
LEMMA DetachIInv ==
  ASSUME IInv, NEW x \in Lines, Detach(x)
  PROVE  IInv'
  <1>1. /\ pc.step = "idle" /\ nints \in Nat /\ isr = Out
    BY CardinalityNat DEF Detach, Runs, IInv, Types
  <1>2. /\ SlotOf(x) \in 0..nints
        /\ \A i \in Walked : i # SlotOf(x) => ISRlist[i] # x
    BY <1>1, SlotOfFinds DEF IInv
  <1>3. /\ UNCHANGED <<table, sense, flags, isr, attached>>
        /\ pc' = IF SlotOf(x) = nints THEN Idle
                 ELSE [step |-> "shift", line |-> x, callback |-> NoCallback,
                       current |-> SlotOf(x)]
        /\ enabled' = enabled \ {x} /\ waiting' = waiting \ {x}
        /\ late' = late \ {x} /\ torn' = torn \ {x} /\ shifted' = shifted \ {x}
    BY DEF Detach, Forget
  <1>4. Types'
    BY <1>1, <1>2, <1>3 DEF IInv, Types, Callbacks, Changing, Idle, table, Slots
  <1>5. Placed'
    BY <1>1, <1>2, <1>3 DEF Placed, Changing, Idle, table
  <1>6. Distinct'
    BY <1>1, <1>2, <1>3 DEF IInv, Distinct, Open, Changing, Idle, Walked, table
  <1>7. Agree' /\ Serving' /\ NoEdgeLost'
    BY <1>1, <1>3 DEF IInv, Agree, Serving, NoEdgeLost, HalfStored, Walked, Slots,
                      table, Idle, Out
  <1>8. QED
    BY <1>4, <1>5, <1>6, <1>7 DEF IInv

(* While entries move down, the slot of the call is a copy of its neighbour. *)
LEMMA ShiftIInv ==
  ASSUME IInv, ShiftList \/ ShiftCallback \/ DetachEnds
  PROVE  IInv'
  <1> USE DEF IInv
  <1>0. /\ nints \in Nat /\ Cardinality(Lines) \in Nat /\ pc.current \in Nat
        /\ pc.step \in Changing /\ pc.current < nints /\ pc.line \in Lines
        /\ Walked \subseteq Slots /\ isr = Out
    BY CardinalityNat
    DEF Types, Placed, Changing, ShiftList, ShiftCallback, DetachEnds, Runs, Walked, Slots
  <1>1. CASE ShiftList
    <2>1. /\ pc.step = "shift" /\ pc.current < nints - 1
          /\ pc' = [pc EXCEPT !.step = "shiftCallback"]
          /\ ISRlist' = [ISRlist EXCEPT ![pc.current] = ISRlist[pc.current + 1]]
          /\ UNCHANGED <<ISRcallback, nints, eic, isr, history>>
      BY <1>1 DEF ShiftList, Runs, Goes, Last
    <2>2. pc.current \in Walked /\ pc.current + 1 \in Walked
      BY <1>0, <2>1 DEF Walked
    <2>3. Types'
      BY <1>0, <2>1, <2>2 DEF Types, Changing, eic, history, Slots, Callbacks
    <2>4. Placed'
      BY <1>0, <2>1, <2>2 DEF Placed, Types, Changing
    <2>5. Distinct' /\ Agree'
      BY <1>0, <2>1, <2>2
      DEF Distinct, Agree, Types, Open, HalfStored, Changing, Walked, history
    <2>6. Serving' /\ NoEdgeLost'
      BY <1>0, <2>1 DEF Out, Serving, NoEdgeLost, eic, history
    <2>7. QED
      BY <2>3, <2>4, <2>5, <2>6
  <1>2. CASE ShiftCallback
    <2>1. /\ pc.step = "shiftCallback" /\ pc.current < nints - 1
          /\ ISRlist[pc.current] = ISRlist[pc.current + 1]
          /\ pc' = [pc EXCEPT !.step = "shift", !.current = pc.current + 1]
          /\ ISRcallback' = [ISRcallback EXCEPT ![pc.current] = ISRcallback[pc.current + 1]]
          /\ UNCHANGED <<ISRlist, nints, eic, isr, history>>
      BY <1>2 DEF ShiftCallback, Runs, Placed
    <2>2. pc.current \in Walked /\ pc.current + 1 \in Walked
      BY <1>0, <2>1 DEF Walked
    <2>3. Types'
      <3>1. pc' \in [step : Changing \cup {"idle", "new", "enable"},
                     line : Lines \cup {NoLine}, callback : Callbacks, current : Nat]
        <4>1. pc.current + 1 \in Nat /\ "shift" \in Changing
          BY <1>0 DEF Changing
        <4>2. pc' = [step |-> "shift", line |-> pc.line, callback |-> pc.callback,
                     current |-> pc.current + 1]
          BY <2>1 DEF Types
        <4>3. pc.line \in Lines \cup {NoLine} /\ pc.callback \in Callbacks
          BY DEF Types
        <4>4. QED
          BY <4>1, <4>2, <4>3
      <3>2. ISRcallback' \in [Slots -> Callbacks]
        BY <1>0, <2>1, <2>2 DEF Types
      <3>3. QED
        BY <2>1, <3>1, <3>2 DEF Types, eic, history, Slots, Callbacks
    <2>4. Placed'
      BY <1>0, <2>1, <2>2 DEF Placed, Types, Changing
    <2>5. Distinct'
      BY <1>0, <2>1, <2>2 DEF Distinct, Types, Open, Changing, Walked
    <2>6. Agree'
      BY <1>0, <2>1, <2>2 DEF Agree, Types, HalfStored, Changing, Walked, history
    <2>7. Serving' /\ NoEdgeLost'
      BY <1>0, <2>1 DEF Out, Serving, NoEdgeLost, eic, history
    <2>8. QED
      BY <2>3, <2>4, <2>5, <2>6, <2>7
  <1>3. CASE DetachEnds
    <2>1. /\ pc.step = "shift" /\ pc.current = nints - 1 /\ pc' = Idle
          /\ nints' = nints - 1
          /\ attached' = [attached EXCEPT ![pc.line] = NoCallback]
          /\ UNCHANGED <<ISRlist, ISRcallback, eic, isr, waiting, late, torn, shifted>>
      BY <1>0, <1>3 DEF DetachEnds, Runs, Last
    <2>2. \A i \in 0..(nints' - 1) : i \in Walked /\ ~Open(i) /\ ~HalfStored(i)
      BY <1>0, <2>1 DEF Walked, Open, HalfStored
    <2>3. Types'
      <3>1. nints' \in 0..Cardinality(Lines)
        BY <1>0, <2>1 DEF Types
      <3>2. attached' \in [Lines -> Callbacks]
        BY <2>1 DEF Types, Callbacks
      <3>3. pc' \in [step : Changing \cup {"idle", "new", "enable"},
                     line : Lines \cup {NoLine}, callback : Callbacks, current : Nat]
        BY <2>1 DEF Callbacks, Idle
      <3>4. QED
        BY <2>1, <3>1, <3>2, <3>3 DEF Types, eic, Slots
    <2>4. Placed'
      BY <2>1 DEF Placed, Changing, Idle
    <2>5. Distinct' /\ Agree'
      BY <1>0, <2>1, <2>2
      DEF Distinct, Agree, Types, Open, HalfStored, Changing, Walked, Idle
    <2>6. Serving' /\ NoEdgeLost'
      BY <1>0, <2>1 DEF Out, Serving, NoEdgeLost, eic
    <2>7. QED
      BY <2>3, <2>4, <2>5, <2>6
  <1>4. QED
    BY <1>1, <1>2, <1>3

-----------------------------------------------------------------------------
LEMMA LineIInv ==
  ASSUME IInv, NEW x \in Lines, Edge(x)
  PROVE  IInv'
  <1> USE DEF IInv
  <1>1. Types'
    BY DEF Edge, Types, table, Slots, Callbacks
  <1>2. Placed' /\ Distinct' /\ Agree'
    BY DEF Edge, Placed, Distinct, Agree, Open, HalfStored, Walked, table
  <1>3. Serving' /\ NoEdgeLost'
    BY DEF Edge, Serving, NoEdgeLost, Walked, Slots, Types, table
  <1>4. QED
    BY <1>1, <1>2, <1>3

LEMMA WalkIInv ==
  ASSUME IInv, Enter \/ Test
  PROVE  IInv'
  <1> USE DEF IInv
  <1>1. UNCHANGED <<table, eic, pc, history>>
    BY DEF Enter, Test
  <1>2. isr' \in [step : {"idle", "test", "call", "clear"}, i : Nat]
    BY DEF Enter, Test, Types, Out
  <1>3. Types'
    BY <1>1, <1>2 DEF Types, table, eic, history, Slots, Callbacks
  <1>4. Placed' /\ Distinct' /\ Agree' /\ NoEdgeLost'
    BY <1>1 DEF Placed, Distinct, Agree, NoEdgeLost, Open, HalfStored, Walked, table, eic,
                history
  <1>5. Serving'
    BY <1>1 DEF Enter, Test, Serving, Walked, Types, Out, table
  <1>6. QED
    BY <1>3, <1>4, <1>5

(* The callback answers for the line of its slot, if that is whole.         *)
LEMMA CallIInv ==
  ASSUME IInv, Call
  PROVE  IInv'
  <1> USE DEF IInv
  <1> DEFINE x == ISRcallback[isr.i][1]
             y == ISRlist[isr.i]
             whole == ~(pc.step \in {"list", "callback", "shiftCallback"} /\ pc.current = isr.i)
  <1>1. /\ isr.step = "call" /\ isr' = [isr EXCEPT !.step = "clear"]
        /\ waiting' = waiting \ {x} /\ late' = late \ {x} /\ shifted' = shifted \ {x}
        /\ torn' = (torn \cup (IF whole THEN {} ELSE {y})) \cap waiting'
        /\ UNCHANGED <<table, eic, pc, attached>>
    BY DEF Call, BetweenStores
  <1>2. isr.i \in Walked /\ isr.i \in Slots
    BY <1>1, CardinalityNat DEF Serving, Walked, Slots, Types
  <1>3. whole => x = y
    <2>1. ISRcallback[isr.i] # NoCallback
      BY <1>1 DEF Call, Crashed
    <2>2. SUFFICES ASSUME whole PROVE x = y
      OBVIOUS
    <2>3. ISRcallback[isr.i] = attached[y] /\ y \in Lines
      BY <1>2, <2>2 DEF Agree, HalfStored
    <2>4. attached[y] \in {y} \X Versions
      BY <2>1, <2>3 DEF Agree
    <2>5. QED
      BY <2>3, <2>4
  <1>4. Types'
    BY <1>1 DEF Types, table, eic, Slots, Callbacks
  <1>5. Placed' /\ Distinct' /\ Agree'
    BY <1>1 DEF Placed, Distinct, Agree, Open, HalfStored, Walked, table
  <1>6. NoEdgeLost'
    BY <1>1 DEF NoEdgeLost, eic
  <1>7. Serving'
    <2>1. isr'.step = "clear" /\ isr'.i = isr.i /\ UNCHANGED <<ISRlist, nints>>
      BY <1>1 DEF Types, table
    <2>2. y \in waiting' => y \in torn'
      BY <1>1, <1>3
    <2>3. QED
      BY <1>2, <2>1, <2>2 DEF Serving, Slots
  <1>8. QED
    BY <1>4, <1>5, <1>6, <1>7

(* A callback that detaches its line finds the list whole.                  *)
LEMMA CallDetachIInv ==
  ASSUME IInv, CallDetach
  PROVE  IInv'
  <1> USE DEF IInv
  <1> DEFINE x == ISRcallback[isr.i][1]
             s == SlotOf(x)
  <1>1. /\ isr.step = "call" /\ pc = Idle /\ x \in Lines
        /\ isr' = [isr EXCEPT !.step = "clear"]
        /\ enabled' = enabled \ {x}
        /\ waiting' = waiting \ {x} /\ late' = late \ {x} /\ torn' = torn \ {x}
        /\ shifted' = (shifted \cup {ISRlist'[isr.i]}) \cap waiting'
        /\ UNCHANGED <<sense, flags, pc>>
    BY ExtIntAssumption DEF CallDetach
  <1>2. IF s = nints THEN UNCHANGED <<table, attached>>
        ELSE /\ ISRlist' = Shifted(ISRlist, s)
             /\ ISRcallback' = Shifted(ISRcallback, s)
             /\ nints' = nints - 1
             /\ attached' = [attached EXCEPT ![x] = NoCallback]
    BY DEF CallDetach
  <1>3. /\ pc.step = "idle" /\ nints \in 0..Cardinality(Lines) /\ Cardinality(Lines) \in Nat
        /\ isr.i \in Walked /\ Walked \subseteq Slots /\ isr.i \in Nat
    BY <1>1, CardinalityNat DEF Idle, Types, Serving, Walked, Slots
  <1>4. /\ s \in 0..nints
        /\ s # nints => s \in Walked /\ ISRlist[s] = x
        /\ \A i \in Walked : i # s => ISRlist[i] # x
    BY <1>1, <1>3, SlotOfFinds
  <1>5. \A i, j \in Walked : i # j => ISRlist[i] # ISRlist[j]
    BY <1>3 DEF Distinct, Open, Changing
  <1>6. \A i \in Walked : ISRlist[i] \in Lines /\ ISRcallback[i] = attached[ISRlist[i]]
    BY <1>3 DEF Agree, HalfStored
  <1> HIDE DEF s, x
  <1>7. CASE s = nints
    <2>1. UNCHANGED <<ISRlist, ISRcallback, nints, attached>>
      BY <1>2, <1>7 DEF table
    <2>2. Types'
      BY <1>1, <2>1 DEF Types, Slots, Callbacks
    <2>3. Placed' /\ Distinct' /\ Agree' /\ NoEdgeLost'
      BY <1>1, <2>1 DEF Placed, Distinct, Agree, NoEdgeLost, Open, HalfStored, Walked
    <2>4. Serving'
      BY <1>1, <1>3, <2>1 DEF Serving, Slots, Types
    <2>5. QED
      BY <2>2, <2>3, <2>4
  <1>8. CASE s # nints
    <2>1. /\ nints' = nints - 1 /\ attached' = [attached EXCEPT ![x] = NoCallback]
          /\ ISRlist' = [i \in Slots |-> IF s <= i /\ i < nints - 1
                                         THEN ISRlist[i + 1] ELSE ISRlist[i]]
          /\ ISRcallback' = [i \in Slots |-> IF s <= i /\ i < nints - 1
                                             THEN ISRcallback[i + 1] ELSE ISRcallback[i]]
      BY <1>2, <1>8 DEF Shifted
    <2>2. Types'
      <3>1. \A i \in Slots : i < nints - 1 => i + 1 \in Slots
        BY <1>3 DEF Slots
      <3>2. ISRlist' \in [Slots -> Lines \cup {NoLine}] /\ ISRcallback' \in [Slots -> Callbacks]
        BY <2>1, <3>1 DEF Types
      <3>3. nints' \in 0..Cardinality(Lines)
        BY <1>3, <1>4, <1>8, <2>1
      <3>4. attached' \in [Lines -> Callbacks]
        BY <2>1 DEF Types, Callbacks
      <3>5. QED
        BY <1>1, <3>2, <3>3, <3>4 DEF Types, Slots, Callbacks
    <2>3. Placed'
      BY <1>1, <1>3 DEF Placed, Changing
    <2> DEFINE from(i) == IF s <= i THEN i + 1 ELSE i
    <2>4. \A i \in Walked' : /\ from(i) \in Walked /\ from(i) # s
                             /\ ISRlist'[i] = ISRlist[from(i)]
                             /\ ISRcallback'[i] = ISRcallback[from(i)]
      BY <1>3, <1>4, <1>8, <2>1 DEF Walked
    <2>5. \A i, j \in Walked' : i # j => from(i) # from(j)
      BY <1>3, <1>4 DEF Walked
    <2> HIDE DEF from
    <2>6. Distinct'
      BY <1>1, <1>3, <1>5, <2>4, <2>5 DEF Distinct, Changing
    <2>7. Agree'
      <3>1. ASSUME NEW i \in Walked'
            PROVE  ISRlist'[i] \in Lines /\ ISRcallback'[i] = attached'[ISRlist'[i]]
        <4>1. ISRlist'[i] \in Lines /\ ISRlist'[i] # x
          BY <1>4, <1>6, <2>4
        <4>2. attached'[ISRlist'[i]] = attached[ISRlist'[i]]
          BY <2>1, <4>1 DEF Types
        <4>3. QED
          BY <1>6, <2>4, <4>1, <4>2
      <3>2. \A z \in Lines : attached'[z] \in ({z} \X Versions) \cup {NoCallback}
        BY <2>1 DEF Agree, Types
      <3>3. QED
        BY <3>1, <3>2 DEF Agree
    <2>8. NoEdgeLost'
      BY <1>1 DEF NoEdgeLost
    <2>9. Serving'
      BY <1>1, <1>3 DEF Serving, Types, Slots
    <2>10. QED
      BY <2>2, <2>3, <2>6, <2>7, <2>8, <2>9
  <1>9. QED
    BY <1>7, <1>8

LEMMA ClearIInv ==
  ASSUME IInv, Clear
  PROVE  IInv'
  <1> USE DEF IInv
  <1>1. /\ isr.step = "clear" /\ flags' = flags \ {ISRlist[isr.i]}
        /\ isr' = [step |-> "test", i |-> isr.i + 1]
        /\ UNCHANGED <<table, sense, enabled, pc, history>>
    BY DEF Clear, Cleared
  <1>2. Types'
    BY <1>1 DEF Types, table, history, Slots, Callbacks
  <1>3. Placed' /\ Distinct' /\ Agree' /\ Serving'
    BY <1>1 DEF Placed, Distinct, Agree, Serving, Open, HalfStored, Walked, table, history
  <1>4. NoEdgeLost'
    BY <1>1 DEF Serving, NoEdgeLost, history
  <1>5. QED
    BY <1>2, <1>3, <1>4

LEMMA NextIInv == IInv /\ [Next]_vars => IInv'
  <1> SUFFICES ASSUME IInv, [Next]_vars PROVE IInv'
    OBVIOUS
  <1>1. CASE \E x \in Lines : Detach(x) \/ Edge(x) \/ \E v \in Versions : Attach(x, <<x, v>>)
    BY <1>1, DetachIInv, LineIInv, AttachIInv
  <1>2. CASE InCall
    BY <1>2, NewEntryIInv, ShiftIInv DEF InCall
  <1>3. CASE Handler
    BY <1>3, WalkIInv, CallIInv, CallDetachIInv, ClearIInv DEF Handler
  <1>4. CASE UNCHANGED vars
    BY <1>4
    DEF vars, table, eic, history, IInv, Types, Placed, Distinct, Agree, Serving,
        NoEdgeLost, Open, HalfStored, Walked, Slots, Callbacks
  <1>5. QED
    BY <1>1, <1>2, <1>3, <1>4 DEF Next

-----------------------------------------------------------------------------
(* The arrays, the counters and the steps keep their types; in particular   *)
(* the list never outgrows its slots (WInterrupts.c 24-26, 125-128).        *)
THEOREM TypeCorrect == Spec => []Types
  <1>1. IInv => Types
    BY DEF IInv
  <1>2. QED
    BY <1>1, InitIInv, NextIInv, PTL DEF Spec

(* EIC_Handler calls for a line the callback attached to it, whatever is    *)
(* attached and detached between its steps.                                 *)
THEOREM CallsOwnCallback == Spec => []OwnCallback
  <1>1. IInv => OwnCallback
    BY DEF IInv, OwnCallback, Serving, Agree, HalfStored, BetweenStores
  <1>2. QED
    BY <1>1, InitIInv, NextIInv, PTL DEF Spec

(* Outside the three windows no edge is cleared before its callback ran.    *)
THEOREM EdgesKept == Spec => []NoEdgeLost
  <1>1. IInv => NoEdgeLost
    BY DEF IInv
  <1>2. QED
    BY <1>1, InitIInv, NextIInv, PTL DEF Spec
=============================================================================
