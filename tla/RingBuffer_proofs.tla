------------------------- MODULE RingBuffer_proofs -------------------------
(***************************************************************************)
(* What the methods of RingBuffer return and preserve, for every number of  *)
(* slots.                                                                   *)
(***************************************************************************)
EXTENDS RingBuffer, Sequences, SequenceTheorems, TLAPS

LEMMA NextIndexType ==
    ASSUME NEW i \in 0 .. N-1
    PROVE  NextIndex(i) \in 0 .. N-1
  BY RingAssumption DEF NextIndex

LEMMA NextIndexInside ==
    ASSUME NEW i \in 0 .. N-1, i < N - 1
    PROVE  NextIndex(i) = i + 1
  <1>1. i + 1 \in 0 .. N-1
    BY RingAssumption
  <1>2. \A k \in Nat : k < N => k % N = k
    BY RingAssumption
  <1>3. QED
    BY <1>1, <1>2, RingAssumption DEF NextIndex

LEMMA StoreCharType ==
    ASSUME NEW r \in Ring(Nat), NEW b \in Nat
    PROVE  StoreChar(r, b) \in Ring(Nat)
  BY RingAssumption, NextIndexType DEF StoreChar, Ring

LEMMA DropFirstType ==
    ASSUME NEW r \in Ring(Nat)
    PROVE  DropFirst(r) \in Ring(Nat)
  BY RingAssumption, NextIndexType DEF DropFirst, Ring

LEMMA PeekType ==
    ASSUME NEW r \in Ring(Nat)
    PROVE  /\ Peek(r) \in Nat \cup {NoChar}
           /\ r.head # r.tail => Peek(r) \in Nat
  BY RingAssumption DEF Peek, Ring

(* available() is zero exactly when the indices meet.                       *)
LEMMA AvailableZero ==
    ASSUME NEW r \in Ring(Nat)
    PROVE  Available(r) = 0 <=> r.head = r.tail
  BY RingAssumption DEF Available, Ring

(* The byte count and the room left always add up to the N - 1 usable       *)
(* slots, whichever way the indices wrapped.                                *)
THEOREM RingAccount ==
    ASSUME NEW r \in Ring(Nat)
    PROVE  /\ Available(r) + AvailableForStore(r) = N - 1
           /\ Available(r) \in 0 .. N-1
           /\ IsFull(r) <=> AvailableForStore(r) = 0
  <1>1. Available(r) + AvailableForStore(r) = N - 1
    BY RingAssumption DEF Available, AvailableForStore, SpaceFrom, Ring
  <1>2. Available(r) \in 0 .. N-1
    BY RingAssumption DEF Available, Ring
  <1>3. IsFull(r) <=> AvailableForStore(r) = 0
    <2>1. CASE r.head = N - 1
      <3>1. NextIndex(r.head) = 0
        BY <2>1, RingAssumption DEF NextIndex
      <3>2. QED
        BY <2>1, <3>1, RingAssumption
           DEF IsFull, AvailableForStore, SpaceFrom, Ring
    <2>2. CASE r.head < N - 1
      <3>1. NextIndex(r.head) = r.head + 1
        BY <2>2, NextIndexInside DEF Ring
      <3>2. QED
        BY <2>2, <3>1, RingAssumption
           DEF IsFull, AvailableForStore, SpaceFrom, Ring
    <2>3. QED
      BY <2>1, <2>2, RingAssumption DEF Ring
  <1>4. QED
    BY <1>1, <1>2, <1>3

LEMMA ContentsSeq ==
    ASSUME NEW r \in Ring(Nat)
    PROVE  Contents(r) \in Seq(Nat) /\ Len(Contents(r)) = Available(r)
  <1>1. Available(r) \in Nat
    BY RingAccount, RingAssumption
  <1>2. \A k \in 1 .. Available(r) : r.buf[(r.tail + k - 1) % N] \in Nat
    BY RingAssumption DEF Ring
  <1>3. Contents(r) \in [1 .. Available(r) -> Nat]
    BY <1>2 DEF Contents
  <1>4. QED
    BY <1>1, <1>3, SeqDef

-----------------------------------------------------------------------------
(* The order of the bytes.                                                  *)
LEMMA Wrapped ==
    ASSUME NEW x \in 0 .. 2*N - 1
    PROVE  x % N = IF x < N THEN x ELSE x - N
  <1>1. CASE x < N
    BY <1>1, RingAssumption
  <1>2. CASE x >= N
    <2>1. x - N \in 0 .. N-1
      BY <1>2, RingAssumption
    <2>2. (x - N) % N = x - N
      BY <2>1, RingAssumption
    <2>3. x % N = (x - N) % N
      BY <1>2, RingAssumption
    <2>4. x % N = x - N
      BY <2>2, <2>3
    <2>5. ~(x < N)
      BY <1>2, RingAssumption
    <2>6. QED
      BY <2>4, <2>5
  <1>3. QED
    BY <1>1, <1>2, RingAssumption

(* Where a byte lies: never in the slot of the head.                        *)
LEMMA SlotOf ==
    ASSUME NEW r \in Ring(Nat), NEW k \in 1 .. Available(r)
    PROVE  /\ (r.tail + k - 1) % N \in 0 .. N-1
           /\ (r.tail + k - 1) % N # r.head
           /\ (r.tail + k - 1) % N
                  = IF r.tail + k - 1 < N THEN r.tail + k - 1 ELSE r.tail + k - 1 - N
  <1> DEFINE x == r.tail + k - 1
  <1>1. r.tail \in 0 .. N-1 /\ r.head \in 0 .. N-1
    BY DEF Ring
  <1>2. k \in 1 .. N-1 /\ k <= IF r.head >= r.tail THEN r.head - r.tail ELSE N + r.head - r.tail
    BY RingAccount, RingAssumption DEF Available
  <1>3. x \in 0 .. 2*N - 1
    BY <1>1, <1>2, RingAssumption
  <1>4. x % N = IF x < N THEN x ELSE x - N
    BY <1>3, Wrapped
  <1>5. QED
    BY <1>1, <1>2, <1>4, RingAssumption

(* Storing the byte at the head adds it at the end; before the head moves,  *)
(* it changes nothing.                                                      *)
LEMMA HeadSlot ==
    ASSUME NEW r \in Ring(Nat), NEW q \in Ring(Nat), q.head = r.head, q.tail = r.tail,
           \A i \in 0 .. N-1 : i # r.head => q.buf[i] = r.buf[i]
    PROVE  Contents(q) = Contents(r)
  <1>1. Available(q) = Available(r)
    BY DEF Available
  <1>2. \A k \in 1 .. Available(r) : q.buf[(r.tail + k - 1) % N] = r.buf[(r.tail + k - 1) % N]
    BY SlotOf
  <1>3. QED
    BY <1>1, <1>2 DEF Contents

LEMMA HeadMoves ==
    ASSUME NEW r \in Ring(Nat), NEW q \in Ring(Nat), ~IsFull(r),
           q.head = NextIndex(r.head), q.tail = r.tail,
           \A i \in 0 .. N-1 : i # r.head => q.buf[i] = r.buf[i]
    PROVE  /\ Available(q) = Available(r) + 1
           /\ \A k \in 1 .. Available(r) : Contents(q)[k] = Contents(r)[k]
           /\ Contents(q)[Available(r) + 1] = q.buf[r.head]
  <1>1. r.tail \in 0 .. N-1 /\ r.head \in 0 .. N-1
    BY DEF Ring
  <1>2. q.head = IF r.head = N - 1 THEN 0 ELSE r.head + 1
    <2>1. CASE r.head = N - 1
      BY <2>1, RingAssumption DEF NextIndex
    <2>2. CASE r.head < N - 1
      BY <1>1, <2>2, NextIndexInside, RingAssumption
    <2>3. QED
      BY <1>1, <2>1, <2>2, RingAssumption
  <1>3. q.head # r.tail
    BY DEF IsFull
  <1>4. Available(q) = Available(r) + 1
    BY <1>1, <1>2, <1>3, RingAssumption DEF Available
  <1>5. Available(r) \in 0 .. N-1
    BY RingAccount
  <1>6. \A k \in 1 .. Available(r) : Contents(q)[k] = Contents(r)[k]
    <2> TAKE k \in 1 .. Available(r)
    <2>1. k \in 1 .. Available(q)
      BY <1>4, <1>5
    <2>2. q.buf[(r.tail + k - 1) % N] = r.buf[(r.tail + k - 1) % N]
      BY SlotOf
    <2>3. QED
      BY <2>1, <2>2 DEF Contents
  <1>7. (r.tail + (Available(r) + 1) - 1) % N = r.head
    <2> DEFINE x == r.tail + (Available(r) + 1) - 1
    <2>1. x = IF r.head >= r.tail THEN r.head ELSE N + r.head
      BY <1>1, <1>5, RingAssumption DEF Available
    <2>2. x \in 0 .. 2*N - 1
      BY <1>1, <2>1, RingAssumption
    <2>3. x % N = IF x < N THEN x ELSE x - N
      BY <2>2, Wrapped
    <2>4. QED
      BY <1>1, <2>1, <2>3, RingAssumption
  <1>8. Contents(q)[Available(r) + 1] = q.buf[r.head]
    <2>1. Available(r) + 1 \in 1 .. Available(q)
      BY <1>4, <1>5
    <2>2. QED
      BY <1>7, <2>1 DEF Contents
  <1>9. QED
    BY <1>4, <1>6, <1>8

LEMMA SameSlot ==
    ASSUME NEW t \in 0 .. N-1, NEW n \in Nat, NEW k \in Nat, k >= 1, n + k <= N - 1,
           NEW s, s = IF t + n < N THEN t + n ELSE t + n - N
    PROVE  (IF t + (n + k) - 1 < N THEN t + (n + k) - 1 ELSE t + (n + k) - 1 - N)
           = (IF s + k - 1 < N THEN s + k - 1 ELSE s + k - 1 - N)
  BY RingAssumption

(* Moving the tail by n takes the first n bytes.                            *)
LEMMA TailMoves ==
    ASSUME NEW r \in Ring(Nat), NEW n \in 0 .. Available(r), NEW q,
           q = [r EXCEPT !.tail = (@ + n) % N]
    PROVE  /\ q \in Ring(Nat) /\ Available(q) = Available(r) - n
           /\ \A k \in 1 .. (Available(r) - n) : Contents(q)[k] = Contents(r)[n + k]
  <1>1. r.tail \in 0 .. N-1 /\ r.head \in 0 .. N-1
    BY DEF Ring
  <1>2. Available(r) \in 0 .. N-1
    BY RingAccount
  <1>3. r.tail + n \in 0 .. 2*N - 1
    BY <1>1, <1>2, RingAssumption
  <1>4. (r.tail + n) % N = IF r.tail + n < N THEN r.tail + n ELSE r.tail + n - N
    <2> DEFINE x == r.tail + n
    <2> HIDE DEF x
    <2>1. x \in 0 .. 2*N - 1
      BY <1>3 DEF x
    <2>2. x % N = IF x < N THEN x ELSE x - N
      BY <2>1, Wrapped
    <2>3. QED
      BY <1>1, <1>2, <2>2, RingAssumption DEF x
  <1>5. q.head = r.head /\ q.buf = r.buf /\ q.tail = (r.tail + n) % N
    BY DEF Ring
  <1>6. q.tail \in 0 .. N-1
    BY <1>1, <1>2, <1>4, <1>5, RingAssumption
  <1>7. q \in Ring(Nat)
    BY <1>5, <1>6 DEF Ring
  <1>8. Available(q) = Available(r) - n
    BY <1>1, <1>2, <1>4, <1>5, RingAssumption DEF Available
  <1>9. ASSUME NEW k \in 1 .. (Available(r) - n) PROVE Contents(q)[k] = Contents(r)[n + k]
    <2>1. n + k \in 1 .. Available(r) /\ k \in 1 .. Available(q)
      BY <1>2, <1>8
    <2>2. (r.tail + (n + k) - 1) % N
             = IF r.tail + (n + k) - 1 < N THEN r.tail + (n + k) - 1
               ELSE r.tail + (n + k) - 1 - N
      BY <2>1, SlotOf
    <2>3. (q.tail + k - 1) % N
             = IF q.tail + k - 1 < N THEN q.tail + k - 1 ELSE q.tail + k - 1 - N
      BY <1>7, <2>1, SlotOf
    <2>4. (q.tail + k - 1) % N = (r.tail + (n + k) - 1) % N
      <3>1. q.tail = IF r.tail + n < N THEN r.tail + n ELSE r.tail + n - N
        BY <1>4, <1>5
      <3>2. k \in Nat /\ k >= 1 /\ n \in Nat /\ n + k <= N - 1
        BY <1>2, <2>1, RingAssumption
      <3>3. QED
        BY <1>1, <2>2, <2>3, <3>1, <3>2, SameSlot
    <2>5. QED
      BY <1>5, <2>1, <2>4 DEF Contents
  <1>10. QED
    BY <1>7, <1>8, <1>9

(* What DropFirst takes is what Peek returned.                              *)
LEMMA FirstLeaves ==
    ASSUME NEW r \in Ring(Nat), r.head # r.tail, NEW q, q = DropFirst(r)
    PROVE  /\ q \in Ring(Nat) /\ Available(q) = Available(r) - 1 /\ Peek(r) = Contents(r)[1]
           /\ \A k \in 1 .. (Available(r) - 1) : Contents(q)[k] = Contents(r)[k + 1]
           /\ ~IsFull(q) /\ q.head = r.head /\ q.buf = r.buf
  <1>1. r.tail \in 0 .. N-1 /\ r.head \in 0 .. N-1
    BY DEF Ring
  <1>2. Available(r) \in 0 .. N-1 /\ Available(r) # 0
    BY RingAccount, AvailableZero
  <1>3. 1 \in 1 .. Available(r) /\ 1 \in 0 .. Available(r)
    BY <1>2, RingAssumption
  <1>4. q = [r EXCEPT !.tail = (@ + 1) % N]
    BY DEF DropFirst, NextIndex
  <1>5. /\ q \in Ring(Nat) /\ Available(q) = Available(r) - 1
        /\ \A k \in 1 .. (Available(r) - 1) : Contents(q)[k] = Contents(r)[1 + k]
    BY <1>3, <1>4, TailMoves
  <1>6. Peek(r) = Contents(r)[1]
    <2>1. (r.tail + 1 - 1) % N = r.tail
      BY <1>1, RingAssumption
    <2>2. QED
      BY <1>3, <2>1 DEF Peek, Contents
  <1>7. ~IsFull(q)
    <2>1. Available(q) + AvailableForStore(q) = N - 1 /\ (IsFull(q) <=> AvailableForStore(q) = 0)
      BY <1>5, RingAccount
    <2>2. AvailableForStore(q) = 0 => Available(q) = N - 1
      BY <1>2, <1>5, <2>1, RingAssumption
    <2>3. QED
      BY <1>2, <1>5, <2>1, <2>2, RingAssumption
  <1>8. \A k \in 1 .. (Available(r) - 1) : 1 + k = k + 1
    BY <1>2
  <1>9. q.head = r.head /\ q.buf = r.buf
    BY <1>4 DEF Ring
  <1>10. QED
    BY <1>5, <1>6, <1>7, <1>8, <1>9

(* A byte stored in a ring with room comes after those it holds.            *)
LEMMA LastEnters ==
    ASSUME NEW r \in Ring(Nat), NEW b \in Nat, ~IsFull(r), NEW q, q = StoreChar(r, b)
    PROVE  /\ q \in Ring(Nat) /\ Available(q) = Available(r) + 1
           /\ \A k \in 1 .. Available(r) : Contents(q)[k] = Contents(r)[k]
           /\ Contents(q)[Available(r) + 1] = b
  <1>1. q = [r EXCEPT !.buf[r.head] = b, !.head = NextIndex(@)] /\ q \in Ring(Nat)
    BY StoreCharType DEF StoreChar
  <1>2. /\ q.head = NextIndex(r.head) /\ q.tail = r.tail /\ q.buf[r.head] = b
        /\ \A i \in 0 .. N-1 : i # r.head => q.buf[i] = r.buf[i]
    BY <1>1 DEF Ring
  <1>3. QED
    BY <1>1, <1>2, HeadMoves

(* StoreChar and DropFirst on the sequence the ring stands for.             *)
LEMMA StoreAppends ==
    ASSUME NEW r \in Ring(Nat), NEW b \in Nat, ~IsFull(r)
    PROVE  Contents(StoreChar(r, b)) = Append(Contents(r), b)
  <1> DEFINE q == StoreChar(r, b)
             a == Append(Contents(r), b)
  <1>1. /\ q \in Ring(Nat) /\ Available(q) = Available(r) + 1
        /\ \A k \in 1 .. Available(r) : Contents(q)[k] = Contents(r)[k]
        /\ Contents(q)[Available(r) + 1] = b
    BY LastEnters
  <1>2. Contents(r) \in Seq(Nat) /\ Len(Contents(r)) = Available(r) /\ Available(r) \in Nat
    BY ContentsSeq, RingAccount, RingAssumption
  <1>3. /\ a \in Seq(Nat) /\ Len(a) = Available(r) + 1 /\ a[Available(r) + 1] = b
        /\ \A k \in 1 .. Available(r) : a[k] = Contents(r)[k]
    BY <1>2, AppendProperties
  <1> HIDE DEF q, a
  <1>4. Contents(q) \in Seq(Nat) /\ Len(Contents(q)) = Available(r) + 1
    BY <1>1, ContentsSeq
  <1>5. ASSUME NEW k \in 1 .. Available(r) + 1 PROVE Contents(q)[k] = a[k]
    <2>1. k \in 1 .. Available(r) \/ k = Available(r) + 1
      BY <1>2
    <2>2. QED
      BY <1>1, <1>3, <2>1
  <1>6. Contents(q) = a
    BY <1>3, <1>4, <1>5, SeqEqual
  <1>7. QED
    BY <1>6 DEF q, a

LEMMA DropTails ==
    ASSUME NEW r \in Ring(Nat), r.head # r.tail
    PROVE  /\ Contents(r) # <<>> /\ Contents(r)[1] = Peek(r)
           /\ Contents(DropFirst(r)) = Tail(Contents(r))
  <1> DEFINE q == DropFirst(r)
             t == Tail(Contents(r))
  <1>1. /\ q \in Ring(Nat) /\ Available(q) = Available(r) - 1 /\ Peek(r) = Contents(r)[1]
        /\ \A k \in 1 .. (Available(r) - 1) : Contents(q)[k] = Contents(r)[k + 1]
    BY FirstLeaves
  <1>2. /\ Contents(r) \in Seq(Nat) /\ Len(Contents(r)) = Available(r)
        /\ Available(r) \in Nat /\ Available(r) # 0
    BY ContentsSeq, RingAccount, RingAssumption, AvailableZero
  <1>3. Contents(r) # <<>>
    BY <1>2
  <1>4. /\ t \in Seq(Nat) /\ Len(t) = Available(r) - 1
        /\ \A k \in 1 .. Len(t) : t[k] = Contents(r)[k + 1]
    BY <1>2, <1>3, HeadTailProperties
  <1> HIDE DEF q, t
  <1>5. Contents(q) \in Seq(Nat) /\ Len(Contents(q)) = Available(r) - 1
    BY <1>1, ContentsSeq
  <1>6. Contents(q) = t
    BY ZenonT(30), <1>1, <1>4, <1>5, SeqEqual
  <1>7. QED
    BY <1>1, <1>3, <1>6 DEF q, t

(* Consecutive numbers stay so when sequences are joined.                   *)
LEMMA Joined ==
    ASSUME NEW s \in Seq(Nat), NEW t \in Seq(Nat),
           \A i \in 1 .. Len(s) : s[i] = i, \A i \in 1 .. Len(t) : t[i] = Len(s) + i
    PROVE  /\ s \o t \in Seq(Nat) /\ Len(s \o t) = Len(s) + Len(t)
           /\ \A i \in 1 .. Len(s \o t) : (s \o t)[i] = i
  <1>1. s \o t \in Seq(Nat) /\ Len(s \o t) = Len(s) + Len(t)
    OBVIOUS
  <1>2. ASSUME NEW i \in 1 .. Len(s \o t) PROVE (s \o t)[i] = i
    <2>1. CASE i <= Len(s)
      BY <1>1, <2>1
    <2>2. CASE i > Len(s)
      <3>1. (s \o t)[i] = t[i - Len(s)] /\ i - Len(s) \in 1 .. Len(t)
        BY <1>1, <2>2
      <3>2. QED
        BY <3>1
    <2>3. QED
      BY <2>1, <2>2
  <1>3. QED
    BY <1>1, <1>2
=============================================================================
