----------------------------- MODULE RingBuffer -----------------------------
(***************************************************************************)
(* RingBufferN<N> of cores/arduino/RingBuffer.h: a byte queue shared by a   *)
(* sketch and an interrupt handler.  Uart, the USB endpoints and Wire hold  *)
(* one.  The operators are the methods, on a record instead of an object.   *)
(***************************************************************************)
EXTENDS Integers

CONSTANT N                \* SERIAL_BUFFER_SIZE: the number of slots

ASSUME RingAssumption == N \in Nat /\ N > 1

NoChar == -1              \* what read_char and peek return when empty

NextIndex(i) == (i + 1) % N

Ring(Data) == [buf : [0 .. N-1 -> Data], head : 0 .. N-1, tail : 0 .. N-1]

EmptyRing == [buf |-> [i \in 0 .. N-1 |-> 0], head |-> 0, tail |-> 0]

IsFull(r) == NextIndex(r.head) = r.tail

Available(r) ==
    IF r.head >= r.tail THEN r.head - r.tail ELSE N + r.head - r.tail

SpaceFromMutant(headNotBehind, head, tail) == tail - head - 1   \* a bug: no wrap
SpaceFromAll(headNotBehind, head, tail) ==      \* a bug: the free slot counted
    IF headNotBehind THEN N - head + tail ELSE tail - head

(* availableForStore picks its formula from one read of the indices and     *)
(* computes it from a second one, so the two are kept apart: headNotBehind *)
(* is the outcome of the first test.                                        *)
SpaceFrom(headNotBehind, head, tail) ==
    IF headNotBehind THEN N - 1 - head + tail ELSE tail - head - 1

AvailableForStore(r) == SpaceFrom(r.head >= r.tail, r.head, r.tail)

(* A byte stored in a full buffer is dropped without a word.                *)
StoreChar(r, c) ==
    IF IsFull(r) THEN r
    ELSE [r EXCEPT !.buf[r.head] = c, !.head = NextIndex(@)]

PeekMutant(r) ==                        \* a bug: head and tail one apart
    IF r.tail = r.head THEN NoChar ELSE r.buf[NextIndex(r.tail)]

Peek(r) == IF r.tail = r.head THEN NoChar ELSE r.buf[r.tail]

DropFirst(r) == [r EXCEPT !.tail = NextIndex(@)]

(* The bytes in the buffer, oldest first.                                   *)
Contents(r) == [k \in 1 .. Available(r) |-> r.buf[(r.tail + k - 1) % N]]
=============================================================================
