---------------------------- MODULE EfLog_proofs ----------------------------
(***************************************************************************)
(* Proofs about EfLog for every number of sectors and words of a sector:    *)
(* types; that at rest the log is the newest of what was written, in order, *)
(* across power failures; that a boot wipes it only for a reason; that      *)
(* ef_log_read answers the words at an index of it.                         *)
(*                                                                          *)
(* LInv says where the newest words are while the log is written, read and  *)
(* cleaned in one life.  OInv adds what the headers are at every step of    *)
(* every life, from which a boot that is not interrupted finds the state    *)
(* LInv describes.                                                          *)
(***************************************************************************)
EXTENDS EfLog, FiniteSetTheorems, SequenceTheorems, WellFoundedInduction, TLAPS

Statuses == {"erased", "empty", "using", "full", "invalid"}
Running == {"idle", "fillOld", "fillNew", "part", "fullOld", "fullNew",
            "erase", "empty", "using"}
States == Running \cup {"off", "clean", "format"}
Payload == [1..W -> Int]

(* The types of the variables.                                              *)
TypeOK ==
    /\ status \in [Sectors -> Statuses] /\ data \in [Sectors -> Payload]
    /\ startAddr \in Int /\ endAddr \in Int /\ writeAddr \in Int
    /\ rest \in Seq(Int) /\ logged \in Seq(Int)
    /\ pc \in States /\ fmt \in 0..N
    /\ next \in Nat /\ crashes \in Nat /\ cleans \in Nat
    /\ changing \in BOOLEAN /\ full \in BOOLEAN /\ spoilt \in BOOLEAN
    /\ dirty \in SUBSET Sectors

(* What is to be written fills the sector, and a new sector is written from *)
(* its header on.                                                           *)
Fits ==
    /\ pc \in {"fillOld", "fillNew"} => Room(writeAddr) <= Len(rest)
    /\ pc \in {"empty", "using"} => writeAddr % S = 0

(* The sector after u in the ring, and how far back from u sector s is.     *)
NextOf(u) == IF u = N - 1 THEN 0 ELSE u + 1
Dist(s, u) == IF s < u THEN u - s ELSE u - s + N

(* In the first pass w = FALSE the sectors before u are full and those      *)
(* after it empty; later all but u are full.                                *)
Pass(st, di, u, w) ==
    IF w THEN \A s \in Sectors \ {u} : st[s] = "full"
    ELSE \A s \in Sectors : /\ s < u => st[s] = "full"
                            /\ s > u /\ s \notin di => st[s] = "empty"

(* The sectors d hold the newest of the words l: the last c of them are in  *)
(* sector u, and W in each sector before it.                                *)
Back(l, c, s, u) == Len(l) - c - Dist(s, u) * W
Held(d, l, u, c, w) ==
    /\ IF w THEN Len(l) - c >= (N - 1) * W ELSE Len(l) - c = u * W
    /\ \A s \in Sectors \ {u} : w \/ s < u =>
          \A i \in 1..W : d[s][i] = l[Back(l, c, s, u) + i]
    /\ \A i \in 1..W : d[u][i] = IF i <= c THEN l[Len(l) - c + i] ELSE 0

-----------------------------------------------------------------------------
(* Arithmetic of the addresses.                                             *)

LEMMA Sizes ==
    /\ N \in Nat /\ N >= 2 /\ W \in Nat /\ W >= 1 /\ H = 1 /\ S = W + 1 /\ S \in Nat
    /\ S >= 2
    /\ \A s : s \in Sectors <=> s \in Nat /\ s < N
BY LogAssumption DEF H, S, Sectors

LEMMA Split ==
    ASSUME NEW u \in Nat, NEW r \in 0..W
    PROVE SectorOf(u * S + r) = u /\ (u * S + r) % S = r
<1>1. S \in Nat \ {0} /\ r \in 0..(S - 1)
  BY Sizes
<1> QED
  BY <1>1 DEF SectorOf

LEMMA Base ==
    ASSUME NEW u \in Nat
    PROVE /\ u * S \in Nat /\ (u + 1) * S = u * S + S
          /\ u * W \in Nat /\ (u + 1) * W = u * W + W
<1>1. S \in Nat /\ W \in Nat
  BY Sizes
<1> QED
  BY <1>1

LEMMA Grows ==
    ASSUME NEW a \in Int, NEW b \in Int, a <= b
    PROVE /\ a * W \in Int /\ b * W \in Int /\ a * W <= b * W
          /\ a * S \in Int /\ b * S \in Int /\ a * S <= b * S
<1>1. PICK k \in Nat : b = a + k
  <2>1. b - a \in Nat /\ b = a + (b - a)
    OBVIOUS
  <2> QED
    BY <2>1
<1>2. W \in Nat /\ S \in Nat
  BY Sizes
<1>3. b * W = a * W + k * W /\ k * W >= 0 /\ a * W \in Int /\ k * W \in Int
  BY <1>1, <1>2
<1>4. b * S = a * S + k * S /\ k * S >= 0 /\ a * S \in Int /\ k * S \in Int
  BY <1>1, <1>2
<1> QED
  BY <1>3, <1>4

LEMMA Following ==
    ASSUME NEW u \in Sectors, NEW a \in Int, SectorOf(a) = u
    PROVE NextOf(u) \in Sectors /\ NextSector(a) = NextOf(u) * S
<1>1. u \in Nat /\ u < N /\ N \in Nat /\ N >= 2
  BY Sizes
<1>2. (u + 1) % N = NextOf(u)
  BY <1>1 DEF NextOf
<1>3. NextOf(u) \in Sectors
  BY <1>1, Sizes DEF NextOf
<1> QED
  BY <1>2, <1>3 DEF NextSector

LEMMA Distance ==
    ASSUME NEW u \in Sectors, NEW s \in Sectors, s # u, s # NextOf(u)
    PROVE /\ Dist(s, NextOf(u)) = Dist(s, u) + 1
          /\ Dist(s, u) \in 1..(N - 2)
BY Sizes DEF Dist, NextOf

LEMMA NextDistance ==
    ASSUME NEW u \in Sectors
    PROVE Dist(u, NextOf(u)) = 1 /\ NextOf(u) # u
BY Sizes DEF Dist, NextOf

-----------------------------------------------------------------------------
(* What the log holds while it is written.                                  *)

(* Words programmed behind the last one.                                    *)
LEMMA Appends ==
    ASSUME NEW d \in [Sectors -> Payload], NEW l \in Seq(Int), NEW ws \in Seq(Int),
           NEW u \in Sectors, NEW c \in 0..W, NEW w \in BOOLEAN,
           Held(d, l, u, c, w), NEW n \in Nat, n = Len(ws), n <= W - c,
           NEW e, e = [d EXCEPT ![u] = [i \in 1..W |->
                          IF i - c \in DOMAIN ws THEN Programmed(@[i], ws[i - c]) ELSE @[i]]]
    PROVE Held(e, l \o ws, u, c + n, w)
<1>0. W \in Nat /\ N \in Nat /\ u \in Nat /\ c \in Nat
  BY Sizes
<1>1. PICK m \in Nat : m = Len(l)
  OBVIOUS
<1>2. Len(l \o ws) = m + n
  BY <1>1
<1>3. PICK b \in Int : b = m - c
  BY <1>0
<1>4. Len(l \o ws) - (c + n) = b
  BY <1>0, <1>2, <1>3
<1>5. \A k \in 1..m : (l \o ws)[k] = l[k]
  BY <1>1
<1>6. \A k \in 1..n : (l \o ws)[m + k] = ws[k]
  BY <1>1
<1>7. IF w THEN b >= (N - 1) * W ELSE b = u * W
  BY <1>1, <1>3 DEF Held
<1>8. b >= 0 /\ (w => b >= (N - 1) * W)
  <2>1. u * W \in Nat /\ (N - 1) * W \in Nat
    <3>1. N - 1 \in Nat
      BY Sizes
    <3> QED
      BY <1>0, <3>1
  <2>2. CASE w
    <3>1. PICK q \in Nat : q = (N - 1) * W
      BY <2>1
    <3> QED
      BY <2>2, <3>1, <1>7
  <2>3. CASE ~w
    BY <2>1, <2>3, <1>7
  <2> QED
    BY <2>2, <2>3
<1>9. ASSUME NEW s \in Sectors \ {u}, w \/ s < u, NEW i \in 1..W
      PROVE e[s][i] = (l \o ws)[Back(l \o ws, c + n, s, u) + i]
  <2>1. e[s][i] = d[s][i]
    OBVIOUS
  <2>2. d[s][i] = l[Back(l, c, s, u) + i]
    BY <1>9 DEF Held
  <2>3. PICK k \in Int : k = Dist(s, u) * W
    BY <1>0, Sizes DEF Dist
  <2>4. Back(l, c, s, u) = b - k /\ Back(l \o ws, c + n, s, u) = b - k
    BY <1>1, <1>3, <1>4, <2>3 DEF Back
  <2>5. k <= b
    <3>1. CASE w
      <4>1. Dist(s, u) \in Int /\ Dist(s, u) <= N - 1 /\ N - 1 \in Int
        BY Sizes DEF Dist
      <4>2. Dist(s, u) * W <= (N - 1) * W
        BY <4>1, Grows
      <4>3. (N - 1) * W \in Int
        BY <4>1, <1>0
      <4> QED
        BY <3>1, <4>2, <4>3, <1>8, <2>3
    <3>2. CASE ~w
      <4>1. Dist(s, u) \in Int /\ Dist(s, u) <= u
        BY Sizes, <1>9, <3>2 DEF Dist
      <4>2. Dist(s, u) * W <= u * W
        BY <4>1, <1>0, Grows
      <4> QED
        BY <3>2, <4>2, <1>7, <2>3, <1>0
    <3> QED
      BY <3>1, <3>2
  <2>6. k >= 0 /\ b - k + i \in Nat /\ b - k + i <= b + W
    <3>1. Dist(s, u) \in Nat
      BY Sizes DEF Dist
    <3>2. k >= 0
      BY <3>1, <2>3, <1>0
    <3> QED
      BY <3>2, <2>5, <1>0
  <2>7. b - k + i \in 1..m
    <3>1. k >= W
      <4>1. Dist(s, u) \in Nat /\ Dist(s, u) >= 1
        BY Sizes DEF Dist
      <4> QED
        BY <4>1, <2>3, <1>0
    <3> QED
      BY <3>1, <2>5, <2>6, <1>0, <1>3
  <2> QED
    BY <2>1, <2>2, <2>4, <2>7, <1>5
<1>10. ASSUME NEW i \in 1..W
       PROVE e[u][i] = IF i <= c + n THEN (l \o ws)[b + i] ELSE 0
  <2>1. e[u][i] = IF i - c \in 1..n THEN Programmed(d[u][i], ws[i - c]) ELSE d[u][i]
    OBVIOUS
  <2>2. d[u][i] = IF i <= c THEN l[b + i] ELSE 0
    BY <1>1, <1>3 DEF Held
  <2>3. CASE i <= c
    <3>1. b + i \in 1..m /\ ~(i - c \in 1..n) /\ i <= c + n
      BY <2>3, <1>8, <1>3, <1>0
    <3> QED
      BY <3>1, <2>1, <2>2, <2>3, <1>5
  <2>4. CASE i > c /\ i <= c + n
    <3>1. i - c \in 1..n /\ b + i = m + (i - c) /\ ~(i <= c)
      BY <2>4, <1>3, <1>0
    <3>2. e[u][i] = ws[i - c]
      BY <3>1, <2>1, <2>2 DEF Programmed
    <3> QED
      BY <3>1, <3>2, <2>4, <1>6
  <2>5. CASE i > c + n
    <3>1. ~(i - c \in 1..n) /\ ~(i <= c) /\ ~(i <= c + n)
      BY <2>5, <1>0
    <3> QED
      BY <3>1, <2>1, <2>2
  <2>6. i <= c \/ (i > c /\ i <= c + n) \/ i > c + n
    BY <1>0
  <2> QED
    BY <2>3, <2>4, <2>5, <2>6
<1> QED
  BY <1>4, <1>7, <1>9, <1>10 DEF Held

(* The next sector is erased behind a full one.                             *)
LEMMA Advances ==
    ASSUME NEW d \in [Sectors -> Payload], NEW l \in Seq(Int),
           NEW u \in Sectors, NEW w \in BOOLEAN, Held(d, l, u, W, w),
           NEW v \in Sectors, v = NextOf(u), NEW e, e = [d EXCEPT ![v] = Erased]
    PROVE Held(e, l, v, 0, w \/ v = 0)
<1>0. W \in Nat /\ N \in Nat /\ N >= 2 /\ u \in Nat /\ v \in Nat
  BY Sizes
<1>1. PICK m \in Nat : m = Len(l)
  OBVIOUS
<1>2. IF w THEN m - W >= (N - 1) * W ELSE m - W = u * W
  BY <1>1 DEF Held
<1>3. (u + 1) * W = u * W + W /\ u * W \in Nat /\ N - 1 \in Nat /\ (N - 1) * W \in Nat
  BY <1>0
<1>4. IF w \/ v = 0 THEN m >= (N - 1) * W ELSE m = v * W
  <2>1. CASE w
    BY <2>1, <1>0, <1>2, <1>3
  <2>2. CASE ~w /\ v = 0
    <3>1. u = N - 1
      BY <2>2, <1>0 DEF NextOf
    <3> QED
      BY <3>1, <2>2, <1>0, <1>2, <1>3
  <2>3. CASE ~w /\ v # 0
    <3>1. v = u + 1
      BY <2>3, <1>0 DEF NextOf
    <3> QED
      BY <3>1, <2>3, <1>0, <1>2, <1>3
  <2> QED
    BY <2>1, <2>2, <2>3
<1>5. ASSUME NEW s \in Sectors \ {v}, (w \/ v = 0) \/ s < v, NEW i \in 1..W
      PROVE e[s][i] = l[Back(l, 0, s, v) + i]
  <2>1. e[s][i] = d[s][i]
    OBVIOUS
  <2>2. CASE s = u
    <3>1. Back(l, 0, s, v) = m - W
      BY NextDistance, <2>2, <1>0, <1>1 DEF Back
    <3>2. d[u][i] = l[m - W + i]
      <4>1. i <= W
        BY <1>0
      <4> QED
        BY <4>1, <1>1 DEF Held
    <3> QED
      BY <2>1, <2>2, <3>1, <3>2
  <2>3. CASE s # u
    <3>1. w \/ s < u
      <4>1. s \in Nat /\ s < N
        BY Sizes
      <4> QED
        BY <1>5, <2>3, <4>1, <1>0 DEF NextOf
    <3>2. d[s][i] = l[Back(l, W, s, u) + i]
      BY <3>1, <2>3 DEF Held
    <3>3. PICK x \in Int : x = Dist(s, u)
      <4>1. u \in Int /\ s \in Int /\ N \in Int
        BY <1>0, Sizes
      <4>2. Dist(s, u) \in Int
        BY <4>1 DEF Dist
      <4> QED
        BY <4>2
    <3>4. Dist(s, v) = x + 1
      BY <3>3, <2>3, Distance
    <3>5. (x + 1) * W = x * W + W /\ x * W \in Int
      BY <1>0
    <3>6. Back(l, 0, s, v) = Back(l, W, s, u)
      <4>1. Back(l, 0, s, v) = m - 0 - (x + 1) * W
        BY <1>1, <3>4 DEF Back
      <4>2. Back(l, W, s, u) = m - W - x * W
        BY <1>1, <3>3 DEF Back
      <4> QED
        BY <4>1, <4>2, <3>5, <1>0
    <3> QED
      BY <2>1, <3>2, <3>6
  <2> QED
    BY <2>2, <2>3
<1>6. ASSUME NEW i \in 1..W PROVE e[v][i] = IF i <= 0 THEN l[m - 0 + i] ELSE 0
  BY <1>0 DEF Erased
<1> QED
  BY <1>0, <1>1, <1>4, <1>5, <1>6 DEF Held

-----------------------------------------------------------------------------
(* The log of RAM.                                                          *)

StartsAt(u, w) == startAddr = (IF w THEN NextOf(u) ELSE 0) * S

(* Where the words of the log are.                                          *)
LEMMA Place ==
    ASSUME NEW u \in Sectors, NEW w \in BOOLEAN, NEW f \in Sectors,
           f = IF w THEN NextOf(u) ELSE 0,
           NEW D \in Nat, D = IF w THEN N - 1 ELSE u, NEW q \in 0..D
    PROVE /\ (u - f) % N = D
          /\ (f + q) % N \in Sectors
          /\ q = D => (f + q) % N = u
          /\ q < D => /\ (f + q) % N # u /\ (w \/ (f + q) % N < u)
                      /\ Dist((f + q) % N, u) = D - q
<1>0. N \in Nat /\ N >= 2 /\ u \in Nat /\ u < N /\ f \in Nat /\ f < N /\ q \in Nat /\ q <= D
  BY Sizes
<1>1. f + q < N => (f + q) % N = f + q
  BY <1>0
<1>2. f + q >= N /\ f + q < 2 * N => (f + q) % N = f + q - N
  BY <1>0
<1>3. CASE ~w
  <2>1. f = 0 /\ D = u /\ f + q < N /\ (f + q) % N = q
    BY <1>3, <1>1, <1>0
  <2>2. (u - f) % N = u
    BY <2>1, <1>0
  <2> QED
    BY <2>1, <2>2, <1>0, <1>3, Sizes DEF Dist
<1>4. CASE w /\ u = N - 1
  <2>1. f = 0 /\ D = N - 1 /\ f + q < N /\ (f + q) % N = q
    BY <1>4, <1>1, <1>0 DEF NextOf
  <2>2. (u - f) % N = N - 1
    BY <2>1, <1>4, <1>0
  <2> QED
    BY <2>1, <2>2, <1>0, <1>4, Sizes DEF Dist
<1>5. CASE w /\ u # N - 1
  <2>1. f = u + 1 /\ D = N - 1 /\ f + q = u + 1 + q
    BY <1>5, <1>0 DEF NextOf
  <2>2. (u - f) % N = N - 1
    BY <2>1, <1>0
  <2>3. CASE u + 1 + q < N
    <3>1. (f + q) % N = u + 1 + q
      BY <2>1, <2>3, <1>1
    <3> QED
      BY <2>1, <2>2, <2>3, <3>1, <1>0, <1>5, Sizes DEF Dist
  <2>4. CASE u + 1 + q >= N
    <3>1. (f + q) % N = u + 1 + q - N
      BY <2>1, <2>4, <1>2, <1>0
    <3> QED
      BY <2>1, <2>2, <2>4, <3>1, <1>0, <1>5, Sizes DEF Dist
  <2> QED
    BY <2>3, <2>4, <1>0
<1> QED
  BY <1>3, <1>4, <1>5

(* The addresses of RAM delimit D sectors from f on, then c words of u.     *)
Layout(u, c, w, f, D) ==
    /\ u \in Sectors /\ c \in 0..(W - 1) /\ w \in BOOLEAN
    /\ StartsAt(u, w) /\ endAddr = u * S + H + c
    /\ f \in Sectors /\ f = IF w THEN NextOf(u) ELSE 0
    /\ D \in Nat /\ D = IF w THEN N - 1 ELSE u

LEMMA Extent ==
    ASSUME NEW u, NEW c, NEW w, NEW f, NEW D, Layout(u, c, w, f, D)
    PROVE /\ First = f /\ Size = D * W + c /\ UsedSize = D * W + c
          /\ startAddr = f * S /\ startAddr \in Nat /\ endAddr \in Nat
          /\ f = 0 => D = u /\ startAddr < endAddr
          /\ f # 0 => D = N - 1 /\ ~(startAddr < endAddr)
<1>0. W \in Nat /\ W >= 1 /\ N \in Nat /\ N >= 2 /\ u \in Nat /\ u < N /\ c \in Nat /\ c < W
      /\ S = W + 1 /\ f \in Nat /\ f < N /\ c \in 0..W /\ u \in Sectors /\ f \in Sectors
  BY Sizes DEF Layout
<1>1. /\ w \in BOOLEAN /\ f = (IF w THEN NextOf(u) ELSE 0)
       /\ D \in Nat /\ D = (IF w THEN N - 1 ELSE u)
  BY DEF Layout
<1>2. PICK x \in Nat : x = u * S
  BY <1>0, Base
<1>3. PICK y \in Nat : y = f * S
  BY <1>0, Base
<1>4. PICK k \in Nat : k = D * W
  BY <1>1, Base
<1>5. PICK v \in Nat : v = D * S
  BY <1>1, Base
<1>6. startAddr = y /\ endAddr = x + 1 + c
  BY <1>2, <1>3 DEF StartsAt, H, Layout
<1>7. First = f
  <2>1. startAddr = f * S + 0 /\ 0 \in 0..W
    BY <1>0, <1>3, <1>6
  <2> QED
    BY <2>1, <1>0, Split DEF First
<1>8. Current = u
  <2>1. endAddr - 1 = u * S + c
    BY <1>0, <1>2, <1>6
  <2> QED
    BY <2>1, <1>0, Split DEF Current
<1>9. (u - f) % N = D
  <2>1. D \in 0..D /\ u \in Sectors /\ f \in Sectors
    BY <1>0, <1>1
  <2> QED
    BY <2>1, <1>1, Place
<1>10. Size = k + c
  <2>1. Size = k + (x + 1 + c) - x - 1
    BY <1>2, <1>4, <1>6, <1>7, <1>8, <1>9 DEF Size, H
  <2> QED
    BY <2>1, <1>0
<1>11. v = k + D
  BY <1>0, <1>4, <1>5, <1>1
<1>12. /\ f = 0 => D = u /\ y = 0
       /\ f # 0 => D = N - 1 /\ f = u + 1
  BY <1>0, <1>3, <1>1 DEF NextOf
<1>13. f # 0 => y = x + S /\ Area = v + S
  <2>1. (u + 1) * S = u * S + S /\ (N - 1 + 1) * S = (N - 1) * S + S /\ N - 1 + 1 = N
    BY <1>0, Base
  <2> QED
    BY <2>1, <1>2, <1>3, <1>5, <1>12 DEF Area
<1>14. IF startAddr < endAddr THEN endAddr - startAddr = v + 1 + c
       ELSE Area - (startAddr - endAddr) = v + 1 + c
  <2>1. CASE f = 0
    BY <2>1, <1>0, <1>2, <1>5, <1>6, <1>12
  <2>2. CASE f # 0
    BY <2>2, <1>0, <1>6, <1>12, <1>13
  <2> QED
    BY <2>1, <2>2
<1>15. (v + 1 + c) \div S = D
  <2>1. 1 + c \in 0..W /\ v + 1 + c = D * S + (1 + c) /\ D \in Nat
    BY <1>0, <1>5, <1>1
  <2> QED
    BY <2>1, Split DEF SectorOf
<1>16. UsedSize = v + 1 + c - (D + 1)
  <2>1. PICK g : g = IF startAddr < endAddr THEN endAddr - startAddr
                    ELSE Area - (startAddr - endAddr)
    OBVIOUS
  <2>2. g = v + 1 + c
    BY <1>14, <2>1
  <2>3. UsedSize = g - (g \div S + 1) * H
    BY <2>1 DEF UsedSize
  <2>4. g \div S = D
    BY <1>15, <2>2
  <2>5. UsedSize = g - (D + 1) * H
    BY <2>3, <2>4
  <2>6. (D + 1) * H = D + 1 /\ D \in Nat /\ c \in Nat
    BY <1>0, <1>1 DEF H
  <2> QED
    BY <2>2, <2>5, <2>6
<1>17. UsedSize = k + c
  BY <1>0, <1>11, <1>16, <1>1
<1>18. f = 0 => startAddr < endAddr
  BY <1>0, <1>6, <1>12
<1>19. f # 0 => ~(startAddr < endAddr)
  BY <1>0, <1>6, <1>13
<1> QED
  BY <1>3, <1>4, <1>6, <1>7, <1>10, <1>12, <1>17, <1>18, <1>19, <1>0

(* Read from its start to its end, the log is the newest words.             *)
LEMMA Newest ==
    ASSUME TypeOK, NEW u \in Sectors, NEW c \in 0..(W - 1), NEW w \in BOOLEAN,
           Held(data, logged, u, c, w), StartsAt(u, w), endAddr = u * S + H + c
    PROVE LET n == Len(Contents) IN
          /\ n \in Nat /\ n <= Len(logged)
          /\ Contents = SubSeq(logged, Len(logged) - n + 1, Len(logged))
          /\ n = Len(logged) \/ n >= (N - 1) * W
<1>0. W \in Nat /\ W >= 1 /\ N \in Nat /\ N >= 2 /\ u \in Nat /\ u < N /\ c \in Nat /\ c < W
  BY Sizes
<1>1. logged \in Seq(Int) /\ data \in [Sectors -> [1..W -> Int]]
  BY DEF TypeOK, Payload
<1>2. PICK m \in Nat : m = Len(logged)
  BY <1>1
<1>3. PICK f \in Sectors : f = IF w THEN NextOf(u) ELSE 0
  BY Sizes DEF NextOf
<1>4. PICK D \in Nat : D = IF w THEN N - 1 ELSE u
  BY <1>0
<1>5. Layout(u, c, w, f, D)
  BY <1>3, <1>4 DEF Layout
<1>6. PICK k \in Nat : k = D * W
  BY Base
<1>7. First = f /\ Size = k + c
  BY <1>5, <1>6, Extent
<1>8. m - c >= k /\ (m - c = k \/ (w /\ k = (N - 1) * W))
  <2>1. IF w THEN m - c >= (N - 1) * W ELSE m - c = u * W
    BY <1>2 DEF Held
  <2> QED
    BY <2>1, <1>0, <1>4, <1>6
<1>9. PICK n \in Nat : n = Size
  BY <1>7, <1>0
<1>10. n = k + c /\ n <= m
  BY <1>7, <1>8, <1>9, <1>0
<1>11. ASSUME NEW i \in 1..n
       PROVE /\ data[(f + ((i - 1) \div W)) % N][((i - 1) % W) + 1] = logged[m - n + i]
             /\ logged[m - n + i] \in Int
  <2>1. PICK q \in Nat : q = (i - 1) \div W
    BY <1>0
  <2>2. PICK r \in 0..(W - 1) : r = (i - 1) % W
    BY <1>0
  <2>3. PICK qW \in Nat : qW = q * W
    BY Base
  <2>4. i - 1 = qW + r
    BY <2>1, <2>2, <2>3, <1>0
  <2>5. q <= D
    <3>1. SUFFICES ASSUME q >= D + 1 PROVE FALSE
      OBVIOUS
    <3>2. (D + 1) * W <= q * W /\ (D + 1) * W = k + W
      BY <3>1, Grows, Base, <1>6
    <3> QED
      BY <3>2, <2>3, <2>4, <1>10, <1>0
  <2>6. logged[m - n + i] \in Int
    <3>1. m - n + i \in 1..m
      BY <1>10, <1>0
    <3> QED
      BY <3>1, <1>1, <1>2
  <2>7. m - n + i = (m - c) - (k - qW) + (r + 1)
    BY <2>4, <1>10, <1>0
  <2>8. PICK s \in Sectors : s = (f + q) % N
    BY <2>5, <1>3, <1>4, Place
  <2>9. r + 1 \in 1..W
    BY <1>0
  <2>10. CASE q = D
    <3>1. s = u /\ qW = k
      BY <2>10, <2>8, <2>3, <1>3, <1>4, <1>6, Place
    <3>2. r + 1 <= c
      BY <3>1, <2>4, <1>10, <1>0
    <3>3. data[u][r + 1] = logged[m - c + (r + 1)]
      BY <3>2, <2>9, <1>2 DEF Held
    <3>4. m - n + i = m - c + (r + 1)
      BY <3>1, <2>7, <1>0
    <3> QED
      BY <3>1, <3>3, <3>4, <2>1, <2>2, <2>6, <2>8
  <2>11. CASE q < D
    <3>1. s # u /\ (w \/ s < u) /\ Dist(s, u) = D - q
      BY <2>11, <2>8, <2>5, <1>3, <1>4, Place
    <3>2. data[s][r + 1] = logged[Back(logged, c, s, u) + (r + 1)]
      BY <3>1, <2>9 DEF Held
    <3>3. (D - q) * W = k - qW
      BY <1>6, <2>3, <1>0
    <3>4. Back(logged, c, s, u) = (m - c) - (k - qW)
      BY <3>1, <3>3, <1>2 DEF Back
    <3> QED
      BY <3>2, <3>4, <2>1, <2>2, <2>6, <2>7, <2>8
  <2> QED
    BY <2>5, <2>10, <2>11
<1>12. Contents = [i \in 1..n |-> logged[m - n + i]]
  BY <1>7, <1>9, <1>11 DEF Contents
<1>13. SubSeq(logged, m - n + 1, m) = [i \in 1..n |-> logged[m - n + i]]
  BY <1>1, <1>2, <1>10
<1>14. Contents \in Seq(Int) /\ Len(Contents) = n
  <2>1. \A i \in (m - n + 1)..m : logged[i] \in Int
    BY <1>1, <1>2, <1>10
  <2>2. m - n + 1 \in Int /\ m \in Int
    OBVIOUS
  <2>3. /\ SubSeq(logged, m - n + 1, m) \in Seq(Int)
        /\ Len(SubSeq(logged, m - n + 1, m)) = IF m - n + 1 <= m THEN m - (m - n + 1) + 1 ELSE 0
    BY <2>1, <2>2, SubSeqProperties
  <2>4. (IF m - n + 1 <= m THEN m - (m - n + 1) + 1 ELSE 0) = n
    OBVIOUS
  <2> QED
    BY <1>12, <1>13, <2>3, <2>4
<1> QED
  BY <1>2, <1>8, <1>10, <1>12, <1>13, <1>14, <1>0

-----------------------------------------------------------------------------
(* The types.                                                               *)

LEMMA PutTypes ==
    ASSUME TypeOK, NEW a \in Int, NEW ws \in Seq(Int), Put(a, ws)
    PROVE status' \in [Sectors -> Statuses] /\ data' \in [Sectors -> Payload]
<1>1. Corrupt \in Int
  BY LogAssumption DEF Corrupt
<1>2. \A x, y \in Int : Programmed(x, y) \in Int
  BY <1>1 DEF Programmed
<1>3. PICK s : s = SectorOf(a)
  OBVIOUS
<1>4. PICK first : first = (a % S) - H + 1
  OBVIOUS
<1>5. data' = [data EXCEPT ![s] = [d \in 1..W |->
                 IF d - first + 1 \in DOMAIN ws THEN Programmed(@[d], ws[d - first + 1]) ELSE @[d]]]
  BY <1>3, <1>4 DEF Put
<1>6. data \in [Sectors -> [1..W -> Int]]
  BY DEF TypeOK, Payload
<1>7. ASSUME s \in Sectors
      PROVE [d \in 1..W |-> IF d - first + 1 \in DOMAIN ws
               THEN Programmed(data[s][d], ws[d - first + 1]) ELSE data[s][d]] \in [1..W -> Int]
  <2>1. ASSUME NEW d \in 1..W
        PROVE (IF d - first + 1 \in DOMAIN ws
               THEN Programmed(data[s][d], ws[d - first + 1]) ELSE data[s][d]) \in Int
    <3>1. data[s][d] \in Int
      BY <1>6, <1>7
    <3>2. \A i \in DOMAIN ws : ws[i] \in Int
      OBVIOUS
    <3> QED
      BY <3>1, <3>2, <1>2
  <2> QED
    BY <2>1
<1>8. data' \in [Sectors -> [1..W -> Int]]
  <2>1. PICK g : g = [d \in 1..W |-> IF d - first + 1 \in DOMAIN ws
               THEN Programmed(data[s][d], ws[d - first + 1]) ELSE data[s][d]]
    OBVIOUS
  <2>2. data' = [data EXCEPT ![s] = g]
    BY <1>5, <2>1
  <2>3. s \in Sectors => g \in [1..W -> Int]
    BY <1>7, <2>1
  <2> QED
    BY <2>2, <2>3, <1>6
<1>9. status' \in [Sectors -> Statuses]
  BY DEF Put, TypeOK, Statuses
<1> QED
  BY <1>8, <1>9 DEF Payload

LEMMA MarkTypes ==
    ASSUME TypeOK, NEW s, NEW new \in Statuses, Mark(s, new)
    PROVE status' \in [Sectors -> Statuses]
<1>1. \A old \in Statuses : AfterMark(old, new) \in Statuses
  BY DEF AfterMark, Statuses
<1>2. status \in [Sectors -> Statuses]
  BY DEF TypeOK
<1>3. status' = [status EXCEPT ![s] = AfterMark(status[s], new)]
  BY DEF Mark
<1>4. s \in Sectors => AfterMark(status[s], new) \in Statuses
  BY <1>1, <1>2
<1> QED
  BY <1>2, <1>3, <1>4

LEMMA Division ==
    ASSUME NEW a \in Int, NEW k \in Nat \ {0}
    PROVE a \div k \in Int /\ a % k \in 0..(k - 1) /\ a = ((a \div k) * k) + (a % k)
OBVIOUS

LEMMA SectorAddresses ==
    ASSUME NEW a \in Int
    PROVE /\ SectorOf(a) \in Int /\ a % S \in 0..W /\ a = (SectorOf(a) * S) + (a % S)
          /\ Room(a) \in 1..S /\ NextSector(a) \in Int
<1>1. S \in Nat \ {0} /\ S = W + 1 /\ W \in Nat /\ N \in Nat \ {0}
  BY Sizes
<1>2. a \div S \in Int /\ a % S \in 0..(S - 1) /\ a = ((a \div S) * S) + (a % S)
  BY <1>1, Division
<1>3. ((a \div S) + 1) % N \in Int
  BY <1>1, <1>2
<1>4. NextSector(a) \in Int
  BY <1>3, <1>1 DEF NextSector, SectorOf
<1> QED
  BY <1>1, <1>2, <1>4 DEF SectorOf, Room

LEMMA WordsType ==
    ASSUME TypeOK, NEW n \in Nat, NEW last
    PROVE Words(n, last) \in Seq(Int) /\ Len(Words(n, last)) = n
<1>1. \A i \in 1..n : next + i \in Int /\ -(next + i) \in Int
  BY DEF TypeOK
<1>2. PICK g : g = Words(n, last)
  OBVIOUS
<1>3. g \in [1..n -> Int]
  BY <1>1, <1>2 DEF Words
<1> QED
  BY <1>2, <1>3

LEMMA InitTypes == Init => TypeOK
<1> SUFFICES ASSUME Init PROVE TypeOK
  OBVIOUS
<1>1. N \in Nat /\ W \in Nat
  BY Sizes
<1>2. Erased \in Payload
  BY DEF Erased, Payload
<1>3. status \in [Sectors -> Statuses] /\ data \in [Sectors -> Payload]
  BY <1>2 DEF Init, Statuses
<1>4. pc \in States /\ fmt \in 0..N
  BY <1>1 DEF Init, States
<1>5. <<>> \in Seq(Int)
  OBVIOUS
<1>6. changing \in BOOLEAN /\ full \in BOOLEAN /\ spoilt \in BOOLEAN /\ dirty \in SUBSET Sectors
  BY DEF Init
<1>7. /\ startAddr \in Int /\ endAddr \in Int /\ writeAddr \in Int
      /\ next \in Nat /\ crashes \in Nat /\ cleans \in Nat
  BY DEF Init
<1>8. rest \in Seq(Int) /\ logged \in Seq(Int)
  BY <1>5 DEF Init
<1> QED
  BY <1>3, <1>4, <1>6, <1>7, <1>8 DEF TypeOK

LEMMA FindTypes ==
    ASSUME NEW u \in Sectors, NEW l \in Int, LastUsed(u) = l
    PROVE FindStart(u) \in Int /\ FindEnd(u) \in Int
<1>1. u \in Nat /\ u * S \in Nat /\ (u + 1) * S \in Nat /\ H \in Nat
  BY Base, Sizes
<1>2. FindStart(u) \in Int
  BY <1>1 DEF FindStart
<1>3. PICK x \in Nat : x = u * S
  BY <1>1
<1>4. FindEnd(u) \in {x + H + l, x + H + (l - 1)}
  BY <1>3 DEF FindEnd
<1> QED
  BY <1>1, <1>2, <1>3, <1>4

LEMMA Least ==
    ASSUME NEW T \in SUBSET Nat, T # {}
    PROVE \E k \in T : \A j \in T : k <= j
<1>1. IsWellFoundedOn(OpToRel(<, Nat), Nat)
  BY NatLessThanWellFounded
<1>2. PICK k \in T : \A j \in T : ~(<<j, k>> \in OpToRel(<, Nat))
  BY <1>1, WFMin, Zenon
<1>3. ASSUME NEW j \in T PROVE k <= j
  <2>1. j \in Nat /\ k \in Nat
    OBVIOUS
  <2>2. ~(<<j, k>> \in OpToRel(<, Nat))
    BY <1>2
  <2>3. ~(j < k)
    BY <2>1, <2>2 DEF OpToRel
  <2> QED
    BY <2>1, <2>3
<1> QED
  BY <1>3

(* The last word of sector u that is not erased.                            *)
LEMMA LastUsedIs ==
    ASSUME NEW u
    PROVE /\ LastUsed(u) \in 0..W
          /\ \A i \in 1..W : i > LastUsed(u) => data[u][i] = 0
          /\ LastUsed(u) > 0 => data[u][LastUsed(u)] # 0
<1> DEFINE used == {i \in 1..W : data[u][i] # 0}
<1> DEFINE above == {k \in Nat : \A j \in used : j <= k}
<1>1. W \in Nat
  BY Sizes
<1>2. W \in above
  BY <1>1
<1>3. PICK k \in above : \A j \in above : k <= j
  BY <1>2, Least
<1>4. k \in used \cup {0}
  <2>1. SUFFICES ASSUME k \notin used, k # 0 PROVE FALSE
    OBVIOUS
  <2>2. k \in Nat /\ k - 1 \in Nat
    BY <2>1
  <2>3. ASSUME NEW j \in used PROVE j <= k - 1
    <3>1. j <= k /\ j # k /\ j \in Nat
      BY <2>1, <1>1
    <3> QED
      BY <3>1, <2>2
  <2>4. k - 1 \in above
    BY <2>2, <2>3
  <2> QED
    BY <2>2, <2>4, <1>3
<1>5. \A j \in used : j <= k
  OBVIOUS
<1>6. LastUsed(u) = CHOOSE i \in used \cup {0} : \A j \in used : j <= i
  BY DEF LastUsed
<1>7. LastUsed(u) \in used \cup {0} /\ \A j \in used : j <= LastUsed(u)
  <2> HIDE DEF used
  <2> QED
    BY <1>4, <1>5, <1>6, Zenon
<1>8. LastUsed(u) \in 0..W
  BY <1>7, <1>1
<1>9. ASSUME NEW i \in 1..W, i > LastUsed(u) PROVE data[u][i] = 0
  <2>1. i \in used => i <= LastUsed(u)
    BY <1>7
  <2> QED
    BY <2>1, <1>8, <1>9, <1>1
<1> QED
  BY <1>7, <1>8, <1>9

LEMMA Parts ==
    ASSUME NEW q \in Seq(Int), NEW n \in Nat, n <= Len(q)
    PROVE /\ SubSeq(q, 1, n) \in Seq(Int) /\ Len(SubSeq(q, 1, n)) = n
          /\ \A i \in 1..n : SubSeq(q, 1, n)[i] = q[i]
          /\ SubSeq(q, n + 1, Len(q)) \in Seq(Int)
          /\ Len(SubSeq(q, n + 1, Len(q))) = Len(q) - n
<1>1. PICK m \in Nat : m = Len(q)
  OBVIOUS
<1>2. /\ \A i \in 1..n : q[i] \in Int
      /\ \A i \in (n + 1)..m : q[i] \in Int
  BY <1>1
<1>3. n + 1 \in Int /\ m \in Int /\ 1 \in Int /\ n \in Int
  OBVIOUS
<1>4. /\ SubSeq(q, 1, n) \in Seq(Int)
      /\ Len(SubSeq(q, 1, n)) = (IF 1 <= n THEN n - 1 + 1 ELSE 0)
      /\ \A i \in 1..(n - 1 + 1) : SubSeq(q, 1, n)[i] = q[1 + i - 1]
  BY <1>2, <1>3, SubSeqProperties
<1>5. /\ SubSeq(q, n + 1, m) \in Seq(Int)
      /\ Len(SubSeq(q, n + 1, m)) = (IF n + 1 <= m THEN m - (n + 1) + 1 ELSE 0)
  BY <1>2, <1>3, SubSeqProperties
<1>6. (IF 1 <= n THEN n - 1 + 1 ELSE 0) = n /\ (IF n + 1 <= m THEN m - (n + 1) + 1 ELSE 0) = m - n
  BY <1>1
<1>7. ASSUME NEW i \in 1..n PROVE SubSeq(q, 1, n)[i] = q[i]
  <2>1. i \in 1..(n - 1 + 1) /\ 1 + i - 1 = i
    OBVIOUS
  <2> QED
    BY <2>1, <1>4
<1> QED
  BY <1>1, <1>4, <1>5, <1>6, <1>7

LEMMA TypeStep == TypeOK /\ Fits /\ [Next]_vars => TypeOK'
<1> SUFFICES ASSUME TypeOK, Fits, [Next]_vars PROVE TypeOK'
  OBVIOUS
<1> USE DEF flash, ram, call, boot
<1>1. CASE Boot
  <2>1. CASE MustClean
    BY <1>1, <2>1 DEF Boot, TypeOK, States
  <2>2. CASE ~MustClean
    <3>1. PICK u \in Using : startAddr' = FindStart(u) /\ endAddr' = FindEnd(u)
      BY <1>1, <2>2 DEF Boot
    <3>2. u \in Sectors /\ LastUsed(u) \in Int
      BY LastUsedIs, Sizes DEF Using
    <3>3. startAddr' \in Int /\ endAddr' \in Int
      BY <3>1, <3>2, FindTypes
    <3>4. /\ pc' = "idle" /\ spoilt' \in BOOLEAN
          /\ UNCHANGED <<flash, call, fmt, crashes, logged, boot, dirty>>
      BY <1>1, <2>2 DEF Boot, TypeOK
    <3> QED
      BY <3>3, <3>4 DEF TypeOK, States, Running
  <2> QED
    BY <2>1, <2>2
<1>2. CASE Clean
  BY <1>2 DEF Clean, TypeOK, States
<1>3. CASE CleanErase
  <2>1. Erased \in Payload /\ "erased" \in Statuses
    BY Sizes DEF Erased, Payload, Statuses
  <2>2. status' \in [Sectors -> Statuses] /\ data' \in [Sectors -> Payload]
    BY <1>3, <2>1 DEF CleanErase, TypeOK
  <2>3. startAddr' \in Int /\ endAddr' \in Int /\ logged' \in Seq(Int) /\ fmt' \in 0..N
    BY <1>3, Sizes DEF CleanErase
  <2>4. dirty' \in SUBSET Sectors /\ full' \in BOOLEAN /\ spoilt' \in BOOLEAN /\ pc' \in States
    BY <1>3 DEF CleanErase, States
  <2>5. UNCHANGED <<call, crashes, changing>>
    BY <1>3 DEF CleanErase
  <2> QED
    BY <2>2, <2>3, <2>4, <2>5 DEF TypeOK
<1>4. CASE Format
  <2>1. status' \in [Sectors -> Statuses]
    BY <1>4, MarkTypes DEF Format, Statuses
  <2>2. fmt' \in 0..N /\ pc' \in States
    BY <1>4, Sizes DEF Format, TypeOK, States, Running
  <2> QED
    BY <1>4, <2>1, <2>2 DEF Format, TypeOK
<1>5. CASE WriteStep
  <2>1. CASE Fill
    <3>0. writeAddr \in Int /\ rest \in Seq(Int) /\ logged \in Seq(Int)
      BY DEF TypeOK
    <3>1. Room(writeAddr) \in Nat /\ writeAddr \in Int /\ rest \in Seq(Int) /\ logged \in Seq(Int)
      <4>1. Room(writeAddr) \in 1..S /\ S \in Nat
        BY <3>0, SectorAddresses, Sizes
      <4> QED
        BY <3>0, <4>1
    <3>2. PICK n \in Nat : n = Room(writeAddr)
      BY <3>1
    <3>3. n <= Len(rest)
      BY <2>1, <3>2 DEF Fill, Fits
    <3>4. SubSeq(rest, 1, n) \in Seq(Int) /\ SubSeq(rest, n + 1, Len(rest)) \in Seq(Int)
      BY <3>1, <3>3, Parts
    <3>5. Put(writeAddr, SubSeq(rest, 1, n))
      BY <2>1, <3>2 DEF Fill
    <3>6. status' \in [Sectors -> Statuses] /\ data' \in [Sectors -> Payload]
      BY <3>1, <3>4, <3>5, PutTypes
    <3>7. logged \o SubSeq(rest, 1, n) \in Seq(Int)
      BY <3>1, <3>4
    <3>8. logged' \in Seq(Int) /\ rest' \in Seq(Int) /\ pc' \in States
      BY <2>1, <3>2, <3>4, <3>7 DEF Fill, States, Running
    <3> QED
      BY <2>1, <3>6, <3>8 DEF Fill, TypeOK
  <2>2. CASE MarkFull
    <3>1. status' \in [Sectors -> Statuses]
      BY <2>2, MarkTypes DEF MarkFull, Statuses
    <3>2. endAddr' \in Int
      BY <2>2, Sizes DEF MarkFull, TypeOK
    <3> QED
      BY <2>2, <3>1, <3>2 DEF MarkFull, TypeOK, States, Running
  <2>3. CASE Erase
    <3>1. PICK a : a = NextSector(writeAddr - 1)
      OBVIOUS
    <3>2. a \in Int /\ NextSector(startAddr) \in Int
      BY <3>1, SectorAddresses DEF TypeOK
    <3>3. Erased \in Payload /\ "erased" \in Statuses
      BY Sizes DEF Erased, Payload, Statuses
    <3>4. status' \in [Sectors -> Statuses] /\ data' \in [Sectors -> Payload]
      BY <2>3, <3>3 DEF Erase, TypeOK
    <3>5. startAddr' \in Int /\ writeAddr' \in Int /\ dirty' \in SUBSET Sectors
      BY <2>3, <3>1, <3>2 DEF Erase, TypeOK
    <3> QED
      BY <2>3, <3>4, <3>5 DEF Erase, TypeOK, States, Running
  <2>4. CASE MarkEmpty
    <3>1. status' \in [Sectors -> Statuses]
      BY <2>4, MarkTypes DEF MarkEmpty, Statuses
    <3> QED
      BY <2>4, <3>1 DEF MarkEmpty, TypeOK, States, Running
  <2>5. CASE MarkUsing
    <3>1. status' \in [Sectors -> Statuses]
      BY <2>5, MarkTypes DEF MarkUsing, Statuses
    <3>2. writeAddr' \in Int /\ pc' \in States
      BY <2>5, Sizes DEF MarkUsing, TypeOK, States, Running
    <3> QED
      BY <2>5, <3>1, <3>2 DEF MarkUsing, TypeOK
  <2>6. CASE Part
    <3>1. writeAddr \in Int /\ rest \in Seq(Int) /\ logged \in Seq(Int)
      BY DEF TypeOK
    <3>2. status' \in [Sectors -> Statuses] /\ data' \in [Sectors -> Payload]
      BY <2>6, <3>1, PutTypes DEF Part
    <3>3. logged \o rest \in Seq(Int) /\ Len(rest) \in Int /\ <<>> \in Seq(Int)
      BY <3>1
    <3>4. logged' \in Seq(Int) /\ endAddr' \in Int /\ rest' \in Seq(Int)
      BY <2>6, <3>1, <3>3 DEF Part
    <3> QED
      BY <2>6, <3>2, <3>4 DEF Part, TypeOK, States, Running
  <2> QED
    BY <1>5, <2>1, <2>2, <2>3, <2>4, <2>5, <2>6 DEF WriteStep
<1>6. ASSUME NEW n \in 1..MaxLen, NEW last \in {"plain", "tail", "blank"}, Write(n, last)
      PROVE TypeOK'
  <2>1. n \in Nat
    BY LogAssumption
  <2>2. rest' \in Seq(Int) /\ next' \in Nat
    BY <1>6, <2>1, WordsType DEF Write, TypeOK
  <2>3. pc' \in States /\ writeAddr' \in Int
    BY <1>6 DEF Write, TypeOK, States, Running
  <2> QED
    BY <1>6, <2>2, <2>3 DEF Write, TypeOK
<1>7. ASSUME NEW k \in 0..W, PowerFails(k) PROVE TypeOK'
  <2>1. status' \in [Sectors -> Statuses] /\ data' \in [Sectors -> Payload] /\ logged' \in Seq(Int)
    <3>1. CASE k = 0
      BY <1>7, <3>1 DEF PowerFails, TypeOK
    <3>2. CASE k # 0
      <4>1. k \in Nat /\ rest \in Seq(Int) /\ logged \in Seq(Int) /\ writeAddr \in Int
        BY Sizes DEF TypeOK
      <4>2. /\ k < Len(rest) /\ Put(writeAddr, SubSeq(rest, 1, k))
            /\ logged' = logged \o SubSeq(rest, 1, k)
        BY <1>7, <3>2 DEF PowerFails
      <4>3. k <= Len(rest)
        BY <4>1, <4>2
      <4>4. SubSeq(rest, 1, k) \in Seq(Int)
        BY <4>1, <4>3, Parts
      <4>5. logged \o SubSeq(rest, 1, k) \in Seq(Int)
        BY <4>1, <4>4
      <4> QED
        BY <4>1, <4>2, <4>4, <4>5, PutTypes
    <3> QED
      BY <3>1, <3>2
  <2>2. /\ startAddr' \in Int /\ endAddr' \in Int /\ writeAddr' \in Int /\ rest' \in Seq(Int)
        /\ fmt' \in 0..N /\ pc' \in States
    <3>1. <<>> \in Seq(Int) /\ 0 \in 0..N
      BY Sizes
    <3> QED
      BY <1>7, <3>1 DEF PowerFails, States
  <2>3. crashes' \in Nat /\ changing' \in BOOLEAN /\ full' \in BOOLEAN
    BY <1>7 DEF PowerFails, TypeOK
  <2>4. UNCHANGED <<next, cleans, dirty, spoilt>>
    BY <1>7 DEF PowerFails
  <2> QED
    BY <2>1, <2>2, <2>3, <2>4 DEF TypeOK
<1>8. CASE UNCHANGED vars
  BY <1>8 DEF vars, TypeOK
<1> QED
  BY <1>1, <1>2, <1>3, <1>4, <1>5, <1>6, <1>7, <1>8 DEF Next, Step

LEMMA FitsStep == TypeOK /\ Fits /\ [Next]_vars => Fits'
<1> SUFFICES ASSUME TypeOK, Fits, [Next]_vars PROVE Fits'
  OBVIOUS
<1>0. writeAddr \in Int /\ endAddr \in Int
  BY DEF TypeOK
<1>1. CASE pc' \notin {"fillOld", "fillNew", "empty", "using"}
  BY <1>1 DEF Fits
<1>2. CASE UNCHANGED vars
  BY <1>2 DEF vars, call, Fits, Room
<1>3. ASSUME NEW n \in 1..MaxLen, NEW last \in {"plain", "tail", "blank"}, Write(n, last)
      PROVE Fits'
  <2>1. n \in Nat
    BY LogAssumption
  <2>2. Len(rest') = n
    BY <1>3, <2>1, WordsType DEF Write
  <2>3. pc' = "fillOld" => Room(writeAddr') <= Len(rest')
    <3>1. Room(endAddr) \in Int
      BY <1>0, SectorAddresses, Sizes
    <3>2. pc' = "fillOld" => n >= Room(endAddr)
      BY <1>3 DEF Write
    <3>3. writeAddr' = endAddr
      BY <1>3 DEF Write
    <3> QED
      BY <2>1, <2>2, <3>1, <3>2, <3>3
  <2>4. pc' \in {"erase", "fillOld", "part"}
    BY <1>3 DEF Write
  <2> QED
    BY <2>3, <2>4 DEF Fits, Room
<1>4. CASE Erase
  <2>1. pc' = "empty" /\ writeAddr' = NextSector(writeAddr - 1)
    BY <1>4 DEF Erase
  <2>2. PICK v : v = (SectorOf(writeAddr - 1) + 1) % N
    OBVIOUS
  <2>3. v \in Nat
    <3>1. writeAddr - 1 \in Int /\ N \in Nat \ {0}
      BY <1>0, Sizes
    <3>2. SectorOf(writeAddr - 1) + 1 \in Int
      BY <3>1, SectorAddresses
    <3> QED
      BY <2>2, <3>1, <3>2
  <2>4. writeAddr' = v * S + 0 /\ 0 \in 0..W
    BY <2>1, <2>2, <2>3, Base, Sizes DEF NextSector
  <2>5. writeAddr' % S = 0
    BY <2>3, <2>4, Split
  <2> QED
    BY <2>1, <2>5 DEF Fits
<1>5. CASE MarkEmpty
  <2>1. pc' = "using" /\ writeAddr' = writeAddr /\ writeAddr % S = 0
    BY <1>5 DEF MarkEmpty, call, Fits
  <2> QED
    BY <2>1 DEF Fits
<1>6. CASE MarkUsing
  <2>1. pc' = "fillNew" \/ pc' = "part"
    BY <1>6 DEF MarkUsing
  <2>2. CASE pc' = "fillNew"
    <3>1. writeAddr % S = 0 /\ writeAddr' = writeAddr + H /\ rest' = rest /\ Len(rest) >= W
      BY <1>6, <2>2 DEF MarkUsing, Fits
    <3>2. PICK s \in Int : writeAddr = s * S
      <4>1. writeAddr = (SectorOf(writeAddr) * S) + 0 /\ SectorOf(writeAddr) \in Int
        BY <1>0, <3>1, SectorAddresses
      <4>2. SectorOf(writeAddr) * S \in Int
        BY <4>1, Sizes
      <4> QED
        BY <4>1, <4>2
    <3>3. (writeAddr + H) % S = 1
      BY <3>2, <3>1, Sizes, <1>0
    <3>4. Room(writeAddr') = W
      BY <3>1, <3>3, Sizes DEF Room
    <3> QED
      BY <2>2, <3>1, <3>4 DEF Fits
  <2> QED
    BY <2>1, <2>2 DEF Fits
<1>7. pc' \in {"fillOld", "fillNew", "empty", "using"} =>
         \/ UNCHANGED vars \/ Erase \/ MarkEmpty \/ MarkUsing
         \/ \E n \in 1..MaxLen, last \in {"plain", "tail", "blank"} : Write(n, last)
  BY DEF Next, Step, WriteStep, Boot, Clean, CleanErase, Format, Fill, MarkFull, Part, PowerFails
<1> QED
  BY <1>1, <1>2, <1>3, <1>4, <1>5, <1>6, <1>7

(* Every variable keeps its type.                                           *)
THEOREM TypeCorrect == Spec => []TypeOK
<1>1. Init => TypeOK /\ Fits
  BY InitTypes DEF Init, Fits
<1>2. TypeOK /\ Fits /\ [Next]_vars => TypeOK' /\ Fits'
  BY TypeStep, FitsStep
<1> QED
  BY <1>1, <1>2, PTL DEF Spec

-----------------------------------------------------------------------------
(* The steps of a write, at sector u with c words.                          *)

Stage(u, c) ==
    \/ pc = "idle" /\ status[u] = "using" /\ c < W /\ endAddr = u * S + H + c
    \/ /\ pc \in {"fillOld", "fillNew", "part"} /\ status[u] = "using" /\ c < W
       /\ writeAddr = u * S + H + c /\ (pc = "part" => Len(rest) < W - c)
    \/ /\ pc \in {"fullOld", "fullNew"} /\ status[u] = "using" /\ c = W
       /\ \E r \in H..W : writeAddr = u * S + r
    \/ /\ pc = "erase" /\ status[u] = "full" /\ c = W
       /\ \E r \in H..W : writeAddr = u * S + r
    \/ pc = "empty" /\ status[u] = "erased" /\ c = 0 /\ writeAddr = u * S
    \/ pc = "using" /\ status[u] = "empty" /\ c = 0 /\ writeAddr = u * S

LEMMA PassSame ==
    ASSUME NEW st \in [Sectors -> Statuses], NEW di, NEW u \in Sectors, NEW w \in BOOLEAN,
           Pass(st, di, u, w), NEW x, NEW e, e = [st EXCEPT ![u] = x]
    PROVE Pass(e, di, u, w)
<1>1. \A s \in Sectors : s # u => e[s] = st[s]
  OBVIOUS
<1>2. \A s \in Sectors : ~(s < u /\ s = u) /\ ~(s > u /\ s = u)
  BY Sizes
<1> QED
  BY <1>1, <1>2 DEF Pass

LEMMA PassNext ==
    ASSUME NEW st \in [Sectors -> Statuses], NEW di, NEW u \in Sectors, NEW w \in BOOLEAN,
           Pass(st, di, u, w), st[u] = "full", NEW v \in Sectors, v = NextOf(u),
           NEW e, e = [st EXCEPT ![v] = "erased"]
    PROVE Pass(e, di \ {v}, v, w \/ v = 0)
<1>1. \A s \in Sectors : s # v => e[s] = st[s]
  OBVIOUS
<1>2. u \in Nat /\ u < N /\ N \in Nat /\ v \in Nat
  BY Sizes
<1>3. CASE w
  BY <1>1, <1>3 DEF Pass
<1>4. CASE ~w /\ v = 0
  <2>1. u = N - 1
    BY <1>2, <1>4 DEF NextOf
  <2>2. ASSUME NEW s \in Sectors \ {v} PROVE e[s] = "full"
    <3>1. s < u \/ s = u
      BY <2>1, Sizes
    <3> QED
      BY <3>1, <1>1, <1>4 DEF Pass
  <2> QED
    BY <2>2, <1>4 DEF Pass
<1>5. CASE ~w /\ v # 0
  <2>1. v = u + 1
    BY <1>2, <1>5 DEF NextOf
  <2>2. ASSUME NEW s \in Sectors
        PROVE /\ s < v => e[s] = "full"
              /\ s > v /\ s \notin di \ {v} => e[s] = "empty"
    <3>1. s \in Nat
      BY Sizes
    <3>2. s < v => s < u \/ s = u
      BY <3>1, <2>1, <1>2
    <3>3. s > v => s > u /\ s # v
      BY <3>1, <2>1, <1>2
    <3>4. s < v => s # v
      BY <3>1, <1>2
    <3> QED
      BY <3>2, <3>3, <3>4, <1>1, <1>5 DEF Pass
  <2> QED
    BY <2>2, <1>5 DEF Pass
<1> QED
  BY <1>3, <1>4, <1>5

(* Words put behind the c words of a sector.                                *)
LEMMA PutBehind ==
    ASSUME TypeOK, NEW u \in Sectors, NEW c \in 0..(W - 1), NEW ws \in Seq(Int),
           Put(u * S + H + c, ws)
    PROVE /\ status' = status
          /\ data' = [data EXCEPT ![u] = [i \in 1..W |->
                IF i - c \in DOMAIN ws THEN Programmed(@[i], ws[i - c]) ELSE @[i]]]
<1>0. u \in Nat /\ W \in Nat /\ c \in Nat /\ c < W /\ H = 1
  BY Sizes
<1>1. PICK x \in Nat : x = u * S
  BY Base, <1>0
<1>2. PICK a : a = u * S + H + c
  OBVIOUS
<1>3. a = u * S + (c + 1) /\ c + 1 \in 0..W
  BY <1>0, <1>1, <1>2
<1>4. SectorOf(a) = u /\ a % S = c + 1
  BY <1>0, <1>3, Split
<1>5. (a % S) - H + 1 = c + 1
  BY <1>0, <1>4
<1>6. ~((a % S) - H + 1 < 1)
  BY <1>0, <1>5
<1>7. status' = status
  BY <1>2, <1>6 DEF Put
<1>8. data' = [data EXCEPT ![u] = [d \in 1..W |->
                 IF d - (c + 1) + 1 \in DOMAIN ws
                 THEN Programmed(@[d], ws[d - (c + 1) + 1]) ELSE @[d]]]
  BY <1>2, <1>4, <1>5 DEF Put
<1>9. \A d \in 1..W : d - (c + 1) + 1 = d - c
  BY <1>0
<1> QED
  BY <1>7, <1>8, <1>9

LEMMA RoomBehind ==
    ASSUME NEW u \in Sectors, NEW c \in 0..(W - 1)
    PROVE /\ SectorOf(u * S + H + c) = u /\ Room(u * S + H + c) = W - c
          /\ u * S + H + c \in Nat /\ u * S + H + c < Area
<1>0. u \in Nat /\ W \in Nat /\ c \in Nat /\ c < W /\ H = 1 /\ S = W + 1 /\ u < N /\ N \in Nat
  BY Sizes
<1>1. PICK x \in Nat : x = u * S
  BY Base, <1>0
<1>2. PICK a \in Nat : a = u * S + H + c
  BY <1>0, <1>1
<1>3. a = u * S + (c + 1) /\ c + 1 \in 0..W
  BY <1>0, <1>1, <1>2
<1>4. SectorOf(a) = u /\ a % S = c + 1
  BY <1>0, <1>3, Split
<1>5. Room(a) = W - c
  BY <1>4, <1>0 DEF Room
<1>6. a < Area
  <2>1. u + 1 \in Int /\ N \in Int /\ u + 1 <= N
    BY <1>0
  <2>2. (u + 1) * S <= N * S /\ (u + 1) * S = x + S /\ N * S \in Int
    BY <2>1, Grows, Base, <1>0, <1>1
  <2> QED
    BY <2>2, <1>0, <1>1, <1>2 DEF Area
<1> QED
  BY <1>2, <1>4, <1>5, <1>6

LEMMA FillStep ==
    ASSUME TypeOK, Fits, NEW u \in Sectors, NEW c \in 0..W, Stage(u, c), Fill
    PROVE /\ Stage(u, W)' /\ status' = status
          /\ \A s \in Sectors \ {u} : data'[s] = data[s]
          /\ \A w \in BOOLEAN : Held(data, logged, u, c, w) => Held(data', logged', u, W, w)
<1>0. W \in Nat /\ H = 1 /\ c \in Nat /\ W >= 1
  BY Sizes
<1>1. /\ pc \in {"fillOld", "fillNew"} /\ status[u] = "using" /\ c < W
      /\ writeAddr = u * S + H + c
  BY DEF Stage, Fill
<1>2. c \in 0..(W - 1)
  BY <1>0, <1>1
<1>3. Room(writeAddr) = W - c
  BY <1>1, <1>2, RoomBehind
<1>4. PICK n \in Nat : n = W - c
  BY <1>0, <1>1
<1>5. n <= Len(rest) /\ rest \in Seq(Int)
  BY <1>1, <1>3, <1>4 DEF Fits, TypeOK
<1>6. PICK ws \in Seq(Int) : ws = SubSeq(rest, 1, n) /\ Len(ws) = n
  BY <1>5, Parts
<1>7. Put(u * S + H + c, ws) /\ logged' = logged \o ws
  BY <1>1, <1>3, <1>4, <1>6 DEF Fill
<1>8. /\ status' = status
      /\ data' = [data EXCEPT ![u] = [i \in 1..W |->
             IF i - c \in DOMAIN ws THEN Programmed(@[i], ws[i - c]) ELSE @[i]]]
  BY <1>2, <1>7, PutBehind
<1>9. ASSUME NEW w \in BOOLEAN, Held(data, logged, u, c, w)
      PROVE Held(data', logged', u, W, w)
  <2>1. n <= W - c /\ c + n = W
    BY <1>0, <1>4
  <2>2. data \in [Sectors -> Payload] /\ logged \in Seq(Int)
    BY DEF TypeOK
  <2>3. Held(data', logged \o ws, u, c + n, w)
    BY <1>6, <1>8, <1>9, <2>1, <2>2, Appends
  <2> QED
    BY <1>7, <2>1, <2>3
<1>10. Stage(u, W)'
  <2>1. c + 1 \in H..W /\ writeAddr = u * S + (c + 1)
    <3>1. u * S \in Nat
      BY Base, Sizes
    <3> QED
      BY <3>1, <1>0, <1>1
  <2>2. pc' \in {"fullOld", "fullNew"} /\ writeAddr' = writeAddr
    BY DEF Fill
  <2> QED
    BY <1>1, <1>8, <2>1, <2>2 DEF Stage
<1>11. \A s \in Sectors \ {u} : data'[s] = data[s]
  BY <1>8 DEF TypeOK
<1> QED
  BY <1>8, <1>9, <1>10, <1>11

LEMMA PartStep ==
    ASSUME TypeOK, NEW u \in Sectors, NEW c \in 0..W, Stage(u, c), Part
    PROVE \E b \in 0..(W - 1) :
          /\ Stage(u, b)' /\ status' = status
          /\ data'[u][W] = data[u][W]
          /\ \A s \in Sectors \ {u} : data'[s] = data[s]
          /\ \A w \in BOOLEAN : Held(data, logged, u, c, w) => Held(data', logged', u, b, w)
<1>0. W \in Nat /\ H = 1 /\ c \in Nat /\ W >= 1
  BY Sizes
<1>1. /\ status[u] = "using" /\ c < W
      /\ writeAddr = u * S + H + c /\ Len(rest) < W - c
  BY DEF Stage, Part
<1>2. c \in 0..(W - 1)
  BY <1>0, <1>1
<1>3. rest \in Seq(Int)
  BY DEF TypeOK
<1>4. PICK n \in Nat : n = Len(rest)
  BY <1>3
<1>5. Put(u * S + H + c, rest) /\ logged' = logged \o rest
  BY <1>1 DEF Part
<1>6. /\ status' = status
      /\ data' = [data EXCEPT ![u] = [i \in 1..W |->
             IF i - c \in DOMAIN rest THEN Programmed(@[i], rest[i - c]) ELSE @[i]]]
  BY <1>2, <1>3, <1>5, PutBehind
<1>7. PICK b \in 0..(W - 1) : b = c + n
  BY <1>0, <1>1, <1>4
<1>8. ASSUME NEW w \in BOOLEAN, Held(data, logged, u, c, w)
      PROVE Held(data', logged', u, b, w)
  <2>1. n <= W - c
    BY <1>0, <1>1, <1>4
  <2>2. data \in [Sectors -> Payload] /\ logged \in Seq(Int)
    BY DEF TypeOK
  <2>3. Held(data', logged \o rest, u, c + n, w)
    BY <1>3, <1>4, <1>6, <1>8, <2>1, <2>2, Appends
  <2> QED
    BY <1>5, <1>7, <2>3
<1>9. Stage(u, b)'
  <2>1. u * S \in Nat
    BY Base, Sizes
  <2>2. pc' = "idle" /\ endAddr' = (u * S + H + c) + n
    BY <1>1, <1>4 DEF Part
  <2>3. endAddr' = u * S + H + b /\ b < W
    BY <2>1, <2>2, <1>0, <1>7
  <2> QED
    BY <1>1, <1>6, <2>2, <2>3 DEF Stage
<1>10. data'[u][W] = data[u][W] /\ \A s \in Sectors \ {u} : data'[s] = data[s]
  <2>1. W \in 1..W /\ W - c \notin DOMAIN rest
    BY <1>0, <1>1, <1>3
  <2> QED
    BY <1>6, <2>1 DEF TypeOK
<1> QED
  BY <1>6, <1>8, <1>9, <1>10

LEMMA MarkFullStep ==
    ASSUME TypeOK, NEW u \in Sectors, NEW c \in 0..W, Stage(u, c), MarkFull
    PROVE /\ c = W /\ Stage(u, W)' /\ status' = [status EXCEPT ![u] = "full"]
<1>1. PICK r \in H..W : writeAddr = u * S + r
  BY DEF Stage, MarkFull
<1>2. status[u] = "using" /\ c = W
  BY DEF Stage, MarkFull
<1>3. SectorOf(writeAddr) = u
  BY <1>1, Split, Sizes
<1>4. status' = [status EXCEPT ![u] = "full"]
  BY <1>2, <1>3 DEF MarkFull, Mark, AfterMark
<1>5. pc' = "erase" /\ writeAddr' = writeAddr /\ status'[u] = "full"
  BY <1>4 DEF MarkFull, call, TypeOK
<1> QED
  BY <1>1, <1>2, <1>4, <1>5 DEF Stage

LEMMA EraseStep ==
    ASSUME TypeOK, NEW u \in Sectors, NEW c \in 0..W, Stage(u, c), Erase
    PROVE \E v \in Sectors :
          /\ v = NextOf(u) /\ status[u] = "full" /\ c = W /\ Stage(v, 0)'
          /\ status' = [status EXCEPT ![v] = "erased"] /\ data' = [data EXCEPT ![v] = Erased]
          /\ dirty' = dirty \ {v}
          /\ \A w \in BOOLEAN : StartsAt(u, w) => StartsAt(v, w \/ v = 0)'
<1>0. W \in Nat /\ H = 1 /\ u \in Nat /\ W >= 1
  BY Sizes
<1>1. PICK r \in H..W : writeAddr = u * S + r
  BY DEF Stage, Erase
<1>2. status[u] = "full" /\ c = W
  BY DEF Stage, Erase
<1>3. SectorOf(writeAddr - 1) = u /\ writeAddr - 1 \in Int
  <2>1. PICK x \in Nat : x = u * S
    BY Base, <1>0
  <2>2. writeAddr - 1 = u * S + (r - 1) /\ r - 1 \in 0..W
    BY <1>1, <2>1, <1>0
  <2>3. u * S + (r - 1) \in Int
    BY <2>1, <1>0
  <2> QED
    BY <2>2, <2>3, <1>0, Split
<1>4. PICK v \in Sectors : v = NextOf(u) /\ NextSector(writeAddr - 1) = v * S
  BY <1>3, Following
<1>5. v \in Nat /\ v * S = v * S + 0 /\ 0 \in 0..W /\ v * S \in Nat
  BY <1>4, Base, Sizes
<1>6. SectorOf(v * S) = v
  BY <1>5, Split
<1>7. /\ startAddr' = (IF startAddr = v * S THEN NextSector(startAddr) ELSE startAddr)
      /\ status' = [status EXCEPT ![v] = "erased"] /\ data' = [data EXCEPT ![v] = Erased]
      /\ writeAddr' = v * S /\ dirty' = dirty \ {v} /\ pc' = "empty"
  BY <1>4, <1>6 DEF Erase
<1>8. Stage(v, 0)'
  <2>1. status'[v] = "erased"
    BY <1>7 DEF TypeOK
  <2> QED
    BY <1>7, <2>1 DEF Stage
<1>9. ASSUME NEW w \in BOOLEAN, StartsAt(u, w) PROVE StartsAt(v, w \/ v = 0)'
  <2>1. NextSector(v * S) = NextOf(v) * S
    BY <1>5, <1>6, Following
  <2>2. CASE w \/ v = 0
    <3>1. startAddr = v * S
      BY <1>4, <1>9, <2>2 DEF StartsAt
    <3> QED
      BY <1>7, <2>1, <2>2, <3>1 DEF StartsAt
  <2>3. CASE ~(w \/ v = 0)
    <3>1. startAddr = 0 * S
      BY <1>9, <2>3 DEF StartsAt
    <3>2. 0 * S = 0 /\ v * S # 0
      <4>1. 0 + 1 <= v /\ (0 + 1) * S = 0 * S + S /\ 0 * S = 0 /\ S >= 2 /\ S \in Nat
        BY <1>5, <2>3, Base, Sizes
      <4>2. (0 + 1) * S <= v * S
        BY <4>1, <1>5, Grows
      <4> QED
        BY <4>1, <4>2, <1>5
    <3>3. startAddr' = startAddr
      BY <1>7, <3>1, <3>2
    <3> QED
      BY <3>1, <3>3, <2>3 DEF StartsAt
  <2> QED
    BY <2>2, <2>3
<1> QED
  BY <1>2, <1>4, <1>7, <1>8, <1>9

LEMMA MarkEmptyStep ==
    ASSUME TypeOK, NEW u \in Sectors, NEW c \in 0..W, Stage(u, c), MarkEmpty
    PROVE c = 0 /\ Stage(u, 0)' /\ status' = [status EXCEPT ![u] = "empty"]
<1>1. status[u] = "erased" /\ c = 0 /\ writeAddr = u * S
  BY DEF Stage, MarkEmpty
<1>2. SectorOf(writeAddr) = u
  <2>1. u * S = u * S + 0 /\ 0 \in 0..W /\ u \in Nat
    BY Base, Sizes
  <2> QED
    BY <2>1, <1>1, Split
<1>3. status' = [status EXCEPT ![u] = "empty"]
  BY <1>1, <1>2 DEF MarkEmpty, Mark, AfterMark
<1>4. pc' = "using" /\ writeAddr' = writeAddr /\ status'[u] = "empty"
  BY <1>3 DEF MarkEmpty, call, TypeOK
<1> QED
  BY <1>1, <1>3, <1>4 DEF Stage

LEMMA MarkUsingStep ==
    ASSUME TypeOK, NEW u \in Sectors, NEW c \in 0..W, Stage(u, c), MarkUsing
    PROVE c = 0 /\ Stage(u, 0)' /\ status' = [status EXCEPT ![u] = "using"]
<1>1. status[u] = "empty" /\ c = 0 /\ writeAddr = u * S
  BY DEF Stage, MarkUsing
<1>2. SectorOf(writeAddr) = u /\ u * S \in Nat /\ W \in Nat /\ W >= 1 /\ H = 1
  <2>1. u * S = u * S + 0 /\ 0 \in 0..W /\ u \in Nat
    BY Base, Sizes
  <2> QED
    BY <2>1, <1>1, Split, Base, Sizes
<1>3. status' = [status EXCEPT ![u] = "using"]
  BY <1>1, <1>2 DEF MarkUsing, Mark, AfterMark
<1>4. /\ pc' \in {"fillNew", "part"} /\ writeAddr' = u * S + H + 0 /\ status'[u] = "using"
      /\ rest' = rest
  BY <1>1, <1>2, <1>3 DEF MarkUsing, TypeOK
<1>5. pc' = "part" => Len(rest) < W - 0
  <2>1. Len(rest) \in Nat
    BY DEF TypeOK
  <2> QED
    BY <2>1, <1>2 DEF MarkUsing
<1>6. 0 < W
  BY <1>2
<1> QED
  BY <1>1, <1>3, <1>4, <1>5, <1>6 DEF Stage

LEMMA WriteCall ==
    ASSUME TypeOK, NEW u \in Sectors, NEW c \in 0..W, Stage(u, c),
           NEW n \in 1..MaxLen, NEW last \in {"plain", "tail", "blank"}, Write(n, last)
    PROVE Stage(u, c)'
<1>0. W \in Nat /\ c \in Nat /\ n \in Nat
  BY Sizes, LogAssumption
<1>1. status[u] = "using" /\ c < W /\ endAddr = u * S + H + c
  BY DEF Stage, Write
<1>2. c \in 0..(W - 1)
  BY <1>0, <1>1
<1>3. SectorOf(endAddr) = u /\ Room(endAddr) = W - c
  BY <1>1, <1>2, RoomBehind
<1>4. writeAddr' = endAddr /\ status' = status /\ rest' = Words(n, last)
  BY DEF Write, flash
<1>5. pc' = IF n >= W - c THEN "fillOld" ELSE "part"
  BY <1>1, <1>3 DEF Write
<1>6. Len(rest') = n
  BY <1>0, <1>4, WordsType
<1>7. pc' = "part" => Len(rest') < W - c
  BY <1>0, <1>5, <1>6
<1> QED
  BY <1>1, <1>4, <1>5, <1>7 DEF Stage

-----------------------------------------------------------------------------
(* What a boot finds.                                                       *)

LEMMA NoUsing ==
    ASSUME \A s \in Sectors : status[s] # "using"
    PROVE MustClean
<1>1. Using = {}
  BY DEF Using
<1>2. Cardinality({}) = 0
  BY FS_EmptySet
<1> QED
  BY <1>1, <1>2 DEF MustClean

LEMMA Accepted ==
    ASSUME NEW u \in Sectors, NEW w \in BOOLEAN, status[u] = "using", Pass(status, {}, u, w)
    PROVE /\ ~MustClean /\ Using = {u}
          /\ FindStart(u) = (IF w THEN NextOf(u) ELSE 0) * S
<1>0. u \in Nat /\ u < N /\ N \in Nat /\ N >= 2 /\ S \in Nat
  BY Sizes
<1>1. ASSUME NEW s \in Sectors, s # u PROVE status[s] \in {"full", "empty"}
  <2>1. s < u \/ s > u
    BY <1>0, <1>1, Sizes
  <2> QED
    BY <1>1, <2>1 DEF Pass
<1>2. Using = {u}
  BY <1>1 DEF Using
<1>3. Cardinality(Using) = 1
  BY <1>2, FS_Singleton
<1>4. ASSUME NEW s \in Sectors \ {N - 1}
      PROVE <<status[s], status[s + 1]>> \notin
              {<<"empty", "using">>, <<"empty", "full">>, <<"using", "using">>}
  <2>1. s \in Nat /\ s + 1 \in Sectors /\ s # s + 1
    BY Sizes
  <2>2. CASE s = u
    BY <1>1, <2>1, <2>2
  <2>3. CASE s < u \/ w
    <3>1. s # u => status[s] = "full"
      BY <2>3 DEF Pass
    <3> QED
      BY <2>2, <3>1
  <2>4. CASE s > u /\ ~w
    <3>1. s + 1 > u /\ s + 1 # u
      BY <2>1, <2>4, <1>0
    <3>2. status[s + 1] = "empty"
      BY <2>1, <2>4, <3>1 DEF Pass
    <3> QED
      BY <3>2
  <2> QED
    BY <2>1, <2>2, <2>3, <2>4, <1>0
<1>5. ASSUME NEW r \in Sectors \ {N - 1}, NEW s \in Sectors \ {N - 1}, r < s,
             status[r] = "using", status[r + 1] = "full",
             status[s] = "full", status[s + 1] = "empty"
      PROVE FALSE
  <2>1. r = u
    BY <1>1, <1>5
  <2>2. r \in Nat /\ s \in Nat /\ r + 1 \in Sectors /\ s + 1 \in Sectors /\ r + 1 > u /\ s + 1 > u
    BY <1>5, <2>1, Sizes
  <2>3. CASE w
    BY <1>5, <2>2, <2>3, <1>0 DEF Pass
  <2>4. CASE ~w
    BY <1>5, <2>2, <2>4 DEF Pass
  <2> QED
    BY <2>3, <2>4
<1>6. ~Disorder
  BY <1>4, <1>5 DEF Disorder
<1>7. ~MustClean
  BY <1>1, <1>3, <1>6 DEF MustClean
<1>8. FindStart(u) = (IF w THEN NextOf(u) ELSE 0) * S
  <2>1. 0 * S = 0
    BY <1>0
  <2>2. CASE u = N - 1
    BY <1>0, <2>1, <2>2 DEF FindStart, NextOf
  <2>3. CASE u # N - 1
    <3>1. u < N - 1 /\ u + 1 \in Sectors /\ u + 1 # u /\ u + 1 > u
      BY <1>0, <2>3, Sizes
    <3>2. status[u + 1] = IF w THEN "full" ELSE "empty"
      BY <3>1 DEF Pass
    <3> QED
      BY <2>1, <2>3, <3>1, <3>2 DEF FindStart, NextOf
  <2> QED
    BY <2>2, <2>3
<1> QED
  BY <1>2, <1>7, <1>8

LEMMA EndFound ==
    ASSUME TypeOK, NEW u \in Sectors, NEW c \in 0..(W - 1), NEW w \in BOOLEAN,
           Held(data, logged, u, c, w), logged = <<>> \/ ~(logged[Len(logged)] <= 0)
    PROVE FindEnd(u) = u * S + H + c
<1>0. W \in Nat /\ c \in Nat /\ c < W /\ u \in Nat /\ N \in Nat /\ N >= 2
  BY Sizes
<1>1. PICK l \in 0..W : /\ l = LastUsed(u) /\ \A i \in 1..W : i > l => data[u][i] = 0
                        /\ l > 0 => data[u][l] # 0
  BY LastUsedIs
<1>2. PICK m \in Nat : m = Len(logged)
  BY DEF TypeOK
<1>3. \A i \in 1..W : data[u][i] = IF i <= c THEN logged[m - c + i] ELSE 0
  BY <1>2 DEF Held
<1>4. l <= c
  <2>1. SUFFICES ASSUME l > c PROVE FALSE
    BY <1>0
  <2>2. l \in 1..W /\ ~(l <= c) /\ l > 0
    BY <2>1, <1>0
  <2> QED
    BY <2>2, <1>1, <1>3
<1>5. CASE c = 0
  <2>1. LastUsed(u) = 0 /\ ~(0 \in 1..(W - 1))
    BY <1>1, <1>4, <1>5
  <2>2. FindEnd(u) = u * S + H + 0
    BY <2>1 DEF FindEnd
  <2> QED
    BY <2>2, <1>5
<1>6. CASE c # 0
  <2>1. m - c >= 0
    <3>1. u * W \in Nat
      BY Base, <1>0
    <3>2. N - 1 \in Nat
      BY <1>0
    <3>3. PICK q \in Nat : q = (N - 1) * W
      BY <3>2, Base
    <3>4. IF w THEN m - c >= (N - 1) * W ELSE m - c = u * W
      BY <1>2 DEF Held
    <3> QED
      BY <3>1, <3>3, <3>4
  <2>2. m \in 1..m /\ logged # <<>>
    BY <2>1, <1>0, <1>2, <1>6
  <2>3. logged[m] \in Int /\ ~(logged[m] <= 0)
    BY <2>2, <1>2 DEF TypeOK
  <2>4. c \in 1..W /\ m - c + c = m
    BY <1>0, <1>6
  <2>5. data[u][c] = logged[m]
    BY <1>3, <2>4, <1>0
  <2>6. l = c
    <3>1. SUFFICES ASSUME l < c PROVE FALSE
      BY <1>0, <1>4
    <3>2. data[u][c] = 0
      BY <1>1, <2>4, <3>1
    <3> QED
      BY <2>3, <2>5, <3>2
  <2>7. LastUsed(u) = c /\ ~(data[u][c] < 0)
    BY <1>1, <2>3, <2>5, <2>6
  <2> QED
    BY <2>7 DEF FindEnd
<1> QED
  BY <1>5, <1>6

-----------------------------------------------------------------------------
(* The invariant of the log until a boot takes a wrong end or start.        *)

At(u, c, w) ==
    /\ Pass(status, dirty, u, w) /\ Stage(u, c)
    /\ Held(data, logged, u, c, w) /\ StartsAt(u, w)
Going == \E u \in Sectors, c \in 0..W, w \in BOOLEAN : At(u, c, w)

(* Left behind by a power failure.                                          *)
Found ==
    \/ MustClean
    \/ \E u \in Sectors, c \in 0..(W - 1), w \in BOOLEAN :
          status[u] = "using" /\ Pass(status, {}, u, w) /\ Held(data, logged, u, c, w)

Formatting ==
    /\ logged = <<>> /\ startAddr = 0 /\ endAddr = H /\ data[0] = Erased /\ 0 \notin dirty
    /\ status[0] = IF fmt = 0 THEN "erased" ELSE IF fmt = 1 THEN "empty" ELSE "using"
    /\ \A s \in Sectors \ {0} : s \notin dirty =>
          status[s] \in {"erased", "empty"} /\ (s < fmt - 1 => status[s] = "empty")

Regular ==
    ~full /\ ~spoilt =>
        /\ pc \in Running => Going
        /\ pc = "format" => Formatting
        /\ pc \in {"off", "clean"} /\ dirty = {} => Found

LInv == TypeOK /\ Fits /\ Regular

LEMMA WriteStepAt ==
    ASSUME TypeOK, TypeOK', Fits, Going, WriteStep PROVE Going'
<1>1. PICK u \in Sectors, c \in 0..W, w \in BOOLEAN : At(u, c, w)
  BY DEF Going
<1>2. /\ Pass(status, dirty, u, w) /\ Stage(u, c)
      /\ Held(data, logged, u, c, w) /\ StartsAt(u, w)
  BY <1>1 DEF At
<1>3. W \in 0..W /\ 0 \in 0..W /\ \A b \in 0..(W - 1) : b \in 0..W
  BY Sizes
<1>4. status \in [Sectors -> Statuses] /\ data \in [Sectors -> Payload] /\ logged \in Seq(Int)
  BY DEF TypeOK
<1>5. CASE Fill
  <2>1. dirty' = dirty /\ startAddr' = startAddr
    BY <1>5 DEF Fill, ram
  <2>2. Stage(u, W)' /\ status' = status /\ Held(data', logged', u, W, w)
    BY <1>2, <1>5, FillStep
  <2>3. At(u, W, w)'
    BY <1>2, <2>1, <2>2 DEF At, StartsAt
  <2> QED
    BY <2>3, <1>3 DEF Going
<1>6. CASE MarkFull
  <2>1. dirty' = dirty /\ startAddr' = startAddr /\ data' = data /\ logged' = logged
    BY <1>6 DEF MarkFull
  <2>2. c = W /\ Stage(u, W)' /\ status' = [status EXCEPT ![u] = "full"]
    BY <1>2, <1>6, MarkFullStep
  <2>3. Pass(status', dirty, u, w)
    BY <1>2, <1>4, <2>2, PassSame
  <2>4. At(u, W, w)'
    BY <1>2, <2>1, <2>2, <2>3 DEF At, StartsAt
  <2> QED
    BY <2>4, <1>3 DEF Going
<1>7. CASE Erase
  <2>1. logged' = logged
    BY <1>7 DEF Erase
  <2>2. PICK v \in Sectors :
          /\ v = NextOf(u) /\ status[u] = "full" /\ c = W /\ Stage(v, 0)'
          /\ status' = [status EXCEPT ![v] = "erased"] /\ data' = [data EXCEPT ![v] = Erased]
          /\ dirty' = dirty \ {v} /\ StartsAt(v, w \/ v = 0)'
    BY <1>2, <1>7, EraseStep
  <2>3. PICK x \in BOOLEAN : x = (w \/ v = 0)
    OBVIOUS
  <2>4. Pass(status', dirty', v, x)
    BY <1>2, <1>4, <2>2, <2>3, PassNext
  <2>5. Held(data', logged, v, 0, x)
    BY <1>2, <1>4, <2>2, <2>3, Advances
  <2>6. StartsAt(v, x)'
    BY <2>2, <2>3
  <2>7. At(v, 0, x)'
    BY <2>1, <2>2, <2>4, <2>5, <2>6 DEF At
  <2> QED
    BY <2>7, <1>3 DEF Going
<1>8. CASE MarkEmpty
  <2>1. dirty' = dirty /\ startAddr' = startAddr /\ data' = data /\ logged' = logged
    BY <1>8 DEF MarkEmpty, ram
  <2>2. c = 0 /\ Stage(u, 0)' /\ status' = [status EXCEPT ![u] = "empty"]
    BY <1>2, <1>8, MarkEmptyStep
  <2>3. Pass(status', dirty, u, w)
    BY <1>2, <1>4, <2>2, PassSame
  <2>4. At(u, 0, w)'
    BY <1>2, <2>1, <2>2, <2>3 DEF At, StartsAt
  <2> QED
    BY <2>4, <1>3 DEF Going
<1>9. CASE MarkUsing
  <2>1. dirty' = dirty /\ startAddr' = startAddr /\ data' = data /\ logged' = logged
    BY <1>9 DEF MarkUsing, ram
  <2>2. c = 0 /\ Stage(u, 0)' /\ status' = [status EXCEPT ![u] = "using"]
    BY <1>2, <1>9, MarkUsingStep
  <2>3. Pass(status', dirty, u, w)
    BY <1>2, <1>4, <2>2, PassSame
  <2>4. At(u, 0, w)'
    BY <1>2, <2>1, <2>2, <2>3 DEF At, StartsAt
  <2> QED
    BY <2>4, <1>3 DEF Going
<1>10. CASE Part
  <2>1. dirty' = dirty /\ startAddr' = startAddr
    BY <1>10 DEF Part
  <2>2. PICK b \in 0..(W - 1) :
          Stage(u, b)' /\ status' = status /\ Held(data', logged', u, b, w)
    BY <1>2, <1>10, PartStep
  <2>3. At(u, b, w)'
    BY <1>2, <2>1, <2>2 DEF At, StartsAt
  <2> QED
    BY <2>3, <1>3 DEF Going
<1> QED
  BY <1>5, <1>6, <1>7, <1>8, <1>9, <1>10 DEF WriteStep

(* A power failure stops a write at sector u behind k more words.           *)
LEMMA StoppedStage ==
    ASSUME TypeOK, NEW u \in Sectors, NEW c \in 0..W, Stage(u, c),
           pc \in {"idle", "fillOld", "fillNew", "part"}, NEW k \in 0..W, PowerFails(k)
    PROVE \E b \in 0..(W - 1) :
          /\ status' = status /\ status[u] = "using" /\ data'[u][W] = data[u][W]
          /\ \A s \in Sectors \ {u} : data'[s] = data[s]
          /\ \A w \in BOOLEAN : Held(data, logged, u, c, w) => Held(data', logged', u, b, w)
<1>0. W \in Nat /\ H = 1 /\ c \in Nat /\ W >= 1 /\ k \in Nat
  BY Sizes
<1>1. status[u] = "using" /\ c < W
  BY DEF Stage
<1>2. c \in 0..(W - 1)
  BY <1>0, <1>1
<1>3. CASE k = 0
  <2>1. status' = status /\ data' = data /\ logged' = logged
    BY <1>3 DEF PowerFails, flash
  <2> QED
    BY <1>1, <1>2, <2>1
<1>4. CASE k # 0
  <2>1. /\ pc \in {"fillOld", "fillNew", "part"} /\ k < Len(rest) /\ k < Room(writeAddr)
        /\ Put(writeAddr, SubSeq(rest, 1, k)) /\ logged' = logged \o SubSeq(rest, 1, k)
    BY <1>4 DEF PowerFails
  <2>2. writeAddr = u * S + H + c
    BY <2>1 DEF Stage
  <2>3. Room(writeAddr) = W - c
    BY <2>2, <1>2, RoomBehind
  <2>4. k < W - c /\ k <= W - c
    BY <2>1, <2>3, <1>0
  <2>5. rest \in Seq(Int) /\ k <= Len(rest)
    BY <2>1, <1>0 DEF TypeOK
  <2>6. PICK ws \in Seq(Int) : ws = SubSeq(rest, 1, k) /\ Len(ws) = k
    BY <2>5, <1>0, Parts
  <2>7. Put(u * S + H + c, ws) /\ logged' = logged \o ws
    BY <2>1, <2>2, <2>6
  <2>8. /\ status' = status
        /\ data' = [data EXCEPT ![u] = [i \in 1..W |->
               IF i - c \in DOMAIN ws THEN Programmed(@[i], ws[i - c]) ELSE @[i]]]
    BY <1>2, <2>7, PutBehind
  <2>9. PICK b \in 0..(W - 1) : b = c + k
    BY <2>4, <1>0
  <2>10. ASSUME NEW w \in BOOLEAN, Held(data, logged, u, c, w)
         PROVE Held(data', logged', u, b, w)
    <3>1. data \in [Sectors -> Payload] /\ logged \in Seq(Int) /\ k = Len(ws)
      BY <2>6 DEF TypeOK
    <3>2. Held(data', logged \o ws, u, c + k, w)
      BY <1>0, <2>4, <2>8, <2>10, <3>1, Appends
    <3> QED
      BY <2>7, <2>9, <3>2
  <2>11. data'[u][W] = data[u][W] /\ \A s \in Sectors \ {u} : data'[s] = data[s]
    <3>1. W \in 1..W /\ W - c \notin DOMAIN ws
      BY <1>0, <2>4, <2>6
    <3> QED
      BY <2>8, <3>1 DEF TypeOK
  <2> QED
    BY <1>1, <2>8, <2>10, <2>11
<1> QED
  BY <1>3, <1>4

(* ... and while sectors change there is nothing to find.                   *)
LEMMA NothingToFind ==
    ASSUME TypeOK, dirty = {}, NEW u \in Sectors, NEW c \in 0..W, NEW w \in BOOLEAN, Stage(u, c),
           Pass(status, dirty, u, w), pc \in {"erase", "empty", "using"}
    PROVE MustClean
<1>1. status[u] \in {"full", "erased", "empty"}
  BY DEF Stage
<1>2. ASSUME NEW s \in Sectors PROVE status[s] # "using"
  <2>1. s = u \/ s < u \/ s > u
    BY Sizes
  <2> QED
    BY <1>1, <2>1 DEF Pass
<1> QED
  BY <1>2, NoUsing

LEMMA PowerFailsFinds ==
    ASSUME TypeOK, TypeOK', Regular, NEW k \in 0..W, PowerFails(k), ~full', ~spoilt', dirty' = {}
    PROVE Found'
<1>1. dirty = {} /\ ~spoilt /\ ~full /\ pc \notin {"fullOld", "fullNew"} /\ pc # "off"
  BY DEF PowerFails, TypeOK
<1>2. CASE pc \in {"idle", "fillOld", "fillNew", "part"}
  <2>1. PICK u \in Sectors, c \in 0..W, w \in BOOLEAN : At(u, c, w)
    BY <1>1, <1>2 DEF Regular, Going, Running
  <2>2. Stage(u, c) /\ Pass(status, {}, u, w) /\ Held(data, logged, u, c, w)
    BY <1>1, <2>1 DEF At
  <2>3. PICK b \in 0..(W - 1) :
          status' = status /\ status[u] = "using" /\ Held(data', logged', u, b, w)
    BY <1>2, <2>2, StoppedStage
  <2> QED
    BY <2>2, <2>3 DEF Found
<1>3. pc \in {"erase", "empty", "using", "clean", "format"} => flash' = flash /\ logged' = logged
  BY DEF PowerFails
<1>4. CASE pc \in {"erase", "empty", "using"}
  <2>1. PICK u \in Sectors, c \in 0..W, w \in BOOLEAN : At(u, c, w)
    BY <1>1, <1>4 DEF Regular, Going, Running
  <2>2. MustClean
    BY <1>1, <1>4, <2>1, NothingToFind DEF At
  <2> QED
    BY <2>2, <1>3, <1>4 DEF Found, MustClean, Disorder, Using, flash
<1>5. CASE pc = "clean"
  <2>1. Found
    BY <1>1, <1>5 DEF Regular
  <2> QED
    BY <2>1, <1>3, <1>5 DEF Found, MustClean, Disorder, Using, flash
<1>6. CASE pc = "format"
  <2>1. Formatting
    BY <1>1, <1>6 DEF Regular
  <2>2. \A s \in Sectors \ {0} : status[s] \in {"erased", "empty"}
    BY <1>1, <2>1 DEF Formatting
  <2>3. 0 \in Sectors /\ W \in Nat /\ W >= 1 /\ 0 \in 0..(W - 1)
    BY Sizes
  <2>4. CASE status[0] # "using"
    <3>1. MustClean
      BY <2>2, <2>4, NoUsing
    <3> QED
      BY <3>1, <1>3, <1>6 DEF Found, MustClean, Disorder, Using, flash
  <2>5. CASE \E s \in Sectors : status[s] = "erased"
    <3>1. MustClean
      BY <2>5 DEF MustClean
    <3> QED
      BY <3>1, <1>3, <1>6 DEF Found, MustClean, Disorder, Using, flash
  <2>6. CASE status[0] = "using" /\ ~ \E s \in Sectors : status[s] = "erased"
    <3>1. Pass(status, {}, 0, FALSE)
      <4>1. ASSUME NEW s \in Sectors
            PROVE ~(s < 0) /\ (s > 0 => status[s] = "empty")
        <5>1. s \in Nat
          BY Sizes
        <5> QED
          BY <5>1, <2>2, <2>6
      <4> QED
        BY <4>1 DEF Pass
    <3>2. Held(data, logged, 0, 0, FALSE)
      <4>1. Len(logged) = 0 /\ 0 * W = 0
        BY <2>1, <2>3 DEF Formatting
      <4>2. \A i \in 1..W : data[0][i] = 0 /\ ~(i <= 0)
        BY <2>1, <2>3 DEF Formatting, Erased
      <4>3. \A s \in Sectors : ~(s < 0)
        BY Sizes
      <4> QED
        BY <4>1, <4>2, <4>3 DEF Held
    <3> QED
      BY <3>1, <3>2, <2>3, <2>6, <1>3, <1>6 DEF Found, flash
  <2> QED
    BY <2>4, <2>5, <2>6
<1> QED
  BY <1>1, <1>2, <1>4, <1>5, <1>6 DEF TypeOK, States, Running

LEMMA BootFinds ==
    ASSUME TypeOK, TypeOK', Regular, Boot, ~full', ~spoilt'
    PROVE (pc' = "idle" => Going') /\ (pc' = "clean" /\ dirty' = {} => Found')
<1>1. ~full /\ ~spoilt /\ pc = "off" /\ flash' = flash /\ logged' = logged /\ dirty' = dirty
  BY DEF Boot, boot, TypeOK
<1>2. CASE MustClean
  <2>1. pc' = "clean" /\ MustClean'
    BY <1>1, <1>2 DEF Boot, MustClean, Disorder, Using, flash
  <2> QED
    BY <2>1 DEF Found
<1>3. CASE ~MustClean
  <2>1. pc' = "idle" /\ dirty = {} /\ (logged = <<>> \/ ~(logged[Len(logged)] <= 0))
    BY <1>1, <1>3 DEF Boot
  <2>2. PICK u \in Sectors, c \in 0..(W - 1), w \in BOOLEAN :
          status[u] = "using" /\ Pass(status, {}, u, w) /\ Held(data, logged, u, c, w)
    BY <1>1, <1>3, <2>1 DEF Regular, Found
  <2>3. Using = {u} /\ FindStart(u) = (IF w THEN NextOf(u) ELSE 0) * S
    BY <2>2, Accepted
  <2>4. FindEnd(u) = u * S + H + c
    BY <2>1, <2>2, EndFound
  <2>5. startAddr' = FindStart(u) /\ endAddr' = FindEnd(u)
    BY <1>3, <2>3 DEF Boot
  <2>6. c \in 0..W /\ c < W
    BY Sizes
  <2>7. Stage(u, c)' /\ StartsAt(u, w)'
    BY <1>1, <2>1, <2>2, <2>3, <2>4, <2>5, <2>6 DEF Stage, StartsAt, flash
  <2>8. At(u, c, w)'
    BY <1>1, <2>1, <2>2, <2>7 DEF At, flash
  <2> QED
    BY <2>1, <2>6, <2>8 DEF Going
<1> QED
  BY <1>2, <1>3

LEMMA FormatStep ==
    ASSUME TypeOK, TypeOK', Formatting, Format
    PROVE (pc' = "idle" => Going') /\ (pc' = "format" => Formatting')
<1>0. /\ N \in Nat /\ N >= 2 /\ fmt \in Nat /\ fmt <= N /\ W \in Nat /\ W >= 1 /\ H = 1
      /\ 0 \in Sectors
  <2>1. fmt \in 0..N
    BY DEF TypeOK
  <2>2. N \in Nat /\ N >= 2 /\ W \in Nat /\ W >= 1 /\ H = 1 /\ 0 \in Sectors
    BY Sizes
  <2> QED
    BY <2>1, <2>2
<1>1. /\ logged' = <<>> /\ startAddr' = 0 /\ endAddr' = H /\ data'[0] = Erased /\ 0 \notin dirty'
      /\ dirty' = dirty
  BY DEF Format, Formatting, ram
<1>2. status \in [Sectors -> Statuses]
  BY DEF TypeOK
<1>3. status'[0] = IF fmt = 0 THEN "empty" ELSE "using"
  <2>1. CASE fmt = 0
    <3>1. status' = [status EXCEPT ![0] = AfterMark(status[0], "empty")] /\ status[0] = "erased"
      BY <2>1 DEF Format, Mark, Formatting
    <3> QED
      BY <3>1, <2>1, <1>0, <1>2 DEF AfterMark
  <2>2. CASE fmt = 1
    <3>1. status' = [status EXCEPT ![0] = AfterMark(status[0], "using")] /\ status[0] = "empty"
      BY <2>2 DEF Format, Mark, Formatting
    <3> QED
      BY <3>1, <2>2, <1>0, <1>2 DEF AfterMark
  <2>3. CASE fmt # 0 /\ fmt # 1
    <3>1. status' = [status EXCEPT ![fmt - 1] = AfterMark(status[fmt - 1], "empty")]
      BY <2>3 DEF Format, Mark
    <3>2. status[0] = "using" /\ fmt - 1 # 0
      BY <2>3, <1>0 DEF Formatting
    <3> QED
      BY <3>1, <3>2, <2>3, <1>0, <1>2
  <2> QED
    BY <2>1, <2>2, <2>3
<1>4. ASSUME NEW s \in Sectors \ {0}, s \notin dirty
      PROVE status'[s] \in {"erased", "empty"} /\ (s < fmt => status'[s] = "empty")
  <2>0. s \in Nat /\ s # 0
    BY Sizes
  <2>1. status[s] \in {"erased", "empty"} /\ (s < fmt - 1 => status[s] = "empty")
    BY <1>4 DEF Formatting
  <2>2. CASE s = fmt - 1
    <3>1. fmt # 0 /\ fmt # 1
      BY <2>0, <2>2, <1>0
    <3>2. status' = [status EXCEPT ![s] = AfterMark(status[s], "empty")]
      BY <3>1, <2>2 DEF Format, Mark
    <3>3. AfterMark(status[s], "empty") = "empty"
      BY <2>1 DEF AfterMark
    <3> QED
      BY <3>2, <3>3, <1>2
  <2>3. CASE s # fmt - 1
    <3>1. status'[s] = status[s]
      <4>1. \E x, y : status' = [status EXCEPT ![x] = y] /\ x # s
        BY <2>0, <2>3 DEF Format, Mark
      <4> QED
        BY <4>1, <1>2
    <3>2. s < fmt => s < fmt - 1
      BY <2>0, <2>3, <1>0
    <3> QED
      BY <2>1, <3>1, <3>2
  <2> QED
    BY <2>2, <2>3
<1>5. CASE fmt # N
  <2>1. fmt' = fmt + 1 /\ pc' = "format"
    BY <1>5 DEF Format
  <2>2. status'[0] = IF fmt' = 0 THEN "erased" ELSE IF fmt' = 1 THEN "empty" ELSE "using"
    BY <1>0, <1>3, <2>1
  <2>3. fmt' - 1 = fmt
    BY <2>1, <1>0
  <2>4. \A s \in Sectors \ {0} : s \notin dirty' =>
           status'[s] \in {"erased", "empty"} /\ (s < fmt' - 1 => status'[s] = "empty")
    BY <1>1, <1>4, <2>3
  <2> QED
    BY <1>1, <2>1, <2>2, <2>4 DEF Formatting
<1>6. CASE fmt = N
  <2>1. pc' = "idle" /\ status'[0] = "using"
    BY <1>0, <1>3, <1>6 DEF Format
  <2>2. Pass(status', dirty', 0, FALSE)
    <3>1. ASSUME NEW s \in Sectors
          PROVE ~(s < 0) /\ (s > 0 /\ s \notin dirty' => status'[s] = "empty")
      <4>1. s \in Nat /\ s < fmt
        BY Sizes, <1>6
      <4> QED
        BY <4>1, <1>1, <1>4
    <3> QED
      BY <3>1 DEF Pass
  <2>3. Held(data', logged', 0, 0, FALSE)
    <3>1. Len(logged') = 0 /\ 0 * W = 0
      BY <1>0, <1>1
    <3>2. \A i \in 1..W : data'[0][i] = 0 /\ ~(i <= 0)
      BY <1>0, <1>1 DEF Erased
    <3>3. \A s \in Sectors : ~(s < 0)
      BY Sizes
    <3> QED
      BY <3>1, <3>2, <3>3 DEF Held
  <2>4. 0 * S = 0
    BY Sizes
  <2>5. StartsAt(0, FALSE)'
    BY <1>1, <2>4 DEF StartsAt
  <2>6. Stage(0, 0)'
    <3>1. 0 < W /\ H = 0 * S + H + 0
      BY <1>0, <2>4
    <3> QED
      BY <1>1, <2>1, <3>1 DEF Stage
  <2>7. At(0, 0, FALSE)'
    BY <2>2, <2>3, <2>5, <2>6 DEF At
  <2>8. 0 \in 0..W
    BY <1>0
  <2> QED
    BY <2>1, <2>7, <2>8, <1>0 DEF Going
<1> QED
  BY <1>5, <1>6

LEMMA CleanEraseStep ==
    ASSUME TypeOK, CleanErase
    PROVE pc' = "format" /\ Formatting'
<1>0. 0 \in Sectors
  BY Sizes
<1>1. /\ logged' = <<>> /\ startAddr' = 0 /\ endAddr' = H /\ fmt' = 0 /\ pc' = "format"
      /\ data' = [data EXCEPT ![0] = Erased] /\ status' = [status EXCEPT ![0] = "erased"]
      /\ dirty' = {s \in Sectors \ {0} : status[s] \notin {"erased", "empty"}}
  BY DEF CleanErase
<1>2. data'[0] = Erased /\ status'[0] = "erased" /\ 0 \notin dirty'
  BY <1>0, <1>1 DEF TypeOK
<1>3. ASSUME NEW s \in Sectors \ {0}, s \notin dirty'
      PROVE status'[s] \in {"erased", "empty"} /\ ~(s < 0 - 1)
  <2>1. s \in Nat
    BY Sizes
  <2>2. status'[s] = status[s] /\ status[s] \in {"erased", "empty"}
    BY <1>1, <1>3 DEF TypeOK
  <2> QED
    BY <2>1, <2>2
<1> QED
  BY <1>1, <1>2, <1>3 DEF Formatting

LEMMA RegularStep == TypeOK /\ Fits /\ Regular /\ TypeOK' /\ [Next]_vars => Regular'
<1> SUFFICES ASSUME TypeOK, Fits, Regular, TypeOK', [Next]_vars, ~full', ~spoilt'
             PROVE /\ pc' \in Running => Going'
                   /\ pc' = "format" => Formatting'
                   /\ pc' \in {"off", "clean"} /\ dirty' = {} => Found'
  BY DEF Regular
<1>1. CASE Boot
  <2>1. pc' \in {"idle", "clean"}
    BY <1>1 DEF Boot
  <2>2. (pc' = "idle" => Going') /\ (pc' = "clean" /\ dirty' = {} => Found')
    BY <1>1, BootFinds
  <2> QED
    BY <2>1, <2>2 DEF Running
<1>2. CASE Clean
  <2>1. /\ pc = "idle" /\ pc' = "clean" /\ ~full /\ ~spoilt
        /\ flash' = flash /\ logged' = logged /\ dirty' = dirty
    BY <1>2 DEF Clean, boot
  <2>2. PICK u \in Sectors, c \in 0..W, w \in BOOLEAN : At(u, c, w)
    BY <2>1 DEF Regular, Going, Running
  <2>3. Stage(u, c) /\ Pass(status, dirty, u, w) /\ Held(data, logged, u, c, w)
    BY <2>2 DEF At
  <2>4. status[u] = "using" /\ c < W
    BY <2>1, <2>3 DEF Stage
  <2>5. c \in 0..(W - 1)
    BY <2>4, Sizes
  <2>6. dirty' = {} => Found'
    BY <2>1, <2>3, <2>4, <2>5 DEF Found, flash
  <2> QED
    BY <2>1, <2>6 DEF Running
<1>3. CASE CleanErase
  BY <1>3, CleanEraseStep DEF Running
<1>4. CASE Format
  <2>1. pc = "format" /\ ~full /\ ~spoilt /\ pc' \in {"idle", "format"}
    BY <1>4 DEF Format, boot
  <2>2. Formatting
    BY <2>1 DEF Regular
  <2>3. (pc' = "idle" => Going') /\ (pc' = "format" => Formatting')
    BY <1>4, <2>2, FormatStep
  <2> QED
    BY <2>1, <2>3 DEF Running
<1>5. CASE WriteStep
  <2>1. /\ pc \in Running /\ ~full /\ ~spoilt /\ pc' \in Running
    BY <1>5 DEF WriteStep, Fill, MarkFull, Erase, MarkEmpty, MarkUsing, Part, boot, Running
  <2>2. Going
    BY <2>1 DEF Regular
  <2>3. Going'
    BY <1>5, <2>2, WriteStepAt
  <2> QED
    BY <2>1, <2>3 DEF Running
<1>6. ASSUME NEW n \in 1..MaxLen, NEW last \in {"plain", "tail", "blank"}, Write(n, last)
      PROVE pc' \in Running /\ Going'
  <2>1. /\ pc = "idle" /\ ~full /\ ~spoilt /\ pc' \in Running
        /\ flash' = flash /\ logged' = logged /\ dirty' = dirty /\ startAddr' = startAddr
    BY <1>6 DEF Write, boot, Running, ram
  <2>2. PICK u \in Sectors, c \in 0..W, w \in BOOLEAN : At(u, c, w)
    BY <2>1 DEF Regular, Going, Running
  <2>3. Stage(u, c)'
    BY <1>6, <2>2, WriteCall DEF At
  <2>4. At(u, c, w)'
    BY <2>1, <2>2, <2>3 DEF At, StartsAt, flash
  <2> QED
    BY <2>1, <2>4 DEF Going
<1>7. ASSUME NEW k \in 0..W, PowerFails(k)
      PROVE pc' = "off" /\ (dirty' = {} => Found')
  BY <1>7, PowerFailsFinds DEF PowerFails
<1>8. CASE UNCHANGED vars
  <2>1. /\ flash' = flash /\ ram' = ram /\ pc' = pc /\ call' = call /\ fmt' = fmt
        /\ logged' = logged /\ boot' = boot /\ dirty' = dirty /\ spoilt' = spoilt
    BY <1>8 DEF vars
  <2>2. Regular'
    BY <2>1 DEF Regular, Going, At, Stage, StartsAt, Formatting, Found, MustClean, Disorder, Using,
                flash, ram, call, boot
  <2> QED
    BY <2>2 DEF Regular
<1>9. pc' = "off" => pc' \notin Running /\ pc' # "format"
  BY DEF Running
<1>10. pc' \in Running => pc' # "format" /\ pc' \notin {"off", "clean"}
  BY DEF Running
<1> QED
  BY <1>1, <1>2, <1>3, <1>4, <1>5, <1>6, <1>7, <1>8, <1>9, <1>10 DEF Next, Step

LEMMA LogInv == Spec => []LInv
<1>1. Init => LInv
  <2> SUFFICES ASSUME Init PROVE LInv
    OBVIOUS
  <2>1. pc = "off" /\ \A s \in Sectors : status[s] # "using"
    BY DEF Init
  <2>2. Found
    BY <2>1, NoUsing DEF Found
  <2>3. Regular
    BY <2>1, <2>2 DEF Regular, Running
  <2> QED
    BY <2>1, <2>3, InitTypes DEF LInv, Fits
<1>2. LInv /\ [Next]_vars => LInv'
  <2> SUFFICES ASSUME LInv, [Next]_vars PROVE LInv'
    OBVIOUS
  <2>1. TypeOK /\ Fits /\ Regular
    BY DEF LInv
  <2>2. TypeOK' /\ Fits'
    BY <2>1, TypeStep, FitsStep
  <2>3. Regular'
    BY <2>1, <2>2, RegularStep
  <2> QED
    BY <2>2, <2>3 DEF LInv
<1> QED
  BY <1>1, <1>2, PTL DEF Spec

(* At rest the log is the newest of the words written since it was cleaned, *)
(* in order, also after power failures.                                     *)
THEOREM NewestKept == Spec => []KeepsNewest
<1>1. LInv => KeepsNewest
  <2> SUFFICES ASSUME LInv, Sound PROVE KeepsNewest
    BY DEF KeepsNewest
  <2>1. TypeOK /\ pc = "idle" /\ Going
    BY DEF LInv, Regular, Sound, Running
  <2>2. PICK u \in Sectors, c \in 0..W, w \in BOOLEAN : At(u, c, w)
    BY <2>1 DEF Going
  <2>3. c < W /\ endAddr = u * S + H + c
    BY <2>1, <2>2 DEF At, Stage
  <2>4. c \in 0..(W - 1)
    BY <2>3, Sizes
  <2> QED
    BY <2>1, <2>2, <2>3, <2>4, Newest DEF At, KeepsNewest
<1> QED
  BY <1>1, LogInv, PTL

-----------------------------------------------------------------------------
(* The sectors whatever their words: also after a boot that took a wrong    *)
(* end or start, with used sectors that were not erased.                    *)

(* u follows the dirty sector v, and those between, which are full.         *)
Since(v, u) ==
    /\ v \in Sectors /\ v # u /\ status[v] = "using"
    /\ \A s \in Sectors : Dist(s, u) < Dist(v, u) => status[s] = "full"

InOrder(u) ==
    \/ \E w \in BOOLEAN : Pass(status, dirty, u, w)
    \/ \E v \in dirty : Since(v, u)

(* The end is behind the dirty sector v: the next one loses its header and  *)
(* is written from there on, or refuses every write.                        *)
Over(v) ==
    /\ v \in Sectors /\ status[v] = "using"
    /\ \/ pc = "idle" /\ endAddr = (v + 1) * S
       \/ /\ pc = "idle" /\ v + 1 \in Sectors /\ status[v + 1] = "invalid"
          /\ \E r \in 0..W : endAddr = (v + 1) * S + r
       \/ /\ pc \in {"fillOld", "part", "fullOld", "erase"}
          /\ v + 1 \in Sectors /\ writeAddr = (v + 1) * S
          /\ pc = "part" => Len(rest) \in 1..W

Ranged ==
    \/ \E u \in Sectors, c \in 0..W : InOrder(u) /\ Stage(u, c)
    \/ \E v \in dirty : Over(v)

(* A sector in use is not filled to its end, unless it is about to be FULL. *)
Unfilled ==
    \A s \in Sectors \ dirty : status[s] = "using" =>
        data[s][W] = 0 \/ (pc \in {"fullOld", "fullNew"} /\ SectorOf(writeAddr) = s)

Ordered ==
    /\ pc = "format" => ~full /\ ~spoilt
    /\ ~full =>
          /\ pc \in Running => Ranged
          /\ pc \in {"empty", "using"} => data[SectorOf(writeAddr)][W] = 0
          /\ Unfilled
          /\ pc = "off" /\ ~changing /\ dirty = {} =>
                \E u \in Sectors, w \in BOOLEAN : status[u] = "using" /\ Pass(status, {}, u, w)

OInv == LInv /\ Ordered

(* A set of numbers is left at some step between one in it and one outside. *)
LEMMA Between ==
    ASSUME NEW P, NEW lo \in Nat, NEW hi \in Nat, lo < hi, lo \in P, hi \notin P
    PROVE \E s \in lo..(hi - 1) : s \in P /\ s + 1 \notin P
<1> DEFINE Q == {k \in Nat : lo <= k /\ k \notin P}
<1>1. hi \in Q /\ Q \in SUBSET Nat
  OBVIOUS
<1>2. PICK k \in Q : \A j \in Q : k <= j
  BY <1>1, Least
<1>3. k \in Nat /\ lo <= k /\ k \notin P /\ k <= hi
  BY <1>1, <1>2
<1>4. k # lo
  BY <1>3
<1>5. k - 1 \in Nat /\ lo <= k - 1 /\ k - 1 \in lo..(hi - 1) /\ (k - 1) + 1 = k
  BY <1>3, <1>4
<1>6. k - 1 \in P
  <2>1. k - 1 \notin Q
    <3>1. ~(k <= k - 1)
      BY <1>3
    <3> QED
      BY <3>1, <1>2
  <2> QED
    BY <2>1, <1>5
<1> QED
  BY <1>3, <1>5, <1>6

(* The checks of the scan leave only the headers of a ring in order.        *)
LEMMA NoMistake ==
    ASSUME TypeOK, ~MustClean
    PROVE \E u \in Sectors, w \in BOOLEAN : status[u] = "using" /\ Pass(status, {}, u, w)
<1>1. /\ \A s \in Sectors : status[s] \in {"empty", "using", "full"}
      /\ ~Disorder /\ Cardinality(Using) = 1
  BY DEF MustClean, TypeOK, Statuses
<1>2. IsFiniteSet(Using)
  <2>1. IsFiniteSet(Sectors)
    BY Sizes, FS_Interval DEF Sectors
  <2> QED
    BY <2>1, FS_Subset DEF Using
<1>3. PICK u : Using = {u}
  BY <1>1, <1>2, FS_Singleton
<1>4. u \in Sectors /\ status[u] = "using" /\ \A s \in Sectors : status[s] = "using" => s = u
  BY <1>3 DEF Using
<1>5. u \in Nat /\ u < N /\ N \in Nat
  BY <1>4, Sizes
<1>6. ASSUME NEW s \in Sectors, s + 1 \in Sectors, status[s] = "empty"
      PROVE status[s + 1] = "empty"
  <2>1. s \in Sectors \ {N - 1}
    BY <1>6, Sizes
  <2> QED
    BY <1>1, <1>6, <2>1 DEF Disorder
<1>7. ASSUME NEW s \in Sectors, NEW r \in Sectors, s < r, status[s] = "empty"
      PROVE status[r] = "empty"
  <2> SUFFICES ASSUME status[r] # "empty" PROVE FALSE
    OBVIOUS
  <2> DEFINE P == {x \in Sectors : status[x] = "empty"}
  <2>1. s \in Nat /\ r \in Nat /\ s \in P /\ r \notin P /\ r < N
    BY <1>7, Sizes
  <2>2. PICK x \in s..(r - 1) : x \in P /\ x + 1 \notin P
    BY <2>1, <1>7, Between
  <2>3. x + 1 \in Sectors
    BY <2>1, <2>2, Sizes
  <2> QED
    BY <2>2, <2>3, <1>6
<1>8. ASSUME NEW s \in Sectors, s < u PROVE status[s] = "full"
  <2>1. status[s] # "empty"
    BY <1>4, <1>7, <1>8
  <2>2. status[s] # "using"
    BY <1>4, <1>5, <1>8
  <2> QED
    BY <2>1, <2>2, <1>1
<1>9. CASE \E s \in Sectors : s > u /\ status[s] = "empty"
  <2> SUFFICES ASSUME NEW r \in Sectors, r > u, status[r] # "empty" PROVE FALSE
    BY <1>4, <1>8 DEF Pass
  <2>1. PICK e \in Sectors : e > u /\ status[e] = "empty"
    BY <1>9
  <2>2. e \in Nat /\ r \in Nat /\ u + 1 \in Sectors /\ e < N /\ r < N
    BY <2>1, <1>5, Sizes
  <2>3. status[r] = "full" /\ r # u
    BY <1>1, <1>4, <1>5, <2>2
  <2>4. r < e
    <3>1. ~(e < r) /\ e # r
      BY <2>1, <1>7
    <3> QED
      BY <3>1, <2>2
  <2>5. status[u + 1] = "full"
    <3>1. u + 1 = r \/ u + 1 < r
      BY <2>2, <1>5
    <3>2. status[u + 1] # "empty"
      BY <3>1, <2>2, <1>7
    <3>3. u + 1 # u
      BY <1>5
    <3> QED
      BY <3>2, <3>3, <2>2, <1>1, <1>4
  <2> DEFINE P == {x \in Sectors : status[x] = "full"}
  <2>6. PICK x \in r..(e - 1) : x \in P /\ x + 1 \notin P
    <3>1. r \in P /\ e \notin P
      BY <2>1, <2>3
    <3> HIDE DEF P
    <3> QED
      BY <3>1, <2>2, <2>4, Between
  <2>7. x \in Nat /\ x + 1 \in Sectors /\ x + 1 # u /\ u < x /\ x \in Sectors \ {N - 1}
        /\ u \in Sectors \ {N - 1}
    BY <2>2, <2>6, <1>5, Sizes
  <2>8. status[x] = "full" /\ status[x + 1] = "empty"
    BY <2>6, <2>7, <1>1, <1>4
  <2> QED
    BY <2>5, <2>7, <2>8, <1>1, <1>4 DEF Disorder
<1>10. CASE ~ \E s \in Sectors : s > u /\ status[s] = "empty"
  <2>1. ASSUME NEW s \in Sectors \ {u} PROVE status[s] = "full"
    <3>1. s < u \/ s > u
      BY <1>5, Sizes
    <3> QED
      BY <3>1, <1>1, <1>4, <1>8, <1>10
  <2>2. Pass(status, {}, u, TRUE)
    BY <2>1 DEF Pass
  <2> QED
    BY <2>2, <1>4
<1> QED
  BY <1>9, <1>10

LEMMA Distances ==
    ASSUME NEW s \in Sectors, NEW u \in Sectors
    PROVE Dist(s, u) \in 1..N /\ (s # u => Dist(s, u) < N) /\ Dist(u, u) = N
BY Sizes DEF Dist

LEMMA InOrderSame ==
    ASSUME TypeOK, NEW u \in Sectors, InOrder(u), NEW x, status' = [status EXCEPT ![u] = x],
           dirty' = dirty
    PROVE InOrder(u)'
<1>1. status \in [Sectors -> Statuses]
  BY DEF TypeOK
<1>2. CASE \E w \in BOOLEAN : Pass(status, dirty, u, w)
  <2>1. PICK w \in BOOLEAN : Pass(status, dirty, u, w)
    BY <1>2
  <2>2. Pass(status', dirty, u, w)
    BY <1>1, <2>1, PassSame
  <2> QED
    BY <2>2 DEF InOrder
<1>3. CASE \E v \in dirty : Since(v, u)
  <2>1. PICK v \in dirty : Since(v, u)
    BY <1>3
  <2>2. ASSUME NEW s \in Sectors, Dist(s, u) < Dist(v, u) PROVE status'[s] = "full"
    <3>1. v \in Sectors /\ v # u
      BY <2>1 DEF Since
    <3>2. Dist(u, u) = N /\ Dist(v, u) \in 1..N /\ N \in Nat
      BY <3>1, Distances, Sizes
    <3>3. s # u
      BY <2>2, <3>2
    <3> QED
      BY <2>1, <2>2, <3>3, <1>1 DEF Since
  <2>3. v \in Sectors /\ v # u /\ status'[v] = "using"
    BY <2>1, <1>1 DEF Since
  <2>4. Since(v, u)'
    BY <2>2, <2>3 DEF Since
  <2> QED
    BY <2>1, <2>4 DEF InOrder
<1> QED
  BY <1>2, <1>3 DEF InOrder

LEMMA InOrderNext ==
    ASSUME TypeOK, NEW u \in Sectors, InOrder(u), status[u] = "full",
           NEW n \in Sectors, n = NextOf(u), status' = [status EXCEPT ![n] = "erased"],
           dirty' = dirty \ {n}
    PROVE InOrder(n)'
<1>1. status \in [Sectors -> Statuses] /\ dirty \in SUBSET Sectors
  BY DEF TypeOK
<1>2. CASE \E w \in BOOLEAN : Pass(status, dirty, u, w)
  <2>1. PICK w \in BOOLEAN : Pass(status, dirty, u, w)
    BY <1>2
  <2>2. Pass(status', dirty \ {n}, n, w \/ n = 0)
    BY <1>1, <2>1, PassNext
  <2>3. (w \/ n = 0) \in BOOLEAN
    OBVIOUS
  <2> QED
    BY <2>2, <2>3 DEF InOrder
<1>3. CASE \E v \in dirty : Since(v, u)
  <2>1. PICK v \in dirty : Since(v, u)
    BY <1>3
  <2>2. v \in Sectors /\ v # u /\ status[v] = "using"
    BY <2>1 DEF Since
  <2>3. n # u /\ Dist(u, n) = 1
    BY NextDistance
  <2>4. CASE v = n
    <3>1. Dist(v, u) = N - 1
      BY <2>2, <2>4, Sizes DEF Dist, NextOf
    <3>2. ASSUME NEW s \in Sectors \ {n} PROVE status'[s] = "full"
      <4>1. status'[s] = status[s]
        BY <1>1
      <4>2. CASE s # u
        <5>1. Dist(s, u) \in 1..(N - 2)
          BY <4>2, Distance
        <5>2. Dist(s, u) < Dist(v, u)
          BY <5>1, <3>1, Sizes
        <5> QED
          BY <4>1, <5>2, <2>1 DEF Since
      <4> QED
        BY <4>1, <4>2
    <3>3. Pass(status', dirty', n, TRUE)
      BY <3>2 DEF Pass
    <3> QED
      BY <3>3 DEF InOrder
  <2>5. CASE v # n
    <3>1. ASSUME NEW s \in Sectors, Dist(s, n) < Dist(v, n) PROVE status'[s] = "full"
      <4>1. s # n
        <5>1. Dist(n, n) = N /\ Dist(v, n) \in 1..N /\ N \in Nat
          BY <2>2, Distances, Sizes
        <5> QED
          BY <3>1, <5>1
      <4>2. status'[s] = status[s]
        BY <1>1, <4>1
      <4>3. CASE s # u
        <5>1. Dist(s, n) = Dist(s, u) + 1 /\ Dist(v, n) = Dist(v, u) + 1
          BY <2>2, <2>5, <4>1, <4>3, Distance
        <5>2. Dist(s, u) \in 1..N /\ Dist(v, u) \in 1..N
          BY <2>2, Distances
        <5>3. Dist(s, u) < Dist(v, u)
          BY <3>1, <5>1, <5>2, Sizes
        <5> QED
          BY <4>2, <5>3, <2>1 DEF Since
      <4> QED
        BY <4>2, <4>3
    <3>2. v \in dirty' /\ status'[v] = "using"
      BY <1>1, <2>2, <2>5
    <3>3. Since(v, n)'
      BY <2>2, <2>5, <3>1, <3>2 DEF Since
    <3> QED
      BY <3>2, <3>3 DEF InOrder
  <2> QED
    BY <2>4, <2>5
<1> QED
  BY <1>2, <1>3 DEF InOrder

(* Words written over a header.                                             *)
LEMMA PutOver ==
    ASSUME TypeOK, NEW x \in Sectors, NEW ws \in Seq(Int), ws # <<>>, Put(x * S, ws)
    PROVE /\ status' = [status EXCEPT ![x] = "invalid"]
          /\ \A s \in Sectors \ {x} : data'[s] = data[s]
<1>1. x \in Nat /\ 0 \in 0..W /\ H = 1 /\ x * S = x * S + 0
  BY Sizes, Base
<1>2. SectorOf(x * S) = x /\ (x * S) % S = 0
  BY <1>1, Split
<1>3. ((x * S) % S) - H + 1 < 1
  BY <1>1, <1>2
<1>4. status' = [status EXCEPT ![x] = "invalid"]
  BY <1>2, <1>3 DEF Put
<1>5. \A s \in Sectors \ {x} : data'[s] = data[s]
  BY <1>2 DEF Put, TypeOK
<1> QED
  BY <1>4, <1>5

Blank == pc \in {"empty", "using"} => data[SectorOf(writeAddr)][W] = 0

LEMMA WriteStepRanged ==
    ASSUME TypeOK, TypeOK', Fits, Unfilled, Blank, WriteStep,
           NEW u \in Sectors, NEW c \in 0..W, InOrder(u), Stage(u, c)
    PROVE Ranged' /\ Unfilled' /\ Blank'
<1>0. W \in 0..W /\ 0 \in 0..W /\ (\A b \in 0..(W - 1) : b \in 0..W) /\ W \in 1..W /\ u \in Nat
  BY Sizes
<1>1. status \in [Sectors -> Statuses] /\ data \in [Sectors -> Payload]
  BY DEF TypeOK
<1>2. CASE Fill
  <2>1. dirty' = dirty /\ writeAddr' = writeAddr /\ pc' \in {"fullOld", "fullNew"}
        /\ pc \in {"fillOld", "fillNew"}
    BY <1>2 DEF Fill
  <2>2. Stage(u, W)' /\ status' = status /\ \A s \in Sectors \ {u} : data'[s] = data[s]
    BY <1>2, FillStep
  <2>3. SectorOf(writeAddr) = u
    <3>1. c < W /\ writeAddr = u * S + H + c
      BY <2>1 DEF Stage
    <3>2. c \in 0..(W - 1)
      BY <3>1, Sizes
    <3> QED
      BY <3>1, <3>2, RoomBehind
  <2>4. Unfilled'
    BY <2>1, <2>2, <2>3 DEF Unfilled
  <2>5. InOrder(u)'
    BY <2>1, <2>2 DEF InOrder, Since
  <2> QED
    BY <1>0, <2>1, <2>2, <2>4, <2>5 DEF Ranged, Blank
<1>3. CASE MarkFull
  <2>1. dirty' = dirty /\ data' = data /\ pc' = "erase" /\ writeAddr' = writeAddr
        /\ pc \in {"fullOld", "fullNew"}
    BY <1>3 DEF MarkFull, call
  <2>2. c = W /\ Stage(u, W)' /\ status' = [status EXCEPT ![u] = "full"]
    BY <1>3, MarkFullStep
  <2>3. InOrder(u)'
    BY <2>1, <2>2, InOrderSame
  <2>4. SectorOf(writeAddr) = u
    <3>1. PICK r \in H..W : writeAddr = u * S + r
      BY <2>1 DEF Stage
    <3>2. r \in 0..W
      BY Sizes
    <3> QED
      BY <3>1, <3>2, <1>0, Split
  <2>5. Unfilled'
    <3> SUFFICES ASSUME NEW s \in Sectors \ dirty, status'[s] = "using"
                 PROVE data[s][W] = 0
      BY <2>1 DEF Unfilled
    <3>1. s # u /\ status[s] = "using"
      BY <2>2, <1>1
    <3> QED
      BY <2>4, <3>1 DEF Unfilled
  <2> QED
    BY <1>0, <2>1, <2>2, <2>3, <2>5 DEF Ranged, Blank
<1>4. CASE Erase
  <2>1. PICK v \in Sectors :
          /\ v = NextOf(u) /\ status[u] = "full" /\ c = W /\ Stage(v, 0)'
          /\ status' = [status EXCEPT ![v] = "erased"] /\ data' = [data EXCEPT ![v] = Erased]
          /\ dirty' = dirty \ {v}
    BY <1>4, EraseStep
  <2>2. InOrder(v)'
    BY <2>1, InOrderNext
  <2>3. pc' = "empty" /\ pc = "erase"
    BY <1>4 DEF Erase
  <2>4. SectorOf(writeAddr') = v
    <3>1. writeAddr' = v * S
      BY <2>1, <2>3 DEF Stage
    <3>2. v * S = v * S + 0 /\ v \in Nat
      BY Base, Sizes
    <3> QED
      BY <3>1, <3>2, <1>0, Split
  <2>5. data'[v][W] = 0
    BY <2>1, <1>0, <1>1 DEF Erased
  <2>6. Unfilled'
    <3> SUFFICES ASSUME NEW s \in Sectors \ dirty', status'[s] = "using"
                 PROVE data'[s][W] = 0
      BY DEF Unfilled
    <3>1. s # v /\ status[s] = "using" /\ data'[s] = data[s] /\ s \notin dirty
      BY <2>1, <1>1
    <3> QED
      BY <2>3, <3>1 DEF Unfilled
  <2> QED
    BY <1>0, <2>1, <2>2, <2>4, <2>5, <2>6 DEF Ranged, Blank
<1>5. CASE MarkEmpty
  <2>1. dirty' = dirty /\ data' = data /\ pc' = "using" /\ writeAddr' = writeAddr /\ pc = "empty"
    BY <1>5 DEF MarkEmpty, call
  <2>2. c = 0 /\ Stage(u, 0)' /\ status' = [status EXCEPT ![u] = "empty"]
    BY <1>5, MarkEmptyStep
  <2>3. InOrder(u)'
    BY <2>1, <2>2, InOrderSame
  <2>4. Unfilled'
    <3> SUFFICES ASSUME NEW s \in Sectors \ dirty, status'[s] = "using"
                 PROVE data[s][W] = 0
      BY <2>1 DEF Unfilled
    <3>1. s # u /\ status[s] = "using"
      BY <2>2, <1>1
    <3> QED
      BY <2>1, <3>1 DEF Unfilled
  <2>5. Blank'
    BY <2>1 DEF Blank
  <2> QED
    BY <1>0, <2>2, <2>3, <2>4, <2>5 DEF Ranged
<1>6. CASE MarkUsing
  <2>1. dirty' = dirty /\ data' = data /\ pc = "using" /\ pc' \in {"fillNew", "part"}
    BY <1>6 DEF MarkUsing
  <2>2. c = 0 /\ Stage(u, 0)' /\ status' = [status EXCEPT ![u] = "using"]
    BY <1>6, MarkUsingStep
  <2>3. InOrder(u)'
    BY <2>1, <2>2, InOrderSame
  <2>4. SectorOf(writeAddr) = u
    <3>1. writeAddr = u * S
      BY <2>1 DEF Stage
    <3>2. u * S = u * S + 0
      BY Base, <1>0
    <3> QED
      BY <3>1, <3>2, <1>0, Split
  <2>5. Unfilled'
    <3> SUFFICES ASSUME NEW s \in Sectors \ dirty, status'[s] = "using"
                 PROVE data[s][W] = 0
      BY <2>1 DEF Unfilled
    <3>1. CASE s = u
      BY <2>1, <2>4, <3>1 DEF Blank
    <3>2. CASE s # u
      <4>1. status[s] = "using"
        BY <2>2, <3>2, <1>1
      <4> QED
        BY <2>1, <4>1 DEF Unfilled
    <3> QED
      BY <3>1, <3>2
  <2> QED
    BY <1>0, <2>1, <2>2, <2>3, <2>5 DEF Ranged, Blank
<1>7. CASE Part
  <2>1. dirty' = dirty /\ pc' = "idle" /\ pc = "part"
    BY <1>7 DEF Part
  <2>2. PICK b \in 0..(W - 1) :
          /\ Stage(u, b)' /\ status' = status /\ data'[u][W] = data[u][W]
          /\ \A s \in Sectors \ {u} : data'[s] = data[s]
    BY <1>7, PartStep
  <2>3. InOrder(u)'
    BY <2>1, <2>2 DEF InOrder, Since
  <2>4. Unfilled'
    <3> SUFFICES ASSUME NEW s \in Sectors \ dirty, status[s] = "using"
                 PROVE data'[s][W] = 0
      BY <2>1, <2>2 DEF Unfilled
    <3>1. data'[s][W] = data[s][W]
      BY <2>2
    <3> QED
      BY <2>1, <3>1 DEF Unfilled
  <2> QED
    BY <1>0, <2>1, <2>2, <2>3, <2>4 DEF Ranged, Blank
<1> QED
  BY <1>2, <1>3, <1>4, <1>5, <1>6, <1>7 DEF WriteStep

LEMMA WriteStepOver ==
    ASSUME TypeOK, TypeOK', Fits, Unfilled, WriteStep,
           NEW v \in dirty, Over(v)
    PROVE Ranged' /\ Unfilled' /\ Blank'
<1>1. status \in [Sectors -> Statuses] /\ data \in [Sectors -> Payload]
  BY DEF TypeOK
<1>2. /\ v \in Sectors /\ status[v] = "using" /\ pc \in {"fillOld", "part", "fullOld", "erase"}
      /\ v + 1 \in Sectors /\ writeAddr = (v + 1) * S /\ (pc = "part" => Len(rest) \in 1..W)
  BY DEF Over, WriteStep, Fill, MarkFull, Erase, MarkEmpty, MarkUsing, Part
<1>3. PICK x \in Sectors : x = v + 1
  BY <1>2
<1>4. x \in Nat /\ v \in Nat /\ v # x /\ x * S = x * S + 0 /\ 0 \in 0..W
  BY <1>2, <1>3, Sizes, Base
<1>5. SectorOf(writeAddr) = x /\ writeAddr % S = 0
  BY <1>2, <1>3, <1>4, Split
<1>6. rest \in Seq(Int) /\ S \in Nat /\ S >= 2 /\ W \in Nat
  BY Sizes DEF TypeOK
<1>7. CASE Fill
  <2>1. pc = "fillOld" /\ pc' = "fullOld" /\ writeAddr' = writeAddr /\ dirty' = dirty
    BY <1>2, <1>7 DEF Fill
  <2>2. Room(writeAddr) = S
    BY <1>5, <1>6 DEF Room
  <2>3. PICK ws \in Seq(Int) : ws = SubSeq(rest, 1, S) /\ Len(ws) = S
    <3>1. S <= Len(rest)
      BY <2>1, <2>2 DEF Fits
    <3> QED
      BY <3>1, <1>6, Parts
  <2>4. ws # <<>> /\ Put(x * S, ws)
    <3>1. Put(x * S, ws)
      BY <1>2, <1>3, <1>7, <2>2, <2>3 DEF Fill
    <3>2. Len(ws) # 0
      BY <1>6, <2>3
    <3> QED
      BY <3>1, <3>2
  <2>5. status' = [status EXCEPT ![x] = "invalid"] /\ \A s \in Sectors \ {x} : data'[s] = data[s]
    BY <2>4, PutOver
  <2>6. Over(v)'
    BY <1>1, <1>2, <1>3, <1>4, <2>1, <2>5 DEF Over
  <2>7. Unfilled'
    <3> SUFFICES ASSUME NEW s \in Sectors \ dirty, status'[s] = "using"
                 PROVE data'[s][W] = 0
      BY <2>1 DEF Unfilled
    <3>1. s # x /\ status[s] = "using" /\ data'[s] = data[s]
      BY <2>5, <1>1
    <3> QED
      BY <2>1, <3>1 DEF Unfilled
  <2> QED
    BY <2>1, <2>6, <2>7 DEF Ranged, Blank
<1>8. CASE MarkFull
  <2>1. pc = "fullOld" /\ pc' = "erase" /\ writeAddr' = writeAddr /\ dirty' = dirty /\ data' = data
    BY <1>2, <1>8 DEF MarkFull, call
  <2>2. status' = [status EXCEPT ![x] = AfterMark(status[x], "full")]
    BY <1>5, <1>8 DEF MarkFull, Mark
  <2>3. AfterMark(status[x], "full") # "using"
    BY DEF AfterMark
  <2>4. Over(v)'
    BY <1>1, <1>2, <1>3, <1>4, <2>1, <2>2 DEF Over
  <2>5. Unfilled'
    <3> SUFFICES ASSUME NEW s \in Sectors \ dirty, status'[s] = "using"
                 PROVE data[s][W] = 0
      BY <2>1 DEF Unfilled
    <3>1. s # x /\ status[s] = "using"
      BY <2>2, <2>3, <1>1
    <3> QED
      BY <1>5, <3>1 DEF Unfilled
  <2> QED
    BY <2>1, <2>4, <2>5 DEF Ranged, Blank
<1>9. CASE Erase
  <2>1. pc = "erase" /\ pc' = "empty"
    BY <1>9 DEF Erase
  <2>2. NextSector(writeAddr - 1) = x * S
    <3>1. (v + 1) * S = v * S + S /\ v * S \in Nat /\ S = W + 1
      BY <1>4, Base, Sizes
    <3>2. writeAddr - 1 = v * S + W /\ W \in 0..W /\ v * S + W \in Int
      BY <3>1, <1>2, <1>6
    <3>3. SectorOf(writeAddr - 1) = v
      BY <3>2, <1>4, Split
    <3>4. NextOf(v) = x
      BY <1>2, <1>3, Sizes DEF NextOf
    <3> QED
      BY <3>2, <3>3, <3>4, <1>2, Following
  <2>3. SectorOf(x * S) = x
    BY <1>4, Split
  <2>4. /\ status' = [status EXCEPT ![x] = "erased"] /\ data' = [data EXCEPT ![x] = Erased]
        /\ writeAddr' = x * S /\ dirty' = dirty \ {x}
    BY <1>9, <2>2, <2>3 DEF Erase
  <2>5. Stage(x, 0)'
    BY <1>1, <2>1, <2>4 DEF Stage
  <2>6. Since(v, x)'
    <3>1. Dist(v, x) = 1
      BY <1>2, <1>3, Sizes DEF Dist
    <3>2. \A s \in Sectors : ~(Dist(s, x) < 1)
      BY Distances
    <3> QED
      BY <1>1, <1>2, <1>4, <2>4, <3>1, <3>2 DEF Since
  <2>7. v \in dirty' /\ 0 \in 0..W
    BY <1>4, <2>4
  <2>8. Ranged'
    BY <2>5, <2>6, <2>7 DEF Ranged, InOrder
  <2>9. data'[x][W] = 0
    <3>1. W \in 1..W
      BY Sizes
    <3> QED
      BY <2>4, <3>1, <1>1 DEF Erased
  <2>10. Unfilled'
    <3> SUFFICES ASSUME NEW s \in Sectors \ dirty', status'[s] = "using"
                 PROVE data'[s][W] = 0
      BY DEF Unfilled
    <3>1. s # x /\ status[s] = "using" /\ data'[s] = data[s] /\ s \notin dirty
      BY <2>4, <1>1
    <3> QED
      BY <2>1, <3>1 DEF Unfilled
  <2> QED
    BY <2>3, <2>4, <2>8, <2>9, <2>10 DEF Blank
<1>10. CASE Part
  <2>1. pc = "part" /\ pc' = "idle" /\ dirty' = dirty /\ Put(x * S, rest)
        /\ endAddr' = writeAddr + Len(rest) /\ Len(rest) \in 1..W
    BY <1>2, <1>3, <1>10 DEF Part
  <2>2. rest # <<>>
    BY <2>1, <1>6
  <2>3. status' = [status EXCEPT ![x] = "invalid"] /\ \A s \in Sectors \ {x} : data'[s] = data[s]
    BY <1>6, <2>1, <2>2, PutOver
  <2>4. PICK r \in 0..W : r = Len(rest)
    BY <2>1
  <2>5. endAddr' = (v + 1) * S + r
    BY <1>2, <2>1, <2>4
  <2>6. status'[v] = "using" /\ status'[v + 1] = "invalid"
    BY <1>1, <1>2, <1>3, <1>4, <2>3
  <2>7. Over(v)'
    BY <1>2, <2>1, <2>5, <2>6 DEF Over
  <2>8. Unfilled'
    <3> SUFFICES ASSUME NEW s \in Sectors \ dirty, status'[s] = "using"
                 PROVE data'[s][W] = 0
      BY <2>1 DEF Unfilled
    <3>1. s # x /\ status[s] = "using" /\ data'[s] = data[s]
      BY <2>3, <1>1
    <3> QED
      BY <2>1, <3>1 DEF Unfilled
  <2> QED
    BY <2>1, <2>7, <2>8 DEF Ranged, Blank
<1>11. ~MarkEmpty /\ ~MarkUsing
  BY <1>2 DEF MarkEmpty, MarkUsing
<1> QED
  BY <1>7, <1>8, <1>9, <1>10, <1>11 DEF WriteStep

LEMMA BootRanged ==
    ASSUME TypeOK, Unfilled, Boot, ~MustClean
    PROVE Ranged'
<1>0. W \in Nat /\ W >= 1 /\ H = 1 /\ S = W + 1
  BY Sizes
<1>1. PICK u \in Sectors, w \in BOOLEAN : status[u] = "using" /\ Pass(status, {}, u, w)
  BY NoMistake
<1>2. Using = {u}
  BY <1>1, Accepted
<1>3. pc = "off" /\ pc' = "idle" /\ endAddr' = FindEnd(u) /\ status' = status /\ dirty' = dirty
  BY <1>2 DEF Boot, flash
<1>4. Pass(status, dirty, u, w)
  BY <1>1 DEF Pass
<1>5. InOrder(u)'
  BY <1>3, <1>4 DEF InOrder
<1>6. PICK l \in 0..W : l = LastUsed(u) /\ (l > 0 => data[u][l] # 0)
  BY LastUsedIs
<1>7. PICK c \in 0..W : FindEnd(u) = u * S + H + c /\ (c = W => l = W)
  <2>1. l \in 1..(W - 1) => l - 1 \in 0..W /\ l - 1 # W
    BY <1>0
  <2>2. FindEnd(u) = u * S + H + l \/ (l \in 1..(W - 1) /\ FindEnd(u) = u * S + H + (l - 1))
    BY <1>6 DEF FindEnd
  <2> QED
    BY <1>6, <2>1, <2>2
<1>8. CASE c # W
  <2>1. c < W
    BY <1>0, <1>8
  <2>2. Stage(u, c)'
    BY <1>1, <1>3, <1>7, <2>1 DEF Stage
  <2> QED
    BY <1>5, <2>2 DEF Ranged
<1>9. CASE c = W
  <2>1. u \in dirty
    <3>1. data[u][W] # 0
      BY <1>0, <1>6, <1>7, <1>9
    <3> QED
      BY <1>1, <1>3, <3>1 DEF Unfilled
  <2>2. endAddr' = (u + 1) * S
    <3>1. u * S \in Nat /\ (u + 1) * S = u * S + S
      BY Base, Sizes
    <3> QED
      BY <3>1, <1>0, <1>3, <1>7, <1>9
  <2>3. Over(u)'
    BY <1>1, <1>3, <2>2 DEF Over
  <2> QED
    BY <1>3, <2>1, <2>3 DEF Ranged
<1> QED
  BY <1>8, <1>9

LEMMA WriteRanged ==
    ASSUME TypeOK, Ranged, NEW n \in 1..MaxLen, NEW last \in {"plain", "tail", "blank"},
           Write(n, last)
    PROVE Ranged'
<1>1. /\ pc = "idle" /\ status' = status /\ dirty' = dirty /\ writeAddr' = endAddr
      /\ rest' = Words(n, last) /\ endAddr < Area
      /\ status[SectorOf(endAddr)] \in {"empty", "using", "full"}
      /\ pc' \in {"erase", "fillOld", "part"}
  BY DEF Write, flash
<1>2. CASE \E u \in Sectors, c \in 0..W : InOrder(u) /\ Stage(u, c)
  <2>1. PICK u \in Sectors, c \in 0..W : InOrder(u) /\ Stage(u, c)
    BY <1>2
  <2>2. Stage(u, c)'
    BY <2>1, WriteCall
  <2>3. InOrder(u)'
    BY <1>1, <2>1 DEF InOrder, Since
  <2> QED
    BY <2>2, <2>3 DEF Ranged
<1>3. CASE \E v \in dirty : Over(v)
  <2>1. PICK v \in dirty : Over(v)
    BY <1>3
  <2>2. v \in Sectors /\ status[v] = "using" /\ v \in Nat /\ v < N
    BY <2>1, Sizes DEF Over
  <2>3. endAddr = (v + 1) * S
    <3>1. SUFFICES ASSUME v + 1 \in Sectors, status[v + 1] = "invalid",
                          NEW r \in 0..W, endAddr = (v + 1) * S + r
                   PROVE FALSE
      BY <1>1, <2>1 DEF Over
    <3>2. SectorOf(endAddr) = v + 1
      BY <2>2, <3>1, Split
    <3> QED
      BY <1>1, <3>1, <3>2
  <2>4. v + 1 \in Sectors
    <3>1. SUFFICES ASSUME v + 1 >= N PROVE FALSE
      BY <2>2, Sizes
    <3>2. N * S <= (v + 1) * S /\ N * S \in Int /\ (v + 1) * S \in Int
      BY <3>1, <2>2, Grows, Sizes
    <3> QED
      BY <3>2, <1>1, <2>3 DEF Area
  <2>5. Room(endAddr) = S /\ S = W + 1 /\ W \in Nat
    <3>1. v + 1 \in Nat /\ (v + 1) * S = (v + 1) * S + 0 /\ 0 \in 0..W
      BY <2>2, Base, Sizes
    <3>2. endAddr % S = 0
      BY <2>3, <3>1, Split
    <3> QED
      BY <3>2, Sizes DEF Room
  <2>6. n \in Nat /\ Len(rest') = n /\ n >= 1
    <3>1. n \in Nat /\ n >= 1
      BY LogAssumption
    <3> QED
      BY <3>1, <1>1, WordsType
  <2>7. pc' = "part" => Len(rest') \in 1..W
    <3>1. pc' = "part" => ~(n >= S)
      BY <2>5 DEF Write
    <3> QED
      BY <3>1, <2>5, <2>6
  <2>8. Over(v)'
    BY <1>1, <2>2, <2>3, <2>4, <2>7 DEF Over
  <2> QED
    BY <1>1, <2>1, <2>8 DEF Ranged
<1> QED
  BY <1>2, <1>3 DEF Ranged

(* A power failure while no sectors change leaves them in order.            *)
LEMMA PowerFailsOrdered ==
    ASSUME TypeOK, Fits, Ordered, NEW k \in 0..W, PowerFails(k), ~full'
    PROVE /\ Unfilled'
          /\ ~changing' /\ dirty' = {} =>
                \E u \in Sectors, w \in BOOLEAN : status'[u] = "using" /\ Pass(status', {}, u, w)
<1>1. /\ ~full /\ pc \notin {"fullOld", "fullNew"} /\ dirty' = dirty /\ Unfilled /\ pc' = "off"
      /\ changing' = (pc \notin {"idle", "fillOld", "fillNew", "part"})
  BY DEF PowerFails, TypeOK, Ordered
<1>2. status \in [Sectors -> Statuses] /\ data \in [Sectors -> Payload]
  BY DEF TypeOK
<1>3. CASE status' = status /\ data' = data /\ pc \notin {"idle", "fillOld", "fillNew", "part"}
  BY <1>1, <1>3 DEF Unfilled
<1>4. CASE pc \in {"idle", "fillOld", "fillNew", "part"}
  <2>1. Ranged
    BY <1>1, <1>4 DEF Ordered, Running
  <2>2. CASE \E u \in Sectors, c \in 0..W : InOrder(u) /\ Stage(u, c)
    <3>1. PICK u \in Sectors, c \in 0..W : InOrder(u) /\ Stage(u, c)
      BY <2>2
    <3>2. /\ status' = status /\ status[u] = "using" /\ data'[u][W] = data[u][W]
          /\ \A s \in Sectors \ {u} : data'[s] = data[s]
      BY <1>4, <3>1, StoppedStage
    <3>3. Unfilled'
      <4> SUFFICES ASSUME NEW s \in Sectors \ dirty, status[s] = "using"
                   PROVE data'[s][W] = 0
        BY <1>1, <3>2 DEF Unfilled
      <4>1. data'[s][W] = data[s][W]
        BY <3>2
      <4> QED
        BY <1>1, <4>1 DEF Unfilled
    <3>4. dirty = {} => \E w \in BOOLEAN : Pass(status, {}, u, w)
      BY <3>1 DEF InOrder
    <3> QED
      BY <1>1, <3>2, <3>3, <3>4
  <2>3. CASE \E v \in dirty : Over(v)
    <3>1. PICK v \in dirty : Over(v)
      BY <2>3
    <3>2. Unfilled'
      <4>1. CASE k = 0
        <5>1. status' = status /\ data' = data
          BY <4>1 DEF PowerFails, flash
        <5> QED
          BY <1>1, <5>1 DEF Unfilled
      <4>2. CASE k # 0
        <5>1. /\ pc \in {"fillOld", "fillNew", "part"} /\ k < Len(rest)
              /\ Put(writeAddr, SubSeq(rest, 1, k))
          BY <4>2 DEF PowerFails
        <5>2. v + 1 \in Sectors /\ writeAddr = (v + 1) * S
          BY <3>1, <5>1 DEF Over
        <5>3. k \in Nat /\ rest \in Seq(Int) /\ k <= Len(rest)
          BY <5>1, Sizes DEF TypeOK
        <5>4. SubSeq(rest, 1, k) \in Seq(Int) /\ Len(SubSeq(rest, 1, k)) = k
          BY <5>3, Parts
        <5>5. SubSeq(rest, 1, k) # <<>>
          BY <5>4, <4>2
        <5>6. PICK x \in Sectors : x = v + 1 /\ Put(x * S, SubSeq(rest, 1, k))
          BY <5>1, <5>2
        <5>7. /\ status' = [status EXCEPT ![x] = "invalid"]
              /\ \A s \in Sectors \ {x} : data'[s] = data[s]
          BY <5>4, <5>5, <5>6, PutOver
        <5> SUFFICES ASSUME NEW s \in Sectors \ dirty, status'[s] = "using"
                     PROVE data'[s][W] = 0
          BY <1>1 DEF Unfilled
        <5>8. s # x /\ status[s] = "using" /\ data'[s] = data[s]
          BY <5>7, <1>2
        <5> QED
          BY <1>1, <5>8 DEF Unfilled
      <4> QED
        BY <4>1, <4>2
    <3> QED
      BY <1>1, <3>1, <3>2
  <2> QED
    BY <2>1, <2>2, <2>3 DEF Ranged
<1>5. pc \notin {"idle", "fillOld", "fillNew", "part"} => status' = status /\ data' = data
  BY DEF PowerFails, flash
<1> QED
  BY <1>3, <1>4, <1>5

LEMMA OrderedStep == LInv /\ Ordered /\ LInv' /\ [Next]_vars => Ordered'
<1> SUFFICES ASSUME LInv, Ordered, LInv', [Next]_vars PROVE Ordered'
  OBVIOUS
<1>0. TypeOK /\ Fits /\ Regular /\ TypeOK' /\ Regular'
  BY DEF LInv
<1> DEFINE Kept ==
       \E u \in Sectors, w \in BOOLEAN : status[u] = "using" /\ Pass(status, {}, u, w)
<1>1. CASE Boot
  <2>1. /\ pc = "off" /\ full' = full /\ status' = status /\ data' = data /\ dirty' = dirty
        /\ pc' \in {"idle", "clean"}
    BY <1>1 DEF Boot, flash, boot
  <2>2. ~full => Unfilled'
    BY <2>1 DEF Ordered, Unfilled
  <2>3. ~full /\ pc' = "idle" => Ranged'
    <3>1. pc' = "idle" => ~MustClean
      BY <1>1 DEF Boot
    <3> QED
      BY <3>1, <1>0, <1>1, BootRanged DEF Ordered
  <2> QED
    BY <2>1, <2>2, <2>3 DEF Ordered, Running
<1>2. CASE Clean
  <2>1. /\ pc = "idle" /\ full' = full /\ status' = status /\ data' = data /\ dirty' = dirty
        /\ pc' = "clean"
    BY <1>2 DEF Clean, flash, boot
  <2>2. ~full => Unfilled'
    BY <2>1 DEF Ordered, Unfilled
  <2> QED
    BY <2>1, <2>2 DEF Ordered, Running
<1>3. CASE CleanErase
  <2>1. /\ pc' = "format" /\ full' = FALSE /\ spoilt' = FALSE
        /\ status' = [status EXCEPT ![0] = "erased"]
        /\ dirty' = {s \in Sectors \ {0} : status[s] \notin {"erased", "empty"}}
    BY <1>3 DEF CleanErase
  <2>2. Unfilled'
    <3> SUFFICES ASSUME NEW s \in Sectors \ dirty', status'[s] = "using" PROVE FALSE
      BY DEF Unfilled
    <3>1. s # 0 /\ status[s] = "using"
      BY <2>1, <1>0 DEF TypeOK
    <3> QED
      BY <2>1, <3>1
  <2> QED
    BY <2>1, <2>2 DEF Ordered, Running
<1>4. CASE Format
  <2>1. /\ pc = "format" /\ ~full /\ ~spoilt /\ ~full' /\ ~spoilt' /\ pc' \in {"idle", "format"}
        /\ data' = data /\ dirty' = dirty
    BY <1>4 DEF Format, Ordered, boot
  <2>2. pc' = "idle" => Ranged'
    <3>1. pc' = "idle" => Going'
      BY <1>0, <2>1 DEF Regular, Running
    <3> QED
      BY <3>1 DEF Going, At, Ranged, InOrder
  <2>3. Unfilled'
    <3> SUFFICES ASSUME NEW s \in Sectors \ dirty, status'[s] = "using"
                 PROVE data[s][W] = 0
      BY <2>1 DEF Unfilled
    <3>1. CASE s = 0
      <4>1. data[0] = Erased /\ W \in 1..W
        BY <1>0, <2>1, Sizes DEF Regular, Formatting
      <4> QED
        BY <3>1, <4>1 DEF Erased
    <3>2. CASE s # 0
      <4>1. status[s] = "using"
        <5>1. PICK x \in {0, fmt - 1}, y \in {"empty", "using"} :
                 /\ status' = [status EXCEPT ![x] = AfterMark(status[x], y)]
                 /\ y = "using" => x = 0
          BY <1>4 DEF Format, Mark
        <5>2. AfterMark(status[s], "empty") = "using" => status[s] = "using"
          BY DEF AfterMark
        <5> QED
          BY <5>1, <5>2, <3>2, <1>0 DEF TypeOK
      <4> QED
        BY <2>1, <4>1 DEF Ordered, Unfilled
    <3> QED
      BY <3>1, <3>2
  <2> QED
    BY <2>1, <2>2, <2>3 DEF Ordered, Running
<1>5. CASE WriteStep
  <2>1. /\ pc \in Running /\ full' = full /\ pc' \in Running \ {"off", "format"}
    BY <1>5 DEF WriteStep, Fill, MarkFull, Erase, MarkEmpty, MarkUsing, Part, boot, Running
  <2>2. CASE full
    BY <2>1, <2>2 DEF Ordered, Running
  <2>3. CASE ~full
    <3>1. Ranged /\ Unfilled /\ Blank
      BY <2>1, <2>3 DEF Ordered, Blank
    <3>2. Ranged' /\ Unfilled' /\ Blank'
      <4>1. CASE \E u \in Sectors, c \in 0..W : InOrder(u) /\ Stage(u, c)
        BY <1>0, <1>5, <3>1, <4>1, WriteStepRanged
      <4>2. CASE \E v \in dirty : Over(v)
        BY <1>0, <1>5, <3>1, <4>2, WriteStepOver
      <4> QED
        BY <3>1, <4>1, <4>2 DEF Ranged
    <3> QED
      BY <2>1, <3>2 DEF Ordered, Blank
  <2> QED
    BY <2>2, <2>3
<1>6. ASSUME NEW n \in 1..MaxLen, NEW last \in {"plain", "tail", "blank"}, Write(n, last)
      PROVE Ordered'
  <2>1. /\ pc = "idle" /\ full' = full /\ status' = status /\ data' = data /\ dirty' = dirty
        /\ pc' \in {"erase", "fillOld", "part"}
    BY <1>6 DEF Write, flash, boot
  <2>2. ~full => Unfilled'
    BY <2>1 DEF Ordered, Unfilled
  <2>3. ~full => Ranged'
    <3>1. ~full => Ranged
      BY <2>1 DEF Ordered, Running
    <3> QED
      BY <3>1, <1>0, <1>6, WriteRanged
  <2> QED
    BY <2>1, <2>2, <2>3 DEF Ordered, Running
<1>7. ASSUME NEW k \in 0..W, PowerFails(k) PROVE Ordered'
  <2>1. pc' = "off" /\ pc' \notin Running
    BY <1>7 DEF PowerFails, Running
  <2> QED
    BY <1>0, <1>7, <2>1, PowerFailsOrdered DEF Ordered
<1>8. CASE UNCHANGED vars
  <2>1. /\ status' = status /\ data' = data /\ startAddr' = startAddr /\ endAddr' = endAddr
        /\ pc' = pc /\ writeAddr' = writeAddr /\ rest' = rest
        /\ changing' = changing /\ full' = full /\ dirty' = dirty /\ spoilt' = spoilt
    BY <1>8 DEF vars, flash, ram, call, boot
  <2>2. Ranged' = Ranged /\ Unfilled' = Unfilled
    BY <2>1 DEF Ranged, InOrder, Since, Stage, Over, Unfilled
  <2> QED
    BY <2>1, <2>2 DEF Ordered
<1> QED
  BY <1>1, <1>2, <1>3, <1>4, <1>5, <1>6, <1>7, <1>8 DEF Next, Step

LEMMA OrderInv == Spec => []OInv
<1>1. Init => Ordered
  BY DEF Init, Ordered, Running, Unfilled
<1>2. LInv /\ Ordered /\ LInv' /\ [Next]_vars => Ordered'
  BY OrderedStep
<1>3. LInv /\ Ordered => OInv
  BY DEF OInv
<1> QED
  BY <1>1, <1>2, <1>3, LogInv, PTL DEF Spec

(* Loading gives the log up only after a failure while sectors changed, or  *)
(* between filling one and marking it FULL, or with used sectors a clean    *)
(* left behind.                                                             *)
THEOREM GivenUpForReason == Spec => WipedForReason
<1>1. OInv /\ [Next]_vars =>
        [pc = "off" /\ pc' = "clean" => changing \/ full \/ dirty # {}]_vars
  <2> SUFFICES ASSUME OInv, [Next]_vars, pc = "off", pc' = "clean", ~changing, ~full, dirty = {}
               PROVE FALSE
    BY DEF OInv, LInv, TypeOK
  <2>1. PICK u \in Sectors, w \in BOOLEAN : status[u] = "using" /\ Pass(status, {}, u, w)
    BY DEF OInv, Ordered
  <2>2. ~MustClean
    BY <2>1, Accepted
  <2>3. ~Boot
    BY <2>2 DEF Boot
  <2> QED
    BY <2>3 DEF Next, Step, WriteStep, Clean, CleanErase, Format, Fill, MarkFull, Erase,
                MarkEmpty, MarkUsing, Part, Write, PowerFails, vars
<1> QED
  BY <1>1, OrderInv, PTL DEF Spec, WipedForReason

-----------------------------------------------------------------------------
(* Reading the log: the loop of log_seq_read ends, since every turn reads a *)
(* word or more, so that LoopReads is what its recursion says.              *)

Reads(f, l) ==
    IF l.size = 0 THEN <<>>
    ELSE Cells(DataAddr(l) + l.read_size, TempSize(l)) \o f[Turn(l)]
UpTo(m) == {l \in Loop : l.size <= m}
ReadsUpTo(f, m) == f = [l \in UpTo(m) |-> Reads(f, l)]

LEMMA TurnReads ==
    ASSUME NEW l \in Loop
    PROVE /\ DataAddr(l) \in Nat /\ TempSize(l) \in Nat
          /\ TempSize(l) <= l.size /\ TempSize(l) <= Room(DataAddr(l))
          /\ Turn(l) \in Loop
          /\ l.size # 0 => Turn(l).size < l.size
<1>1. l.addr \in Nat /\ l.read_size \in Nat /\ l.size \in Nat
  BY DEF Loop
<1>2. DataAddr(l) \in Nat
  BY <1>1, Sizes DEF DataAddr
<1>3. Room(DataAddr(l)) \in 1..S /\ S \in Nat
  BY <1>2, SectorAddresses, Sizes
<1>4. TempSize(l) \in Nat /\ TempSize(l) <= l.size /\ TempSize(l) <= Room(DataAddr(l))
      /\ (l.size # 0 => TempSize(l) # 0)
  BY <1>1, <1>3 DEF TempSize
<1>5. PICK n \in Nat : n = TempSize(l)
  BY <1>4
<1>6. PICK b \in Nat : b = DataAddr(l)
  BY <1>2
<1>7. /\ Turn(l) = [addr |-> b, read_size |-> l.read_size + n, size |-> l.size - n]
      /\ l.read_size + n \in Nat /\ l.size - n \in Nat /\ (l.size # 0 => l.size - n < l.size)
  BY <1>1, <1>4, <1>5, <1>6 DEF Turn
<1>8. Turn(l) \in Loop /\ Turn(l).size = l.size - n
  BY <1>7 DEF Loop
<1> QED
  BY <1>2, <1>4, <1>7, <1>8

LEMMA SameReads ==
    ASSUME NEW m \in Nat, NEW k \in Nat, m <= k, NEW f, NEW g, ReadsUpTo(f, m), ReadsUpTo(g, k)
    PROVE \A l \in UpTo(m) : f[l] = g[l]
<1> DEFINE T == {j \in Nat : \E l \in UpTo(m) : l.size = j /\ f[l] # g[l]}
<1>1. SUFFICES ASSUME T # {} PROVE FALSE
  <2>1. \A l \in UpTo(m) : l.size \in Nat
    BY DEF UpTo, Loop
  <2> QED
    BY <2>1
<1>2. PICK j \in T : \A i \in T : j <= i
  <2>1. T \in SUBSET Nat
    OBVIOUS
  <2> HIDE DEF T
  <2> QED
    BY <2>1, <1>1, Least
<1>3. PICK l \in UpTo(m) : l.size = j /\ f[l] # g[l]
  OBVIOUS
<1>4. l \in Loop /\ l.size \in Nat /\ l.size <= m /\ l \in UpTo(k)
  BY DEF UpTo, Loop
<1>5. f[l] = Reads(f, l) /\ g[l] = Reads(g, l)
  BY <1>3, <1>4 DEF ReadsUpTo
<1>6. l.size # 0
  BY <1>3, <1>5 DEF Reads
<1>7. Turn(l) \in UpTo(m) /\ Turn(l).size < j /\ Turn(l).size \in Nat
  BY <1>3, <1>4, <1>6, TurnReads DEF UpTo, Loop
<1>8. f[Turn(l)] = g[Turn(l)]
  <2>1. CASE Turn(l).size \in T
    BY <2>1, <1>2, <1>3, <1>4, <1>7
  <2> QED
    BY <2>1, <1>7
<1> QED
  BY <1>3, <1>5, <1>8 DEF Reads

LEMMA ReadsExist ==
    ASSUME NEW m \in Nat
    PROVE \E f : ReadsUpTo(f, m)
<1> DEFINE T == {j \in Nat : ~ \E f : ReadsUpTo(f, j)}
<1>1. SUFFICES ASSUME T # {} PROVE FALSE
  OBVIOUS
<1>2. PICK k \in T : \A i \in T : k <= i
  <2>1. T \in SUBSET Nat
    OBVIOUS
  <2> HIDE DEF T
  <2> QED
    BY <2>1, <1>1, Least
<1>3. k # 0
  <2>1. SUFFICES ASSUME k = 0 PROVE FALSE
    OBVIOUS
  <2>2. \A l \in UpTo(0) : l.size = 0
    BY DEF UpTo, Loop
  <2>3. PICK f : f = [l \in UpTo(0) |-> <<>>]
    OBVIOUS
  <2>4. \A l \in UpTo(0) : Reads(f, l) = <<>>
    BY <2>2 DEF Reads
  <2>5. ReadsUpTo(f, 0)
    BY <2>3, <2>4 DEF ReadsUpTo
  <2> QED
    BY <2>1, <2>5
<1>4. PICK f : ReadsUpTo(f, k - 1)
  BY <1>2, <1>3
<1>5. \A l \in UpTo(k - 1) : f[l] = Reads(f, l)
  BY <1>4 DEF ReadsUpTo
<1>6. PICK g : g = [l \in UpTo(k) |-> IF l \in UpTo(k - 1) THEN f[l] ELSE Reads(f, l)]
  OBVIOUS
<1>7. ASSUME NEW l \in UpTo(k) PROVE g[l] = Reads(f, l)
  BY <1>5, <1>6
<1>8. ASSUME NEW l \in UpTo(k) PROVE Reads(f, l) = Reads(g, l)
  <2>1. l \in Loop /\ l.size \in Nat /\ l.size <= k /\ k \in Nat
    BY DEF UpTo, Loop
  <2>2. CASE l.size = 0
    BY <2>2 DEF Reads
  <2>3. CASE l.size # 0
    <3>1. Turn(l) \in UpTo(k - 1) /\ Turn(l) \in UpTo(k)
      BY <2>1, <2>3, TurnReads DEF UpTo, Loop
    <3>2. g[Turn(l)] = f[Turn(l)]
      BY <3>1, <1>6
    <3> QED
      BY <3>2 DEF Reads
  <2> QED
    BY <2>2, <2>3
<1>9. g = [l \in UpTo(k) |-> Reads(g, l)]
  BY <1>6, <1>7, <1>8
<1> QED
  BY <1>2, <1>9 DEF ReadsUpTo

LEMMA LoopEnds ==
    ASSUME NEW l \in Loop
    PROVE LoopReads[l] = Reads(LoopReads, l)
<1> DEFINE Some(m) == CHOOSE f : ReadsUpTo(f, m)
           F == [k \in Loop |-> Some(k.size)[k]]
<1>1. ASSUME NEW m \in Nat PROVE ReadsUpTo(Some(m), m)
  BY ReadsExist
<1> HIDE DEF Some
<1>2. ASSUME NEW k \in Loop PROVE F[k] = Reads(F, k)
  <2>1. k.size \in Nat /\ k \in UpTo(k.size)
    BY DEF UpTo, Loop
  <2>2. PICK f : f = Some(k.size)
    OBVIOUS
  <2>3. ReadsUpTo(f, k.size)
    BY <2>1, <2>2, <1>1
  <2>4. F[k] = Reads(f, k)
    BY <2>1, <2>2, <2>3 DEF ReadsUpTo
  <2>5. CASE k.size = 0
    BY <2>4, <2>5 DEF Reads
  <2>6. CASE k.size # 0
    <3>1. /\ Turn(k) \in Loop /\ Turn(k).size \in Nat /\ Turn(k).size <= k.size
          /\ Turn(k) \in UpTo(Turn(k).size)
      BY <2>1, <2>6, TurnReads DEF UpTo, Loop
    <3>2. PICK h : h = Some(Turn(k).size)
      OBVIOUS
    <3>3. ReadsUpTo(h, Turn(k).size)
      BY <3>1, <3>2, <1>1
    <3>4. h[Turn(k)] = f[Turn(k)]
      BY <3>1, <3>3, <2>1, <2>3, SameReads
    <3>5. F[Turn(k)] = f[Turn(k)]
      BY <3>1, <3>2, <3>4
    <3> QED
      BY <2>4, <3>5 DEF Reads
  <2> QED
    BY <2>5, <2>6
<1>3. F = [k \in Loop |-> Reads(F, k)]
  BY <1>2
<1>4. \E f : f = [k \in Loop |-> Reads(f, k)]
  BY <1>3
<1>5. LoopReads = [k \in Loop |-> Reads(LoopReads, k)]
  BY <1>4 DEF LoopReads, Reads
<1> QED
  BY <1>5

(* The word at place p of sector s is read at the address it has.           *)
LEMMA CellAt ==
    ASSUME NEW s \in Sectors, NEW p \in 1..W
    PROVE Cell(s * S + p) = data[s][p]
<1>1. s \in Nat /\ s < N /\ p \in Nat /\ 1 <= p /\ p <= W /\ p \in 0..W
  BY Sizes
<1>2. SectorOf(s * S + p) = s /\ (s * S + p) % S = p
  BY <1>1, Split
<1>3. PICK x \in Nat : x = s * S
  BY <1>1, Base
<1>4. PICK y \in Nat : y = N * S
  BY Base, Sizes
<1>5. x + S <= y
  BY <1>1, <1>3, <1>4, Base, Grows, Sizes
<1>6. ~(x + p >= y)
  BY <1>1, <1>3, <1>4, <1>5, Sizes
<1>7. ~(p < 1) /\ p - 1 + 1 = p
  BY <1>1
<1> QED
  BY <1>2, <1>3, <1>4, <1>6, <1>7 DEF Cell, Area, H

LEMMA CellTypes ==
    ASSUME TypeOK, NEW a \in Nat
    PROVE Cell(a) \in Int
<1>1. Header \in Int
  BY LogAssumption DEF Header, Corrupt
<1>2. CASE a >= Area \/ a % S < H
  BY <1>1, <1>2 DEF Cell
<1>3. CASE ~(a >= Area) /\ ~(a % S < H)
  <2>1. PICK s \in Int : s = SectorOf(a)
    BY SectorAddresses
  <2>2. PICK p \in 0..W : p = a % S
    BY SectorAddresses
  <2>3. a = (s * S) + p
    BY <2>1, <2>2, SectorAddresses
  <2>4. p \in 1..W
    BY <1>3, <2>2, Sizes
  <2>5. s >= 0
    <3>1. SUFFICES ASSUME s <= -1 PROVE FALSE
      OBVIOUS
    <3>2. s * S <= (-1) * S /\ s * S \in Int
      BY <3>1, Grows
    <3> QED
      BY <2>3, <2>4, <3>2, Sizes
  <2>6. s < N
    <3>1. SUFFICES ASSUME s >= N PROVE FALSE
      BY Sizes
    <3>2. N * S <= s * S /\ s * S \in Int /\ N * S \in Int
      BY <3>1, Grows, Sizes
    <3> QED
      BY <1>3, <2>3, <2>4, <3>2, Sizes DEF Area
  <2>7. s \in Sectors
    BY <2>5, <2>6, Sizes
  <2>8. Cell(a) = data[s][p]
    BY <2>3, <2>4, <2>7, CellAt
  <2>9. data[s] \in [1..W -> Int]
    BY <2>7 DEF TypeOK, Payload
  <2>10. data[s][p] \in Int
    BY <2>4, <2>9
  <2> QED
    BY <2>3, <2>8, <2>10
<1> QED
  BY <1>2, <1>3

LEMMA CellsTypes ==
    ASSUME TypeOK, NEW a \in Nat, NEW n \in Nat
    PROVE /\ Cells(a, n) \in Seq(Int) /\ Len(Cells(a, n)) = n
          /\ \A i \in 1..n : Cells(a, n)[i] = Cell(a + i - 1)
<1>1. \A i \in 1..n : Cell(a + i - 1) \in Int
  <2> TAKE i \in 1..n
  <2>1. a + i - 1 \in Nat
    OBVIOUS
  <2> QED
    BY <2>1, CellTypes
<1>2. PICK g : g = Cells(a, n)
  OBVIOUS
<1>3. g \in [1..n -> Int] /\ \A i \in 1..n : g[i] = Cell(a + i - 1)
  BY <1>1, <1>2 DEF Cells
<1> QED
  BY <1>2, <1>3

Join(a, n, b, m) == Cells(a, n) \o Cells(b, m) = Cells(a, n + m)

LEMMA CellsJoin ==
    ASSUME TypeOK, NEW a \in Nat, NEW n \in Nat, NEW m \in Nat,
           NEW b \in Nat, b = a + n
    PROVE Join(a, n, b, m)
<1>1. PICK k \in Nat : k = n + m
  OBVIOUS
<1>2. PICK x : x = Cells(a, n)
  OBVIOUS
<1>3. PICK y : y = Cells(b, m)
  OBVIOUS
<1>4. PICK z : z = Cells(a, k)
  OBVIOUS
<1>5. x \in Seq(Int) /\ Len(x) = n /\ \A i \in 1..n : x[i] = Cell(a + i - 1)
  BY <1>2, CellsTypes
<1>6. y \in Seq(Int) /\ Len(y) = m /\ \A i \in 1..m : y[i] = Cell(b + i - 1)
  BY <1>3, CellsTypes
<1>7. z \in Seq(Int) /\ Len(z) = k /\ \A i \in 1..k : z[i] = Cell(a + i - 1)
  BY <1>4, CellsTypes
<1>8. x \o y \in Seq(Int) /\ Len(x \o y) = k
  <2>1. x \in Seq(Int) /\ y \in Seq(Int) /\ Len(x) + Len(y) = k
    BY <1>1, <1>5, <1>6
  <2> QED
    BY <2>1, ConcatProperties
<1>9. ASSUME NEW i \in 1..k PROVE (x \o y)[i] = z[i]
  <2>1. CASE i <= n
    <3>1. i \in 1..n
      BY <2>1
    <3>2. (x \o y)[i] = x[i]
      BY <3>1, <1>5, <1>6
    <3> QED
      BY <3>1, <3>2, <1>5, <1>7
  <2>2. CASE i > n
    <3>1. i - n \in 1..m /\ b + (i - n) - 1 = a + i - 1
      BY <2>2, <1>1
    <3>2. (x \o y)[i] = y[i - n]
      <4>1. i \in 1..(Len(x) + Len(y)) /\ ~(i <= Len(x)) /\ i - Len(x) = i - n
        BY <2>2, <1>1, <1>5, <1>6
      <4> QED
        BY <4>1, <1>5, <1>6, ConcatProperties
    <3>3. y[i - n] = Cell(a + i - 1)
      BY <3>1, <1>6
    <3> QED
      BY <3>2, <3>3, <1>7
  <2>3. i <= n \/ i > n
    OBVIOUS
  <2> QED
    BY <2>1, <2>2, <2>3
<1>10. x \o y = z
  BY <1>7, <1>8, <1>9, SeqEqual
<1> QED
  BY <1>2, <1>3, <1>1, <1>4, <1>10 DEF Join

LEMMA NoCells == \A a : Cells(a, 0) = <<>>
<1> TAKE a
<1>1. 1..0 = {}
  OBVIOUS
<1>2. Cells(a, 0) = [i \in {} |-> Cell(a + i - 1)]
  BY <1>1 DEF Cells
<1> QED
  BY <1>2

(* Reading within one sector.                                               *)
LEMMA ReadsSector ==
    ASSUME TypeOK, NEW s \in Sectors, NEW p \in 1..W, NEW n \in Nat, p + n <= W + 1
    PROVE SeqRead(s * S + p, n) = Cells(s * S + p, n)
<1>1. PICK a \in Nat : a = s * S + p
  BY Base, Sizes
<1>2. a % S = p
  BY <1>1, Split, Sizes
<1>3. PICK l : l = [addr |-> a, read_size |-> 0, size |-> n]
  OBVIOUS
<1>4. l \in Loop /\ l.addr = a /\ l.read_size = 0 /\ l.size = n
  BY <1>3 DEF Loop
<1>5. SeqRead(a, n) = LoopReads[l] /\ LoopReads[l] = Reads(LoopReads, l)
  BY <1>3, <1>4, LoopEnds DEF SeqRead
<1>6. CASE n = 0
  BY <1>1, <1>4, <1>5, <1>6, NoCells DEF Reads
<1>7. CASE n # 0
  <2>1. DataAddr(l) = a
    BY <1>2, <1>4 DEF DataAddr
  <2>2. n <= Room(a) /\ Room(a) \in Nat
    BY <1>2, Sizes DEF Room
  <2>3. TempSize(l) = n
    BY <2>1, <2>2, <1>4 DEF TempSize
  <2>4. Turn(l) \in Loop /\ Turn(l).size = 0
    BY <1>4, <2>3, TurnReads DEF Turn
  <2>5. LoopReads[Turn(l)] = <<>>
    BY <2>4, LoopEnds DEF Reads
  <2>6. LoopReads[l] = Cells(a, n) \o <<>>
    BY <1>4, <1>5, <1>7, <2>1, <2>3, <2>5 DEF Reads
  <2>7. Cells(a, n) \in Seq(Int)
    BY CellsTypes
  <2> QED
    BY <1>1, <1>5, <2>6, <2>7
<1> QED
  BY <1>6, <1>7

(* The first sector from its header on.                                     *)
LEMMA ReadsFromHeader ==
    ASSUME TypeOK, NEW n \in 0..W
    PROVE SeqRead(0, n) = Cells(1, n)
<1>1. n \in Nat /\ n <= W /\ W \in Nat /\ S = W + 1
  BY Sizes
<1>2. 0 % S = 0 /\ 1 % S = 1
  BY Sizes
<1>3. PICK l : l = [addr |-> 0, read_size |-> 0, size |-> n]
  OBVIOUS
<1>4. l \in Loop /\ l.addr = 0 /\ l.read_size = 0 /\ l.size = n
  BY <1>1, <1>3 DEF Loop
<1>5. SeqRead(0, n) = LoopReads[l] /\ LoopReads[l] = Reads(LoopReads, l)
  BY <1>3, <1>4, LoopEnds DEF SeqRead
<1>6. CASE n = 0
  BY <1>4, <1>5, <1>6, NoCells DEF Reads
<1>7. CASE n # 0
  <2>1. DataAddr(l) = 1
    BY <1>2, <1>4 DEF DataAddr, H
  <2>2. Room(1) = W
    BY <1>1, <1>2 DEF Room
  <2>3. TempSize(l) = n
    BY <2>1, <2>2, <1>1, <1>4 DEF TempSize
  <2>4. Turn(l) \in Loop /\ Turn(l).size = 0
    BY <1>1, <1>4, <2>3, TurnReads DEF Turn
  <2>5. LoopReads[Turn(l)] = <<>>
    BY <2>4, LoopEnds DEF Reads
  <2>6. LoopReads[l] = Cells(1, n) \o <<>>
    BY <1>4, <1>5, <1>7, <2>1, <2>3, <2>5 DEF Reads
  <2>7. Cells(1, n) \in Seq(Int)
    BY <1>1, CellsTypes
  <2> QED
    BY <1>5, <2>6, <2>7
<1> QED
  BY <1>6, <1>7

(* Reading on from word j of a sector, whatever room the loop counts with.  *)
LEMMA ReadsOn ==
    ASSUME TypeOK, NEW t \in Nat, NEW x \in Nat, x = t * S + 1
    PROVE \A l \in Loop : \A j \in 0..W :
              l.addr + l.read_size = x + j /\ j + l.size <= W
              => LoopReads[l] = Cells(x + j, l.size)
<1> DEFINE Wrong(l, j) == /\ l.addr + l.read_size = x + j /\ j + l.size <= W
                          /\ LoopReads[l] # Cells(x + j, l.size)
           T == {z \in Nat : \E l \in Loop, j \in 0..W : l.size = z /\ Wrong(l, j)}
<1>1. SUFFICES ASSUME T # {} PROVE FALSE
  <2>1. \A l \in Loop : l.size \in Nat
    BY DEF Loop
  <2> QED
    BY <2>1
<1>2. PICK z \in T : \A i \in T : z <= i
  <2>1. T \in SUBSET Nat
    OBVIOUS
  <2> HIDE DEF T
  <2> QED
    BY <2>1, <1>1, Least
<1>3. PICK l \in Loop, j \in 0..W : l.size = z /\ Wrong(l, j)
  OBVIOUS
<1>4. l.addr \in Nat /\ l.read_size \in Nat /\ l.size \in Nat
  BY DEF Loop
<1>5. W \in Nat /\ j \in Nat /\ S = W + 1 /\ x + j \in Nat
  BY Sizes
<1>6. LoopReads[l] = Reads(LoopReads, l)
  BY LoopEnds
<1>7. z # 0
  BY <1>3, <1>6, NoCells DEF Reads
<1>8. (x + j) % S = 1 + j
  <2>1. 1 + j \in 0..W
    BY <1>3, <1>4, <1>5, <1>7
  <2>2. t * S \in Nat
    BY Base
  <2>3. x + j = t * S + (1 + j)
    BY <2>2, <1>5
  <2> QED
    BY <2>1, <2>3, Split
<1>9. DataAddr(l) = l.addr
  BY <1>3, <1>5, <1>8 DEF DataAddr
<1>10. PICK n \in Nat : n = TempSize(l)
  BY TurnReads
<1>11. n <= z
  BY <1>3, <1>10, TurnReads
<1>12. PICK k : k = Turn(l)
  OBVIOUS
<1>13. /\ k \in Loop /\ k.size < z /\ k.addr = l.addr /\ k.read_size = l.read_size + n
       /\ k.size = z - n
  BY <1>3, <1>4, <1>7, <1>9, <1>10, <1>12, TurnReads DEF Turn
<1>14. LoopReads[k] = Cells(x + (j + n), z - n)
  <2>1. k.size \in Nat /\ ~(z <= k.size)
    BY <1>13, <1>4, <1>11, <1>3
  <2>2. ~ \E i \in 0..W : Wrong(k, i)
    BY <2>1, <1>2, <1>13
  <2>3. j + n \in 0..W
    BY <1>3, <1>4, <1>5, <1>11
  <2>4. k.addr + k.read_size = x + (j + n) /\ (j + n) + k.size <= W
    BY <1>3, <1>4, <1>5, <1>11, <1>13
  <2> QED
    BY <2>2, <2>3, <2>4, <1>13
<1>15. LoopReads[l] = Cells(x + j, n) \o Cells(x + (j + n), z - n)
  <2>1. l.addr + l.read_size = x + j
    BY <1>3
  <2>2. LoopReads[l] = Cells(l.addr + l.read_size, n) \o LoopReads[k]
    BY <1>3, <1>6, <1>7, <1>9, <1>10, <1>12 DEF Reads
  <2> QED
    BY <2>1, <2>2, <1>14
<1>16. PICK m \in Nat : m = z - n
  BY <1>11
<1>17. PICK y \in Nat : y = x + j
  BY <1>5
<1>18. PICK b \in Nat : b = y + n
  OBVIOUS
<1>19. b = x + (j + n) /\ z = n + m
  BY <1>5, <1>16, <1>17, <1>18, <1>11
<1>20. Join(y, n, b, m)
  BY <1>18, CellsJoin
<1> QED
  BY <1>3, <1>15, <1>16, <1>17, <1>19, <1>20 DEF Join

(* Reading over the header of the next sector.                              *)
Across(x, s, p, n, t, m) == x = Cells(s * S + p, n) \o Cells(t * S + 1, m)

LEMMA ReadsNext ==
    ASSUME TypeOK, NEW s \in Sectors, NEW t \in Sectors, t = s + 1, NEW p \in 1..W,
           NEW n \in Nat, n = W + 1 - p, NEW m \in 1..W, NEW a, a = s * S + p
    PROVE Across(SeqRead(a, n + m), s, p, n, t, m)
<1>0. /\ s \in Nat /\ p \in Nat /\ p >= 1 /\ p <= W /\ W \in Nat /\ m \in Nat /\ m >= 1 /\ m <= W
      /\ S = W + 1
  BY Sizes
<1>1. PICK x \in Nat : x = s * S
  BY <1>0, Base
<1>2. a = x + p /\ a \in Nat
  BY <1>0, <1>1
<1>3. PICK b \in Nat : b = (s + 1) * S
  BY <1>0, Base
<1>4. b = a + n
  BY <1>0, <1>1, <1>2, <1>3, Base
<1>5. a % S = p
  <2>1. a = s * S + p /\ p \in 0..W
    BY <1>0, <1>1, <1>2
  <2> QED
    BY <2>1, <1>0, Split
<1>6. b % S = 0
  <2>1. b = (s + 1) * S + 0 /\ s + 1 \in Nat /\ 0 \in 0..W
    BY <1>0, <1>3
  <2> QED
    BY <2>1, Split
<1>7. PICK l : l = [addr |-> a, read_size |-> 0, size |-> n + m]
  OBVIOUS
<1>8. l \in Loop /\ l.addr = a /\ l.read_size = 0 /\ l.size = n + m
  BY <1>7, <1>0 DEF Loop
<1>9. SeqRead(a, n + m) = LoopReads[l] /\ LoopReads[l] = Reads(LoopReads, l)
  BY <1>7, <1>8, LoopEnds DEF SeqRead
<1>10. DataAddr(l) = a
  BY <1>0, <1>5, <1>8 DEF DataAddr
<1>11. TempSize(l) = n
  <2>1. Room(a) = n
    BY <1>0, <1>5 DEF Room
  <2> QED
    BY <2>1, <1>0, <1>8, <1>10 DEF TempSize
<1>12. PICK k : k = Turn(l)
  OBVIOUS
<1>13. k \in Loop /\ k.addr = a /\ k.read_size = n /\ k.size = m
  BY <1>0, <1>8, <1>10, <1>11, <1>12, TurnReads DEF Turn
<1>14. LoopReads[l] = Cells(a, n) \o LoopReads[k]
  <2>1. l.size # 0 /\ a + l.read_size = a
    BY <1>0, <1>8
  <2> QED
    BY <2>1, <1>9, <1>10, <1>11, <1>12 DEF Reads
<1>15. LoopReads[k] = Cells(b + 1, m)
  <2>1. LoopReads[k] = Reads(LoopReads, k)
    BY <1>13, LoopEnds
  <2>2. DataAddr(k) = a + 1
    BY <1>4, <1>6, <1>13 DEF DataAddr, H
  <2>3. PICK c \in Nat : c = TempSize(k)
    BY <1>13, TurnReads
  <2>4. c <= m
    BY <1>13, <2>3, TurnReads
  <2>5. PICK g : g = Turn(k)
    OBVIOUS
  <2>6. g \in Loop /\ g.addr = a + 1 /\ g.read_size = n + c /\ g.size = m - c
    BY <1>13, <2>2, <2>3, <2>5, TurnReads DEF Turn
  <2>7. LoopReads[k] = Cells(b + 1, c) \o LoopReads[g]
    <3>1. a + 1 + n = b + 1
      BY <1>4
    <3>2. k.size # 0
      BY <1>0, <1>13
    <3> QED
      BY <2>1, <2>2, <2>3, <2>5, <1>13, <3>1, <3>2 DEF Reads
  <2>8. PICK y \in Nat : y = b + 1
    OBVIOUS
  <2>9. PICK z \in Nat : z = m - c
    BY <2>4, <1>0
  <2>10. PICK e \in Nat : e = y + c
    OBVIOUS
  <2>11. LoopReads[g] = Cells(e, z)
    <3>1. g.addr + g.read_size = y + c /\ c + g.size <= W /\ c \in 0..W
      BY <1>0, <1>4, <2>4, <2>6, <2>8
    <3>2. s + 1 \in Nat /\ y = (s + 1) * S + 1
      BY <1>0, <1>3, <2>8
    <3>3. LoopReads[g] = Cells(y + c, g.size)
      BY <2>6, <3>1, <3>2, ReadsOn
    <3> QED
      BY <3>3, <2>6, <2>9, <2>10
  <2>12. m = c + z
    BY <1>0, <2>9
  <2>13. Join(y, c, e, z)
    BY <2>10, CellsJoin
  <2> QED
    BY <2>7, <2>8, <2>11, <2>12, <2>13 DEF Join
<1> QED
  BY <1>1, <1>2, <1>3, <1>9, <1>14, <1>15 DEF Across

LEMMA Quotient ==
    ASSUME NEW q \in Nat, NEW r \in 0..(W - 1)
    PROVE /\ q * W + r \in Nat /\ (q * W + r) \div W = q /\ (q * W + r) % W = r
          /\ (q + 1) * W = q * W + W
<1>1. W \in Nat \ {0} /\ r \in Nat
  BY Sizes
<1> QED
  BY <1>1

(* The word at an index of the log, and its address.                        *)
LEMMA IndexAt ==
    ASSUME NEW u, NEW c, NEW w, NEW f, NEW D, Layout(u, c, w, f, D),
           NEW q \in 0..D, NEW r \in 0..(W - 1), NEW s \in Sectors, s = (f + q) % N
    PROVE IndexToAddr(q * W + r) = s * S + (r + 1)
<1>0. /\ W \in Nat /\ W >= 1 /\ N \in Nat /\ N >= 2 /\ u \in Nat /\ u < N
      /\ f \in Nat /\ f < N /\ q \in Nat /\ q <= D /\ r \in Nat /\ r < W /\ S = W + 1
      /\ s \in Nat /\ s < N /\ D \in Nat /\ u \in Sectors /\ w \in BOOLEAN
      /\ f = (IF w THEN NextOf(u) ELSE 0) /\ D = (IF w THEN N - 1 ELSE u)
  BY Sizes DEF Layout
<1>1. PICK y \in Nat : y = f * S
  BY <1>0, Base
<1>2. PICK qW \in Nat : qW = q * W
  BY <1>0, Base
<1>3. PICK i \in Nat : i = qW + r
  BY <1>0
<1>4. i \div W = q
  BY <1>0, <1>2, <1>3, Quotient
<1>5. PICK a \in Nat : a = y + qW + q + (r + 1)
  BY <1>0
<1>6. startAddr + i + (i \div W + 1) * H = a
  <2>1. startAddr = y
    BY <1>1, Extent
  <2> QED
    BY <2>1, <1>0, <1>3, <1>4, <1>5 DEF H
<1>7. PICK g \in Nat : g = f + q
  BY <1>0
<1>8. a = g * S + (r + 1) /\ g * S \in Nat
  <2>1. g * S = y + q * S /\ q * S = qW + q
    BY <1>0, <1>1, <1>2, <1>7
  <2>2. g * S \in Nat
    BY Base
  <2> QED
    BY <2>1, <2>2, <1>0, <1>5
<1>9. CASE g < N
  <2>1. s = g
    <3>1. g % N = g
      BY <1>0, <1>9
    <3> QED
      BY <3>1, <1>7
  <2>2. a < Area
    <3>1. (g + 1) * S <= N * S /\ (g + 1) * S = g * S + S /\ N * S \in Nat
      BY <1>0, <1>9, Grows, Base
    <3> QED
      BY <3>1, <1>0, <1>8 DEF Area
  <2>3. IndexToAddr(i) = a
    BY <2>2, <1>6 DEF IndexToAddr
  <2> QED
    BY <2>1, <2>3, <1>2, <1>3, <1>8
<1>10. CASE g >= N
  <2>1. s = g - N /\ f # 0
    <3>1. g < 2 * N /\ D <= N - 1
      BY <1>0, <1>7
    <3>2. g - N \in 0..(N - 1) /\ g = N + (g - N)
      BY <3>1, <1>0, <1>10
    <3>3. g % N = g - N
      BY <3>2, <1>0
    <3> QED
      BY <3>1, <3>3, <1>0, <1>7, <1>10
  <2>2. ~(startAddr < endAddr)
    BY <2>1, Extent
  <2>3. N * S <= g * S /\ N * S \in Nat
    BY <1>0, <1>10, Grows, Base
  <2>4. IndexToAddr(i) = a - Area
    <3>1. ~(a < Area)
      BY <2>3, <1>0, <1>8 DEF Area
    <3> QED
      BY <3>1, <2>2, <1>6 DEF IndexToAddr
  <2>5. g * S = s * S + N * S /\ s * S \in Nat
    <3>1. g = s + N
      BY <2>1, <1>0
    <3>2. s * S \in Nat
      BY <1>0, Base
    <3> QED
      BY <3>1, <3>2, <1>0
  <2> QED
    BY <2>3, <2>4, <2>5, <1>0, <1>2, <1>3, <1>8 DEF Area
<1> QED
  BY <1>0, <1>9, <1>10

LEMMA WordAt ==
    ASSUME NEW u, NEW c, NEW w, NEW f, NEW D, Layout(u, c, w, f, D),
           NEW q \in Nat, NEW r \in 0..(W - 1), q * W + r + 1 <= D * W + c
    PROVE /\ Contents[q * W + r + 1] = data[(f + q) % N][r + 1]
          /\ q <= D
<1>0. W \in Nat /\ W >= 1 /\ c \in Nat /\ c < W /\ r \in Nat /\ D \in Nat
  BY Sizes DEF Layout
<1>1. PICK i \in Nat : i = q * W + r
  BY Quotient
<1>2. i \div W = q /\ i % W = r
  BY <1>1, Quotient
<1>3. PICK k \in Nat : k = D * W
  BY <1>0, Base
<1>4. First = f /\ Size = k + c
  BY <1>3, Extent
<1>5. i + 1 \in 1..Size /\ i + 1 - 1 = i
  BY <1>0, <1>1, <1>3, <1>4
<1>6. Contents[i + 1] = data[(f + q) % N][r + 1]
  BY <1>2, <1>4, <1>5 DEF Contents
<1>7. q <= D
  <2>1. SUFFICES ASSUME q >= D + 1 PROVE FALSE
    BY <1>0
  <2>2. D + 1 \in Int /\ q \in Int
    BY <1>0
  <2>3. (D + 1) * W <= q * W /\ q * W \in Int
    BY <2>1, <2>2, Grows
  <2>4. (D + 1) * W = k + W
    BY <1>0, <1>3, Base
  <2> QED
    BY <2>3, <2>4, <1>0, <1>1, <1>3
<1> QED
  BY <1>1, <1>6, <1>7

WordsAt(a, n, s, p) == \A j \in 1..n : Cells(a, n)[j] = data[s][p + j - 1]

LEMMA CellsWords ==
    ASSUME TypeOK, NEW s \in Sectors, NEW p \in 1..W, NEW n \in Nat, p + n <= W + 1,
           NEW a \in Nat, a = s * S + p
    PROVE WordsAt(a, n, s, p)
<1> USE DEF WordsAt
<1> TAKE j \in 1..n
<1>1. PICK x \in Nat : x = s * S
  BY Base, Sizes
<1>2. p + j - 1 \in 1..W /\ a + j - 1 = x + (p + j - 1)
  BY <1>1, Sizes
<1>3. Cells(a, n)[j] = Cell(x + (p + j - 1))
  BY <1>2, CellsTypes
<1>4. Cell(s * S + (p + j - 1)) = data[s][p + j - 1]
  BY <1>2, CellAt
<1> QED
  BY <1>1, <1>3, <1>4

LEMMA ContentsTypes ==
    ASSUME TypeOK, Size \in Nat, First \in Int
    PROVE Contents \in Seq(Int) /\ Len(Contents) = Size
<1>1. data \in [Sectors -> [1..W -> Int]] /\ W \in Nat \ {0} /\ N \in Nat \ {0}
  BY Sizes DEF TypeOK, Payload
<1>2. PICK n \in Nat : n = Size
  OBVIOUS
<1>3. ASSUME NEW i \in 1..n
      PROVE data[(First + ((i - 1) \div W)) % N][((i - 1) % W) + 1] \in Int
  <2>1. (i - 1) \div W \in Int /\ ((i - 1) % W) + 1 \in 1..W
    BY <1>1
  <2>2. (First + ((i - 1) \div W)) % N \in Sectors
    BY <2>1, <1>1 DEF Sectors
  <2> QED
    BY <2>1, <2>2, <1>1
<1>4. PICK g : g = Contents
  OBVIOUS
<1>5. g \in [1..n -> Int]
  BY <1>2, <1>3, <1>4 DEF Contents
<1> QED
  BY <1>2, <1>4, <1>5

(* What ef_log_read reads, within a sector and over two of them.            *)
LEMMA ReadShape ==
    ASSUME TypeOK, NEW u, NEW c, NEW w, NEW f, NEW D, Layout(u, c, w, f, D),
           NEW q \in 0..D, NEW r \in 0..(W - 1), NEW s \in Sectors, s = (f + q) % N,
           NEW i, i = q * W + r, NEW n \in Nat
    PROVE /\ r + n <= W => Read(i, n) = Cells(s * S + (r + 1), n)
          /\ \A t \in Sectors, m \in 1..W :
                q + 1 <= D /\ t = (f + (q + 1)) % N /\ n = (W - r) + m
                => Across(Read(i, n), s, r + 1, W - r, t, m)
<1>0. /\ W \in Nat /\ W >= 1 /\ N \in Nat /\ N >= 2 /\ u \in Nat /\ u < N /\ D \in Nat
      /\ f \in Nat /\ f < N /\ q \in Nat /\ q <= D /\ r \in Nat /\ r < W /\ S = W + 1
      /\ s \in Nat /\ s < N /\ D \in Nat /\ u \in Sectors /\ w \in BOOLEAN
      /\ f = (IF w THEN NextOf(u) ELSE 0) /\ D = (IF w THEN N - 1 ELSE u)
  BY Sizes DEF Layout
<1>1. PICK x \in Nat : x = s * S
  BY <1>0, Base
<1>2. PICK a \in Nat : a = x + (r + 1)
  BY <1>0
<1>3. IndexToAddr(i) = a
  BY <1>1, <1>2, IndexAt
<1>4. PICK y \in Nat : y = N * S
  BY <1>0, Base
<1>5. x + S <= y
  BY <1>0, <1>1, <1>4, Base, Grows
<1>6. r + 1 \in 1..W
  BY <1>0
<1>7. ASSUME r + n <= W PROVE Read(i, n) = Cells(a, n)
  <2>1. a + n <= Area
    BY <1>0, <1>2, <1>4, <1>5, <1>7 DEF Area
  <2>2. Read(i, n) = SeqRead(a, n)
    BY <1>3, <2>1 DEF Read
  <2>3. SeqRead(a, n) = Cells(a, n)
    <3>1. a = s * S + (r + 1) /\ (r + 1) + n <= W + 1
      BY <1>0, <1>1, <1>2, <1>7
    <3> QED
      BY <3>1, <1>6, ReadsSector
  <2> QED
    BY <2>2, <2>3
<1>8. ASSUME NEW t \in Sectors, NEW m \in 1..W,
             q + 1 <= D, t = (f + (q + 1)) % N, n = (W - r) + m
      PROVE Across(Read(i, n), s, r + 1, W - r, t, m)
  <2>0. t \in Nat /\ t < N /\ m \in Nat /\ m >= 1 /\ m <= W
    BY <1>0, Sizes
  <2>1. CASE s # N - 1
    <3>1. t = s + 1 /\ s + 1 < N
      <4>1. PICK g \in Nat : g = f + q
        BY <1>0
      <4>2. s = g % N /\ t = (g + 1) % N /\ s + 1 < N
        BY <4>1, <1>0, <1>8, <2>1
      <4>3. CASE g + 1 < N
        <5>1. g % N = g /\ (g + 1) % N = g + 1
          BY <4>3, <1>0
        <5> QED
          BY <4>2, <5>1
      <4>4. CASE g >= N
        <5>1. PICK e \in Nat : g = N + e
          BY <4>4, <1>0
        <5>2. e < N - 1
          BY <5>1, <4>1, <1>0, <1>8
        <5>3. (N + e) % N = e /\ (N + (e + 1)) % N = e + 1
          BY <5>2, <1>0
        <5>4. g + 1 = N + (e + 1)
          BY <5>1, <1>0
        <5> QED
          BY <4>2, <5>1, <5>3, <5>4
      <4>5. g # N - 1
        <5>1. (N - 1) % N = N - 1
          BY <1>0
        <5> QED
          BY <5>1, <4>2, <1>0
      <4> QED
        BY <4>1, <4>2, <4>3, <4>4, <4>5, <1>0
    <3>2. a + n <= Area
      <4>1. PICK v \in Nat : v = s + 1
        BY <1>0
      <4>2. v + 1 \in Int /\ N \in Int /\ v + 1 <= N
        BY <3>1, <4>1, <1>0
      <4>3. (v + 1) * S <= N * S
        BY <4>2, Grows
      <4>4. (v + 1) * S = v * S + S /\ v * S = x + S
        BY <4>1, <1>0, <1>1, Base
      <4> QED
        BY <4>3, <4>4, <2>0, <1>0, <1>1, <1>2, <1>4, <1>8 DEF Area
    <3>3. Read(i, n) = SeqRead(a, n)
      BY <1>3, <3>2 DEF Read
    <3>4. PICK k \in Nat : k = W - r
      BY <1>0
    <3>5. k = W + 1 - (r + 1) /\ a = s * S + (r + 1)
      BY <3>4, <1>0, <1>1, <1>2
    <3>6. Across(SeqRead(a, k + m), s, r + 1, k, t, m)
      BY <3>1, <3>5, <1>6, ReadsNext
    <3>7. k + m = n
      BY <3>4, <1>8
    <3> QED
      BY <3>3, <3>4, <3>6, <3>7
  <2>2. CASE s = N - 1
    <3>1. t = 0 /\ f # 0
      BY <2>2, <2>0, <1>0, <1>8
    <3>2. ~(startAddr < endAddr)
      BY <3>1, Extent
    <3>3. Area = x + S
      <4>1. (N - 1 + 1) * S = (N - 1) * S + S /\ N - 1 + 1 = N /\ N - 1 \in Nat
        BY <1>0, Base
      <4> QED
        BY <4>1, <2>2, <1>1 DEF Area
    <3>4. ~(a + n <= Area)
      BY <3>3, <2>0, <1>0, <1>2, <1>8
    <3>5. PICK k \in 1..W : k = W - r
      BY <1>0
    <3>6. Area - a = k
      BY <3>3, <3>5, <1>0, <1>2
    <3>7. k \div S = 0
      BY <3>5, <1>0
    <3>8. (Area - a) - ((Area - a) \div S) * H = k
      BY <3>6, <3>7, <3>5 DEF H
    <3>9. Read(i, n) = SeqRead(a, k) \o SeqRead(0, n - k)
      BY <1>3, <3>2, <3>4, <3>8 DEF Read
    <3>10. n - k = m
      BY <3>5, <1>0, <1>8, <2>0
    <3>11. SeqRead(a, k) = Cells(a, k)
      <4>1. k \in Nat /\ (r + 1) + k <= W + 1
        BY <3>5, <1>0
      <4> QED
        BY <4>1, <1>1, <1>2, <1>6, ReadsSector
    <3>12. SeqRead(0, m) = Cells(1, m)
      BY <2>0, <1>0, ReadsFromHeader
    <3>13. t * S + 1 = 1
      BY <3>1, <1>0
    <3> QED
      BY <3>5, <3>9, <3>10, <3>11, <3>12, <3>13, <1>1, <1>2 DEF Across
  <2> QED
    BY <2>1, <2>2
<1> QED
  BY <1>1, <1>2, <1>7, <1>8

LEMMA ReadIsContents ==
    ASSUME TypeOK,
           NEW u \in Sectors, NEW c \in 0..(W - 1), NEW w \in BOOLEAN,
           StartsAt(u, w), endAddr = u * S + H + c,
           NEW i \in Nat, NEW n \in Nat, n >= 1, i + n <= UsedSize,
           (i + n - 1) \div W <= i \div W + 1
    PROVE Read(i, n) = SubSeq(Contents, i + 1, i + n)
<1>0. W \in Nat /\ W >= 1 /\ N \in Nat /\ N >= 2 /\ u \in Nat /\ u < N /\ c \in Nat /\ c < W
  BY Sizes
<1>1. PICK f \in Sectors : f = IF w THEN NextOf(u) ELSE 0
  BY Sizes DEF NextOf
<1>2. PICK D \in Nat : D = IF w THEN N - 1 ELSE u
  BY <1>0
<1>3. PICK k \in Nat : k = D * W
  BY Base
<1>4. Layout(u, c, w, f, D)
  BY <1>1, <1>2 DEF Layout
<1>5. First = f /\ Size = k + c /\ UsedSize = k + c
  BY <1>3, <1>4, Extent
<1>6. PICK q \in Nat : q = i \div W
  BY <1>0
<1>7. PICK r \in 0..(W - 1) : r = i % W
  BY <1>0
<1>8. PICK qW \in Nat : qW = q * W
  BY Base
<1>9. i = qW + r /\ r \in Nat /\ r < W
  BY <1>0, <1>6, <1>7, <1>8
<1>10. r + n <= 2 * W
  <2>1. PICK z \in Nat : z = (i + n - 1) \div W
    BY <1>0
  <2>2. i + n - 1 < z * W + W /\ z * W \in Int
    BY <1>0, <2>1
  <2>3. z * W <= (q + 1) * W
    <3>1. z \in Int /\ q + 1 \in Int /\ z <= q + 1
      BY <2>1, <1>6
    <3> QED
      BY <3>1, Grows
  <2>4. (q + 1) * W = qW + W
    BY <1>8, Base
  <2> QED
    BY <2>2, <2>3, <2>4, <1>0, <1>9
<1>11. ASSUME NEW p \in Nat, NEW v \in 0..(W - 1), p * W + v + 1 <= k + c
       PROVE Contents[p * W + v + 1] = data[(f + p) % N][v + 1] /\ p <= D
  BY <1>3, <1>11, <1>4, WordAt
<1>12. q <= D
  <2>1. q * W + r + 1 <= k + c
    BY <1>0, <1>5, <1>8, <1>9
  <2> QED
    BY <2>1, <1>11
<1>13. PICK s \in Sectors : s = (f + q) % N
  BY <1>1, <1>2, <1>12, Place
<1>14. PICK a \in Nat : a = s * S + (r + 1)
  <2>1. s * S \in Nat
    BY Base, Sizes
  <2> QED
    BY <2>1, <1>9
<1>15. Contents \in Seq(Int) /\ Len(Contents) = k + c
  <2>1. Size \in Nat /\ First \in Int
    BY <1>0, <1>5, Sizes
  <2> QED
    BY <2>1, <1>5, ContentsTypes
<1>16. PICK y : y = SubSeq(Contents, i + 1, i + n)
  OBVIOUS
<1>17. y \in Seq(Int) /\ Len(y) = n /\ \A j \in 1..n : y[j] = Contents[i + j]
  <2>1. i + n <= Len(Contents)
    BY <1>5, <1>15
  <2>2. y \in Seq(Int) /\ Len(y) = n
    BY <2>1, <1>15, <1>16
  <2>3. ASSUME NEW j \in 1..n PROVE y[j] = Contents[i + j]
    <3>1. y[j] = Contents[i + 1 + j - 1] /\ i + 1 + j - 1 = i + j
      BY <2>1, <1>15, <1>16
    <3> QED
      BY <3>1
  <2> QED
    BY <2>2, <2>3
<1>18. ASSUME NEW j \in 1..n, r + j <= W PROVE Contents[i + j] = data[s][r + j]
  <2>1. r + j - 1 \in 0..(W - 1) /\ i + j = q * W + (r + j - 1) + 1 /\ (r + j - 1) + 1 = r + j
    BY <1>0, <1>8, <1>9, <1>18
  <2>2. q * W + (r + j - 1) + 1 <= k + c
    BY <2>1, <1>5, <1>9
  <2> QED
    BY <2>1, <2>2, <1>11, <1>13
<1>19. CASE r + n <= W
  <2>1. PICK g : g = Cells(a, n)
    OBVIOUS
  <2>2. Read(i, n) = g
    <3>1. i = q * W + r /\ q \in 0..D
      BY <1>8, <1>9, <1>12
    <3>2. r + n <= W => Read(i, n) = Cells(s * S + (r + 1), n)
      BY <3>1, <1>13, <1>4, ReadShape
    <3> QED
      BY <3>2, <1>14, <1>19, <2>1
  <2>3. r + 1 \in 1..W /\ (r + 1) + n <= W + 1
    BY <1>0, <1>9, <1>19
  <2>4. g \in Seq(Int) /\ Len(g) = n
    BY <2>1, CellsTypes
  <2>5. ASSUME NEW j \in 1..n PROVE g[j] = y[j]
    <3>1. g[j] = data[s][(r + 1) + j - 1]
      <4>1. WordsAt(a, n, s, r + 1)
        BY <2>3, <1>14, CellsWords
      <4> QED
        BY <4>1, <2>1 DEF WordsAt
    <3>2. (r + 1) + j - 1 = r + j /\ r + j <= W
      BY <1>0, <1>9, <1>19
    <3> QED
      BY <3>1, <3>2, <1>17, <1>18
  <2>6. g = y
    BY <2>4, <2>5, <1>17, SeqEqual
  <2> QED
    BY <2>2, <2>6, <1>16
<1>20. CASE r + n > W
  <2>1. PICK h \in 1..W : h = W - r
    BY <1>0, <1>9
  <2>2. PICK m \in 1..W : m = n - h
    BY <2>1, <1>0, <1>9, <1>10, <1>20
  <2>3. h \in Nat /\ m \in Nat /\ n = h + m /\ r + h = W
    BY <2>1, <2>2, <1>0, <1>9
  <2>4. (q + 1) * W = qW + W
    BY <1>8, Base
  <2>5. ASSUME NEW v \in 1..m
        PROVE Contents[i + h + v] = data[(f + (q + 1)) % N][v] /\ q + 1 <= D
    <3>1. PICK z \in 0..(W - 1) : z = v - 1
      BY <1>0, <2>2
    <3>2. i + h + v = (q + 1) * W + z + 1 /\ z + 1 = v
      BY <1>0, <1>9, <2>3, <2>4, <3>1
    <3>3. (q + 1) * W + z + 1 <= k + c
      BY <3>2, <1>5, <2>3
    <3>4. q + 1 \in Nat
      OBVIOUS
    <3>5. Contents[(q + 1) * W + z + 1] = data[(f + (q + 1)) % N][z + 1] /\ q + 1 <= D
      BY <3>3, <3>4, <1>11
    <3> QED
      BY <3>2, <3>5
  <2>6. q + 1 <= D
    <3>1. 1 \in 1..m
      BY <2>2
    <3> QED
      BY <3>1, <2>5
  <2>7. PICK t \in Sectors : t = (f + (q + 1)) % N
    <3>1. q + 1 \in 0..D
      BY <2>6
    <3> QED
      BY <3>1, <1>1, <1>2, Place
  <2>8. PICK g : g = Cells(a, h)
    OBVIOUS
  <2>9. PICK b \in Nat : b = t * S + 1
    <3>1. t * S \in Nat
      BY Base, Sizes
    <3> QED
      BY <3>1
  <2>10. PICK e : e = Cells(b, m)
    OBVIOUS
  <2>11. Read(i, n) = g \o e
    <3>1. i = q * W + r /\ q \in 0..D
      BY <1>8, <1>9, <1>12
    <3>2. n = (W - r) + m
      BY <2>1, <2>3
    <3>3. \A v \in Sectors, z \in 1..W :
              q + 1 <= D /\ v = (f + (q + 1)) % N /\ n = (W - r) + z
              => Across(Read(i, n), s, r + 1, W - r, v, z)
      BY <3>1, <1>13, <1>4, ReadShape
    <3>4. Across(Read(i, n), s, r + 1, W - r, t, m)
      BY <3>2, <3>3, <2>6, <2>7
    <3> QED
      BY <3>4, <2>1, <2>8, <2>10, <2>9, <1>14 DEF Across
  <2>12. r + 1 \in 1..W /\ (r + 1) + h <= W + 1
    BY <1>0, <1>9, <2>3
  <2>13. 1 \in 1..W /\ 1 + m <= W + 1
    BY <1>0, <2>2
  <2>14. g \in Seq(Int) /\ Len(g) = h /\ e \in Seq(Int) /\ Len(e) = m
    BY <2>3, <2>8, <2>10, CellsTypes
  <2>15. g \o e \in Seq(Int) /\ Len(g \o e) = n
    BY <2>3, <2>14, ConcatProperties
  <2>16. ASSUME NEW j \in 1..n PROVE (g \o e)[j] = y[j]
    <3>1. CASE j <= h
      <4>1. (g \o e)[j] = g[j] /\ j \in 1..h
        BY <3>1, <2>3, <2>14
      <4>2. g[j] = data[s][(r + 1) + j - 1]
        <5>1. WordsAt(a, h, s, r + 1)
          BY <2>3, <2>12, <1>14, CellsWords
        <5> QED
          BY <5>1, <4>1, <2>8 DEF WordsAt
      <4>3. (r + 1) + j - 1 = r + j /\ r + j <= W
        BY <3>1, <1>9, <2>3
      <4> QED
        BY <4>1, <4>2, <4>3, <1>17, <1>18
    <3>2. CASE j > h
      <4>1. PICK v \in 1..m : v = j - h
        BY <3>2, <2>3
      <4>2. (g \o e)[j] = e[v]
        <5>1. j \in 1..(Len(g) + Len(e)) /\ ~(j <= Len(g)) /\ j - Len(g) = v
          BY <3>2, <4>1, <2>3, <2>14
        <5> QED
          BY <5>1, <2>14, ConcatProperties
      <4>3. e[v] = data[t][1 + v - 1] /\ 1 + v - 1 = v
        <5>1. WordsAt(b, m, t, 1)
          BY <2>3, <2>13, <2>9, CellsWords
        <5> QED
          BY <5>1, <4>1, <2>3, <2>10 DEF WordsAt
      <4>4. i + h + v = i + j
        BY <4>1, <2>3
      <4> QED
        BY <4>2, <4>3, <4>4, <1>17, <2>5, <2>7
    <3>3. j <= h \/ j > h
      BY <2>3
    <3> QED
      BY <3>1, <3>2, <3>3
  <2>17. g \o e = y
    BY <2>15, <2>16, <1>17, SeqEqual
  <2> QED
    BY <2>11, <2>17, <1>16
<1> QED
  BY <1>0, <1>9, <1>19, <1>20

(* At rest ef_log_get_used_size is the length of the log, and ef_log_read   *)
(* answers the words at an index of it, within two sectors.                 *)
THEOREM ReadsItsWords == Spec => []ReadBack
<1>1. LInv => ReadBack
  <2> SUFFICES ASSUME LInv, Sound
               PROVE /\ UsedSize = Len(Contents)
                     /\ \A i \in 0..(UsedSize - 1), n \in 1..UsedSize :
                           i + n <= UsedSize /\ (i + n - 1) \div W <= i \div W + 1
                           => Read(i, n) = SubSeq(Contents, i + 1, i + n)
    BY DEF ReadBack
  <2>1. TypeOK /\ pc = "idle" /\ Going
    BY DEF LInv, Regular, Sound, Running
  <2>2. PICK u \in Sectors, c \in 0..W, w \in BOOLEAN : At(u, c, w)
    BY <2>1 DEF Going
  <2>3. c < W /\ endAddr = u * S + H + c /\ StartsAt(u, w)
    BY <2>1, <2>2 DEF At, Stage
  <2>4. c \in 0..(W - 1)
    BY <2>3, Sizes
  <2>5. PICK f \in Sectors : f = IF w THEN NextOf(u) ELSE 0
    BY Sizes DEF NextOf
  <2>6. PICK D \in Nat : D = IF w THEN N - 1 ELSE u
    BY Sizes
  <2>7. First = f /\ Size = D * W + c /\ UsedSize = D * W + c
    BY <2>3, <2>4, <2>5, <2>6, Extent DEF Layout
  <2>8. D * W + c \in Nat
    BY <2>4, Base
  <2>9. Len(Contents) = Size
    BY <2>1, <2>7, <2>8, Sizes, ContentsTypes
  <2>10. ASSUME NEW i \in 0..(UsedSize - 1), NEW n \in 1..UsedSize,
                i + n <= UsedSize, (i + n - 1) \div W <= i \div W + 1
         PROVE Read(i, n) = SubSeq(Contents, i + 1, i + n)
    <3>1. i \in Nat /\ n \in Nat /\ n >= 1
      BY <2>7, <2>8
    <3> QED
      BY <3>1, <2>1, <2>3, <2>4, <2>10, ReadIsContents
  <2> QED
    BY <2>7, <2>9, <2>10
<1> QED
  BY <1>1, LogInv, PTL

=============================================================================
