-------------------------- MODULE RingArithmetic ---------------------------
(***************************************************************************)
(* Facts about ring positions: a cursor q counts slots since the region    *)
(* was created and q % N is the slot it falls on.  Every ring of the       *)
(* repository maps cursors to slots this way.                              *)
(***************************************************************************)
EXTENDS Integers, TLAPS

\* A position splits into a lap and a slot (cursor % capacity is an index).
LEMMA LapAndSlot ==
  ASSUME NEW N \in Nat \ {0}, NEW a \in Nat
  PROVE  /\ a % N \in 0 .. N - 1
         /\ a \div N \in Nat
         /\ a = (N * (a \div N)) + (a % N)
BY SMT

\* Laps are N slots long.
LEMMA LapLength ==
  ASSUME NEW N \in Nat \ {0}, NEW x \in Int, NEW y \in Int, x < y
  PROVE  N * x + N <= N * y
<1>1. PICK d \in Nat : y = x + 1 + d
  <2>1. y - (x + 1) \in Nat
    OBVIOUS
  <2> QED BY <2>1
<1>2. N * y = N * x + N + N * d
  BY <1>1
<1>3. N * d \in Nat
  OBVIOUS
<1> QED BY <1>2, <1>3

\* The split is unique, so computing it any other way gives the slot.
LEMMA SlotOf ==
  ASSUME NEW N \in Nat \ {0}, NEW a \in Nat, NEW x \in Nat, NEW r \in 0 .. N - 1,
         a = N * x + r
  PROVE  a % N = r
<1> DEFINE y == a \div N
           s == a % N
<1>1. y \in Nat /\ s \in 0 .. N - 1 /\ a = N * y + s
  BY LapAndSlot
<1>2. N * x \in Nat /\ N * y \in Nat
  BY <1>1
<1> HIDE DEF y, s
<1>3. ~ (x < y)
  <2>1. SUFFICES ASSUME x < y PROVE FALSE
    OBVIOUS
  <2>2. N * x + N <= N * y
    BY <1>1, <2>1, LapLength
  <2> QED BY <1>1, <1>2, <2>2
<1>4. ~ (y < x)
  <2>1. SUFFICES ASSUME y < x PROVE FALSE
    OBVIOUS
  <2>2. N * y + N <= N * x
    BY <1>1, <2>1, LapLength
  <2> QED BY <1>1, <1>2, <2>2
<1>5. x = y
  BY <1>1, <1>3, <1>4
<1>6. s = r
  BY <1>1, <1>2, <1>5
<1> QED BY <1>6 DEF s

\* Within one lap no two positions share a slot: why a guard on cursors can
\* protect slots at all.
LEMMA WindowDistinct ==
  ASSUME NEW N \in Nat \ {0}, NEW a \in Nat, NEW b \in Nat, a < b, b < a + N
  PROVE  a % N # b % N
<1> DEFINE x == a \div N
           y == b \div N
           r == a % N
<1>1. SUFFICES ASSUME a % N = b % N PROVE FALSE
  OBVIOUS
<1>2. /\ x \in Nat /\ y \in Nat /\ r \in 0 .. N - 1
      /\ a = N * x + r /\ b = N * y + r
  BY <1>1, LapAndSlot
<1>3. N * x \in Nat /\ N * y \in Nat
  BY <1>2
<1> HIDE DEF x, y, r
<1>4. CASE x < y
  <2>1. N * x + N <= N * y
    BY <1>2, <1>4, LapLength
  <2> QED BY <1>2, <1>3, <2>1
<1>5. CASE y < x
  <2>1. N * y + N <= N * x
    BY <1>2, <1>5, LapLength
  <2> QED BY <1>2, <1>3, <2>1
<1>6. CASE x = y
  BY <1>2, <1>3, <1>6
<1> QED BY <1>2, <1>4, <1>5, <1>6

\* A full lap further on is the same slot.
LEMMA NextLap ==
  ASSUME NEW N \in Nat \ {0}, NEW a \in Nat
  PROVE  (a + N) % N = a % N
<1> DEFINE x == a \div N
           r == a % N
<1>1. x \in Nat /\ r \in 0 .. N - 1 /\ a = N * x + r
  BY LapAndSlot
<1> HIDE DEF x, r
<1>2. a + N = N * (x + 1) + r
  BY <1>1
<1>3. a + N \in Nat /\ x + 1 \in Nat
  BY <1>1
<1>4. (a + N) % N = r
  BY <1>1, <1>2, <1>3, SlotOf
<1> QED BY <1>4 DEF r

\* (index + 1) % capacity is the slot of the next position.
LEMMA NextSlot ==
  ASSUME NEW N \in Nat \ {0}, NEW a \in Nat
  PROVE  ((a % N) + 1) % N = (a + 1) % N
<1> DEFINE x == a \div N
           r == a % N
<1>1. x \in Nat /\ r \in 0 .. N - 1 /\ a = N * x + r
  BY LapAndSlot
<1> HIDE DEF x, r
<1>2. CASE r + 1 < N
  <2>1. a + 1 = N * x + (r + 1) /\ r + 1 = N * 0 + (r + 1)
    BY <1>1
  <2>2. r + 1 \in 0 .. N - 1 /\ a + 1 \in Nat /\ r + 1 \in Nat
    BY <1>1, <1>2
  <2>3. (a + 1) % N = r + 1
    BY <1>1, <2>1, <2>2, SlotOf
  <2>4. (r + 1) % N = r + 1
    BY <2>1, <2>2, SlotOf
  <2> QED BY <2>3, <2>4 DEF r
<1>3. CASE r + 1 = N
  <2>1. a + 1 = N * (x + 1) + 0 /\ r + 1 = N * 1 + 0
    BY <1>1, <1>3
  <2>2. 0 \in 0 .. N - 1 /\ a + 1 \in Nat /\ r + 1 \in Nat /\ x + 1 \in Nat
    BY <1>1
  <2>3. (a + 1) % N = 0
    BY <2>1, <2>2, SlotOf
  <2>4. (r + 1) % N = 0
    BY <2>1, <2>2, SlotOf
  <2> QED BY <2>3, <2>4 DEF r
<1> QED BY <1>1, <1>2, <1>3
============================================================================
