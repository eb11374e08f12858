--------------------------- MODULE FrameRingProofs ---------------------------
(***************************************************************************)
(* Proofs about FrameRing for every capacity, slot size, length of message *)
(* and width of the sequence numbers: the in-process ring holds what it    *)
(* accepted and has not handed out, chunk by chunk, and answers as its     *)
(* prototype does while every message fits a slot.                         *)
(***************************************************************************)
EXTENDS FrameRing, RingArithmetic, SequenceTheorems, WellFoundedInduction

LEMMA Sizes ==
  /\ Slots \in Nat \ {0} /\ SlotSize \in Nat \ {0} /\ Width \in Nat \ {0} /\ MetaLen \in Nat
  /\ ChunkSize \in Nat /\ ChunkSize <= SlotSize
BY RingAssumption DEF ChunkSize

-----------------------------------------------------------------------------
(* Chunks *)

\* As many chunks as it takes, and none too many.
LEMMA RoundedUp ==
  ASSUME NEW n \in Nat \ {0}, ChunkSize # 0
  PROVE  /\ Rounded(n) \in Nat \ {0}
         /\ n <= Rounded(n) * ChunkSize
         /\ (Rounded(n) - 1) * ChunkSize < n
<1> DEFINE c == ChunkSize
           q == Rounded(n)
           s == (n + c - 1) % c
<1>1. c \in Nat \ {0} /\ n + c - 1 \in Nat
  BY Sizes
<1>2. q \in Nat /\ s \in 0 .. c - 1 /\ n + c - 1 = (c * q) + s
  BY <1>1, LapAndSlot DEF Rounded
<1> HIDE DEF c, q, s
<1>3. c * q \in Nat /\ c * q = q * c /\ (q - 1) * c = (c * q) - c
  BY <1>1, <1>2
<1>4. n <= c * q /\ (c * q) - c < n
  BY <1>1, <1>2, <1>3
<1>5. q # 0
  <2> SUFFICES ASSUME q = 0 PROVE FALSE
    OBVIOUS
  <2>1. c * q = 0
    BY <1>1
  <2> QED BY <1>4, <2>1
<1> QED BY <1>2, <1>3, <1>4, <1>5 DEF c, q

LEMMA Products ==
  ASSUME NEW c \in Nat, NEW i \in Nat, NEW j \in Nat, i <= j
  PROVE  i * c <= j * c /\ i * c \in Nat /\ j * c \in Nat
<1>1. PICK d \in Nat : j = i + d
  <2>1. j - i \in Nat
    OBVIOUS
  <2> QED BY <2>1
<1>2. j * c = (i * c) + (d * c)
  BY <1>1
<1>3. i * c \in Nat /\ d * c \in Nat
  OBVIOUS
<1> QED BY <1>2, <1>3

\* The slots a message needs: one if it fits, several chunks if not.
LEMMA NeededSlots ==
  ASSUME NEW n \in Nat
  PROVE  /\ Needed(n) \in 0 .. Slots
         /\ Needed(n) = 1 <=> n <= SlotSize
         /\ Needed(n) > 1 => ChunkSize # 0 /\ n # 0 /\ Needed(n) = Rounded(n)
         /\ Needed(n) # 0 <=> n <= SlotSize \/ n <= Slots * ChunkSize
<1>1. CASE n <= SlotSize
  BY <1>1, Sizes DEF Needed
<1>2. CASE n > SlotSize /\ ChunkSize = 0
  <2>1. Slots * ChunkSize = 0
    BY <1>2, Sizes
  <2> QED BY <1>2, <2>1, Sizes DEF Needed
<1>3. CASE n > SlotSize /\ ChunkSize # 0
  <2> DEFINE c == ChunkSize
             q == Rounded(n)
  <2>1. c \in Nat \ {0} /\ q \in Nat \ {0} /\ n <= q * c /\ (q - 1) * c < n /\ n > c
    BY <1>3, RoundedUp, Sizes
  <2>2. Needed(n) = IF q > Slots \/ n > Slots * c THEN 0 ELSE q
    BY <1>3, Sizes DEF Needed
  <2> HIDE DEF c, q
  <2>3. q # 1
    <3> SUFFICES ASSUME q = 1 PROVE FALSE
      OBVIOUS
    <3>1. q * c = c
      BY <2>1
    <3> QED BY <2>1, <3>1, Sizes
  <2>4. n <= Slots * c => q <= Slots
    <3> SUFFICES ASSUME q > Slots PROVE n > Slots * c
      BY <2>1, Sizes
    <3>1. Slots * c <= (q - 1) * c
      BY <2>1, Sizes, Products
    <3>2. Slots * c \in Nat /\ (q - 1) * c \in Int
      BY <2>1, Sizes
    <3> QED BY <2>1, <3>1, <3>2
  <2>5. q > 1
    BY <2>1, <2>3
  <2> QED BY <1>3, <2>1, <2>2, <2>4, <2>5, Sizes DEF c, q
<1> QED BY <1>1, <1>2, <1>3, Sizes

\* The limit message_size_limits reports is the one send_plan applies.
LEMMA LimitIsThePlans ==
  ASSUME NEW n \in Nat
  PROVE  Needed(n) # 0 <=> n <= MaxMessageSize
<1> DEFINE a == Slots * ChunkSize
<1>1. a \in Nat /\ SlotSize \in Nat
  BY Sizes
<1> HIDE DEF a
<1>2. Max({a, SlotSize}) = IF a >= SlotSize THEN a ELSE SlotSize
  BY <1>1 DEF Max
<1>3. MaxMessageSize = Max({a, SlotSize})
  BY DEF MaxMessageSize, a
<1>4. n <= MaxMessageSize <=> n <= SlotSize \/ n <= a
  BY <1>1, <1>2, <1>3
<1> QED BY <1>4, NeededSlots DEF a

FrameSet == [m : Nat, index : Nat, total : Nat, from : Nat, to : Nat, bad : {"no", "payload", "header"}]

LEMMA Lesser ==
  ASSUME NEW a \in Nat, NEW b \in Nat
  PROVE  Min({a, b}) = IF a <= b THEN a ELSE b
BY DEF Min

\* The frames of a message cover it from its first byte to its last.
LEMMA FrameFields ==
  ASSUME NEW m \in Nat, NEW n \in Nat, Needed(n) # 0, NEW i \in 0 .. Needed(n) - 1
  PROVE  LET f == Frames(m, n)[i + 1]
         IN /\ f \in FrameSet
            /\ f.m = m /\ f.index = i /\ f.total = Needed(n) /\ f.bad = "no"
            /\ i = 0 => f.from = 0
            /\ IF i + 1 = Needed(n) THEN f.to = n ELSE f.to = Frames(m, n)[i + 2].from
<1> DEFINE c == ChunkSize
           q == Needed(n)
           From(k) == IF q = 1 THEN 0 ELSE (k - 1) * c
           To(k) == IF q = 1 THEN n ELSE Min({k * c, n})
<1>1. c \in Nat /\ q \in 1 .. Slots /\ Slots \in Nat
  BY NeededSlots, Sizes
<1>2. \A k \in 1 .. q : Frames(m, n)[k] = Frame(m, k - 1, q, From(k), To(k))
  <2>1. CASE q = 1
    BY <2>1 DEF Frames
  <2>2. CASE q # 1
    BY <2>2 DEF Frames
  <2> QED BY <2>1, <2>2
<1>3. \A k \in 1 .. q : From(k) \in Nat /\ To(k) \in Nat
  <2> SUFFICES ASSUME NEW k \in 1 .. q PROVE From(k) \in Nat /\ To(k) \in Nat
    OBVIOUS
  <2>1. (k - 1) * c \in Nat /\ k * c \in Nat
    BY <1>1
  <2> QED BY <2>1, Lesser
<1>4. To(q) = n
  <2>1. CASE q = 1
    BY <2>1
  <2>2. CASE q # 1
    <3>1. n <= q * c /\ q * c \in Nat
      BY <1>1, <2>2, NeededSlots, RoundedUp
    <3>2. Min({q * c, n}) = n
      BY <3>1, Lesser
    <3> QED BY <2>2, <3>2
  <2> QED BY <2>1, <2>2
<1>5. \A k \in 1 .. q - 1 : To(k) = From(k + 1)
  <2> SUFFICES ASSUME NEW k \in 1 .. q - 1 PROVE To(k) = From(k + 1)
    OBVIOUS
  <2>1. (q - 1) * c < n /\ (q - 1) * c \in Nat
    BY <1>1, NeededSlots, RoundedUp
  <2>2. k * c <= (q - 1) * c /\ k * c \in Nat
    BY <1>1, Products
  <2>3. Min({k * c, n}) = k * c
    BY <2>1, <2>2, Lesser
  <2> QED BY <1>1, <2>3
<1>6. From(1) = 0
  BY <1>1
<1> HIDE DEF From, To, c, q
<1>7. i + 1 \in 1 .. q /\ i + 1 - 1 = i /\ i \in Nat /\ q \in Nat
  BY <1>1 DEF q
<1>8. Frames(m, n)[i + 1] = Frame(m, i, q, From(i + 1), To(i + 1))
  BY <1>2, <1>7
<1>9. i + 1 = q \/ Frames(m, n)[i + 2].from = From(i + 2)
  <2> SUFFICES ASSUME i + 1 # q PROVE Frames(m, n)[i + 2].from = From(i + 2)
    OBVIOUS
  <2>1. i + 2 \in 1 .. q
    BY <1>7
  <2>2. Frames(m, n)[i + 2] = Frame(m, i + 1, q, From(i + 2), To(i + 2))
    <3>1. i + 2 - 1 = i + 1
      BY <1>7
    <3> QED BY <1>2, <2>1, <3>1
  <2> QED BY <2>2 DEF Frame
<1>10. IF i + 1 = q THEN To(i + 1) = n ELSE To(i + 1) = From(i + 2)
  <2>1. i + 1 # q => i + 1 \in 1 .. q - 1 /\ i + 1 + 1 = i + 2
    BY <1>7
  <2> QED BY <1>4, <1>5, <2>1
<1>11. Frames(m, n)[i + 1] \in FrameSet
  BY <1>3, <1>7, <1>8 DEF Frame, FrameSet
<1> QED BY <1>6, <1>8, <1>9, <1>10, <1>11 DEF Frame, q

LEMMA FrameCount ==
  ASSUME NEW m, NEW n \in Nat, Needed(n) # 0
  PROVE  Len(Frames(m, n)) = Needed(n) /\ Needed(n) \in 1 .. Slots
<1>1. Needed(n) \in 1 .. Slots
  BY NeededSlots, Sizes
<1> QED BY <1>1, Sizes DEF Frames

-----------------------------------------------------------------------------
(* Loops *)

LEMMA Climb ==
  ASSUME NEW n \in Nat, NEW J, 0 \in J, \A i \in 0 .. n - 1 : i \in J => i + 1 \in J
  PROVE  \A i \in 0 .. n : i \in J
<1> DEFINE R == OpToRel(<, Nat)
           T == (0 .. n) \ J
<1>1. IsWellFoundedOn(R, Nat)
  BY NatLessThanWellFounded
<1>2. \A x, y \in Nat : <<x, y>> \in R <=> x < y
  BY DEF OpToRel
<1> HIDE DEF R
<1>3. SUFFICES ASSUME T # {} PROVE FALSE
  OBVIOUS
<1>4. T \subseteq Nat
  OBVIOUS
<1>5. PICK x \in T : \A y \in T : ~ (<<y, x>> \in R)
  BY <1>1, <1>3, <1>4, WFMin
<1>6. x \in 1 .. n /\ x \notin J
  BY <1>5
<1>7. x - 1 \in 0 .. n - 1 /\ x - 1 + 1 = x
  BY <1>6
<1>8. x - 1 \notin J
  BY <1>6, <1>7
<1>9. x - 1 \in T /\ x - 1 \in Nat /\ x - 1 < x /\ x \in Nat
  BY <1>6, <1>7, <1>8
<1> QED BY <1>2, <1>5, <1>9

\* What a call returns that did what it was asked.
Ok == ""

\* f runs G from init, n times.
Runs(f, n, init, G) == f = [i \in 0 .. n |-> IF i = 0 THEN init ELSE G[i][f[i - 1]]]

\* What every step of a loop keeps, it has kept at the end.
LEMMA LoopKeeps ==
  ASSUME NEW n \in Nat, NEW I, NEW f, f[0] \in I[0],
         \A i \in 1 .. n : f[i - 1] \in I[i - 1] => f[i] \in I[i]
  PROVE  \A i \in 0 .. n : f[i] \in I[i]
<1> DEFINE J == {i \in 0 .. n : f[i] \in I[i]}
<1>1. 0 \in J
  BY 0 \in 0 .. n
<1>2. ASSUME NEW i \in 0 .. n - 1, i \in J PROVE i + 1 \in J
  <2>1. i + 1 \in 1 .. n /\ i + 1 - 1 = i /\ i + 1 \in 0 .. n
    OBVIOUS
  <2> QED BY <1>2, <2>1
<1> HIDE DEF J
<1>3. \A i \in 0 .. n : i \in J
  BY <1>1, <1>2, Climb
<1> QED BY <1>3 DEF J

\* There is such a run.
LEMMA LoopRuns ==
  ASSUME NEW n \in Nat, NEW init, NEW G
  PROVE  \E f : Runs(f, n, init, G)
<1> DEFINE J == {j \in 0 .. n : \E f : Runs(f, j, init, G)}
<1>1. 0 \in J
  <2>1. Runs([i \in 0 .. 0 |-> init], 0, init, G)
    BY DEF Runs
  <2> QED BY <2>1
<1>2. ASSUME NEW j \in 0 .. n - 1, j \in J PROVE j + 1 \in J
  <2>1. PICK f : Runs(f, j, init, G)
    BY <1>2
  <2> DEFINE g == [i \in 0 .. j + 1 |-> IF i = j + 1 THEN G[j + 1][f[j]] ELSE f[i]]
  <2>2. \A i \in 0 .. j : f[i] = IF i = 0 THEN init ELSE G[i][f[i - 1]]
    BY <2>1 DEF Runs
  <2>3. \A i \in 0 .. j : g[i] = f[i]
    OBVIOUS
  <2>4. g[j + 1] = G[j + 1][f[j]]
    OBVIOUS
  <2> HIDE DEF g
  <2>5. ASSUME NEW i \in 0 .. j + 1
        PROVE  g[i] = IF i = 0 THEN init ELSE G[i][g[i - 1]]
    <3>1. CASE i = j + 1
      <4>1. i - 1 = j /\ j \in 0 .. j /\ i # 0
        BY <3>1
      <4> QED BY <2>3, <2>4, <3>1, <4>1
    <3>2. CASE i # j + 1
      <4>1. i \in 0 .. j
        BY <3>2
      <4>2. i # 0 => i - 1 \in 0 .. j
        BY <4>1
      <4> QED BY <2>2, <2>3, <4>1, <4>2
    <3> QED BY <3>1, <3>2
  <2>6. g = [i \in 0 .. j + 1 |-> IF i = 0 THEN init ELSE G[i][g[i - 1]]]
    <3>1. g = [i \in 0 .. j + 1 |-> g[i]]
      BY DEF g
    <3> QED BY <2>5, <3>1
  <2>7. j + 1 \in 0 .. n
    OBVIOUS
  <2> QED BY <2>6, <2>7 DEF Runs
<1> HIDE DEF J
<1>3. n \in J
  BY <1>1, <1>2, Climb
<1> QED BY <1>3 DEF J

Stays(f, n, init, G, I) ==
  /\ f = [i \in 0 .. n |-> f[i]]
  /\ f[0] = init
  /\ \A i \in 1 .. n : f[i] = G[i][f[i - 1]] /\ f[i - 1] \in I[i - 1]

\* It stays in I, where G is what the loop does.
LEMMA LoopStays ==
  ASSUME NEW n \in Nat, NEW init, NEW G, NEW I, init \in I[0],
         \A i \in 1 .. n : \A y \in I[i - 1] : G[i][y] \in I[i]
  PROVE  \E f : Stays(f, n, init, G, I)
<1>1. PICK f : Runs(f, n, init, G)
  BY LoopRuns
<1>2. \A i \in 0 .. n : f[i] = IF i = 0 THEN init ELSE G[i][f[i - 1]]
  BY <1>1 DEF Runs
<1>3. f[0] = init
  BY <1>2, 0 \in 0 .. n
<1>4. \A i \in 1 .. n : f[i] = G[i][f[i - 1]]
  <2> SUFFICES ASSUME NEW i \in 1 .. n PROVE f[i] = G[i][f[i - 1]]
    OBVIOUS
  <2>1. i \in 0 .. n /\ i # 0
    OBVIOUS
  <2> QED BY <1>2, <2>1
<1>5. \A i \in 0 .. n : f[i] \in I[i]
  BY <1>3, <1>4, LoopKeeps
<1>6. f = [i \in 0 .. n |-> f[i]]
  BY <1>1 DEF Runs
<1>7. \A i \in 1 .. n : f[i - 1] \in I[i - 1]
  <2> SUFFICES ASSUME NEW i \in 1 .. n PROVE f[i - 1] \in I[i - 1]
    OBVIOUS
  <2>1. i - 1 \in 0 .. n
    OBVIOUS
  <2> QED BY <1>5, <2>1
<1> QED BY <1>3, <1>4, <1>6, <1>7 DEF Stays

-----------------------------------------------------------------------------
(* The window: a place is <<message, chunk>> *)

SlotSet == [state : {"FREE", "COMMITTED", "PINNED"}, seq : Nat, frame : FrameSet]
RingSet == [slot : [Index -> SlotSet], head : Index, tail : Index, len : 0 .. Slots,
            next : Nat, expected : Nat, closed : BOOLEAN]

SlotAt(r, k) == r.slot[(r.tail + k) % Slots]

After(acc, p) ==
  IF p[2] + 1 = Needed(acc[p[1]]) THEN <<p[1] + 1, 0>> ELSE <<p[1], p[2] + 1>>

\* The frame of a place, perhaps spoiled.
IsFrame(f, acc, sp, p) ==
  /\ f \in FrameSet
  /\ f.m = p[1] /\ f.index = p[2] /\ f.total = Needed(acc[p[1]])
  /\ f.from = Frames(p[1], acc[p[1]])[p[2] + 1].from
  /\ f.to = Frames(p[1], acc[p[1]])[p[2] + 1].to
  /\ \A w \in {"payload", "header"} : f.bad = w <=> <<p[1], w>> \in sp

Stored(x, acc, sp, p) ==
  /\ p \in Nat \X Nat /\ p[1] \in 1 .. Len(acc) /\ p[2] \in 0 .. Needed(acc[p[1]]) - 1
  /\ x.state = "COMMITTED" /\ x.seq = (p[1] - 1) % Width
  /\ IsFrame(x.frame, acc, sp, p)

\* pl names the places of the slots from the tail, and the one the head is at.
Places(r, acc, sp, s, e, pl) ==
  /\ pl[0] = s /\ pl[r.len] = e
  /\ \A k \in 0 .. r.len - 1 :
       Stored(SlotAt(r, k), acc, sp, pl[k]) /\ pl[k + 1] = After(acc, pl[k])

\* The ring holds the chunks from place s up to place e, and nothing else.
Linked(r, acc, sp, s, e) ==
  /\ r \in RingSet
  /\ r.head = (r.tail + r.len) % Slots
  /\ \A k \in r.len .. Slots - 1 : SlotAt(r, k) = Free
  /\ \E pl : Places(r, acc, sp, s, e, pl)

\* What a call leaves as it was, but for the slots and the two ends.
SameNumbers(x, r) == x.next = r.next /\ x.expected = r.expected /\ x.closed = r.closed

LEMMA Wraps ==
  ASSUME NEW t \in Index, NEW k \in Nat
  PROVE  /\ Next1(t) \in Index
         /\ (Next1(t) + k) % Slots = (t + (k + 1)) % Slots
         /\ (t + k) % Slots \in Index
         /\ (t + 0) % Slots = t
<1>1. Slots \in Nat \ {0} /\ t \in Nat /\ t < Slots /\ t + 1 \in Nat /\ t + k \in Nat
  BY Sizes DEF Index
<1>2. t = Slots * 0 + t /\ t \in 0 .. Slots - 1
  BY <1>1
<1>3. t % Slots = t
  BY <1>1, <1>2, SlotOf
<1>4. CASE t + 1 = Slots
  <2>1. Slots = Slots * 1 + 0 /\ 0 \in 0 .. Slots - 1
    BY <1>1
  <2>2. Slots % Slots = 0
    BY <1>1, <2>1, SlotOf
  <2>3. Next1(t) = 0
    BY <1>4, <2>2 DEF Next1
  <2>4. t + (k + 1) = k + Slots /\ 0 + k = k
    BY <1>1, <1>4
  <2>5. (k + Slots) % Slots = k % Slots
    BY <1>1, NextLap
  <2>6. (Next1(t) + k) % Slots = (t + (k + 1)) % Slots
    BY <2>3, <2>4, <2>5
  <2>7. (t + k) % Slots \in 0 .. Slots - 1
    BY <1>1, LapAndSlot
  <2>8. t + 0 = t /\ 0 \in 0 .. Slots - 1
    BY <1>1
  <2> QED BY <1>3, <2>3, <2>6, <2>7, <2>8 DEF Index
<1>5. CASE t + 1 # Slots
  <2>1. t + 1 = Slots * 0 + (t + 1) /\ t + 1 \in 0 .. Slots - 1
    BY <1>1, <1>5
  <2>2. Next1(t) = t + 1
    BY <1>1, <2>1, SlotOf DEF Next1
  <2>3. t + 1 + k = t + (k + 1)
    BY <1>1
  <2> QED BY <1>1, <1>3, <2>1, <2>2, <2>3, LapAndSlot DEF Index
<1> QED BY <1>4, <1>5

\* The slots at different distances from the tail are different.
LEMMA Apart ==
  ASSUME NEW t \in Index, NEW j \in Nat, NEW k \in Nat, j < Slots, k < Slots, j # k
  PROVE  (t + j) % Slots # (t + k) % Slots
<1>1. Slots \in Nat \ {0} /\ t + j \in Nat /\ t + k \in Nat
  BY Sizes DEF Index
<1>2. CASE j < k
  <2>1. t + j < t + k /\ t + k < (t + j) + Slots
    BY <1>1, <1>2 DEF Index
  <2> QED BY <1>1, <2>1, WindowDistinct
<1>3. CASE k < j
  <2>1. t + k < t + j /\ t + j < (t + k) + Slots
    BY <1>1, <1>3 DEF Index
  <2> QED BY <1>1, <2>1, WindowDistinct
<1> QED BY <1>2, <1>3

LEMMA FreeIsASlot == Free \in SlotSet
BY DEF Free, NoFrame, Frame, SlotSet, FrameSet

Literal(a, b, c, d, e, f, g) ==
  [slot |-> a, head |-> b, tail |-> c, len |-> d, next |-> e, expected |-> f, closed |-> g]

Shrunk(r, x, y) == [r EXCEPT !.tail = x, !.len = y]
Grown(r, i, z, x, y) == [r EXCEPT !.slot[i] = z, !.head = x, !.len = y]

LEMMA TailAndLength ==
  ASSUME NEW r, NEW a, NEW b, NEW c, NEW d, NEW e, NEW f, NEW g, NEW x, NEW y,
         r = Literal(a, b, c, d, e, f, g)
  PROVE  Shrunk(r, x, y) = Literal(a, b, x, y, e, f, g)
<1> DEFINE q == [r EXCEPT !.tail = x]
<1>1. q = Literal(a, b, x, d, e, f, g)
  BY DEF Literal
<1>2. Shrunk(r, x, y) = [q EXCEPT !.len = y]
  BY DEF Shrunk
<1> HIDE DEF q
<1> QED BY <1>1, <1>2 DEF Literal

LEMMA HeadAndLength ==
  ASSUME NEW r, NEW a, NEW b, NEW c, NEW d, NEW e, NEW f, NEW g, NEW i, NEW z, NEW x, NEW y,
         r = Literal(a, b, c, d, e, f, g)
  PROVE  Grown(r, i, z, x, y)
           = Literal([a EXCEPT ![i] = z], x, c, y, e, f, g)
<1> DEFINE p == [r EXCEPT !.slot[i] = z]
           q == [p EXCEPT !.head = x]
           A == [a EXCEPT ![i] = z]
<1>1. p = Literal(A, b, c, d, e, f, g)
  BY DEF Literal
<1>2. Grown(r, i, z, x, y) = [q EXCEPT !.len = y]
  BY DEF Grown
<1> HIDE DEF p, A
<1>3. q = Literal(A, x, c, d, e, f, g)
  BY <1>1 DEF Literal
<1> HIDE DEF q
<1>4. [q EXCEPT !.len = y] = Literal(A, x, c, y, e, f, g)
  BY <1>3 DEF Literal
<1> QED BY <1>2, <1>4 DEF A

LEMMA Fields ==
  ASSUME NEW r \in RingSet
  PROVE  /\ r = Literal(r.slot, r.head, r.tail, r.len, r.next, r.expected, r.closed)
         /\ r.slot \in [Index -> SlotSet] /\ r.head \in Index /\ r.tail \in Index
         /\ r.len \in Nat /\ r.len <= Slots
         /\ r.next \in Nat /\ r.expected \in Nat /\ r.closed \in BOOLEAN
BY Sizes DEF RingSet, Literal

LEMMA IsARing ==
  ASSUME NEW a \in [Index -> SlotSet], NEW b \in Index, NEW c \in Index, NEW d \in 0 .. Slots,
         NEW e \in Nat, NEW f \in Nat, NEW g \in BOOLEAN
  PROVE  /\ Literal(a, b, c, d, e, f, g) \in RingSet
         /\ Literal(a, b, c, d, e, f, g).slot = a
         /\ Literal(a, b, c, d, e, f, g).head = b
         /\ Literal(a, b, c, d, e, f, g).tail = c
         /\ Literal(a, b, c, d, e, f, g).len = d
         /\ Literal(a, b, c, d, e, f, g).next = e
         /\ Literal(a, b, c, d, e, f, g).expected = f
         /\ Literal(a, b, c, d, e, f, g).closed = g
BY DEF RingSet, Literal

\* advance_tail_after_read: the slot is freed and the window starts after it.
LEMMA AdvancedIs ==
  ASSUME NEW r \in RingSet, r.len > 0
  PROVE  /\ Advanced(r) = Literal([r.slot EXCEPT ![r.tail] = Free], r.head, Next1(r.tail),
                                  r.len - 1, r.next, r.expected, r.closed)
         /\ [r.slot EXCEPT ![r.tail] = Free] \in [Index -> SlotSet]
         /\ Next1(r.tail) \in Index /\ r.len - 1 \in 0 .. Slots
         /\ Advanced(Pinned(r)) = Advanced(r)
<1> DEFINE S == [r.slot EXCEPT ![r.tail] = Free]
           P == [r.slot EXCEPT ![r.tail].state = "PINNED"]
           Q == [P EXCEPT ![r.tail] = Free]
<1>1. /\ r = Literal(r.slot, r.head, r.tail, r.len, r.next, r.expected, r.closed)
      /\ r.slot \in [Index -> SlotSet] /\ r.tail \in Index /\ r.len - 1 \in 0 .. Slots
  BY Fields, Sizes
<1>2. Q = S /\ S \in [Index -> SlotSet]
  BY <1>1, FreeIsASlot
<1>3. Next1(r.tail) \in Index
  <2>1. 0 \in Nat
    OBVIOUS
  <2> QED BY <1>1, <2>1, Wraps
<1>4. /\ Released(r) = Literal(S, r.head, r.tail, r.len, r.next, r.expected, r.closed)
      /\ Pinned(r) = Literal(P, r.head, r.tail, r.len, r.next, r.expected, r.closed)
  BY <1>1 DEF Released, Pinned, Literal
<1> HIDE DEF S, P
<1>5. Pinned(r).slot = P /\ Pinned(r).tail = r.tail
  BY <1>4 DEF Literal
<1>6. Released(Pinned(r)) = Literal(Q, r.head, r.tail, r.len, r.next, r.expected, r.closed)
  BY <1>4, <1>5 DEF Released, Literal
<1> HIDE DEF Q
<1>7. Released(r).tail = r.tail /\ Released(r).len = r.len
  BY <1>4 DEF Literal
<1>8. Advanced(r) = Shrunk(Released(r), Next1(r.tail), r.len - 1)
  BY <1>7 DEF Advanced, Shrunk
<1>9. Advanced(r) = Literal(S, r.head, Next1(r.tail), r.len - 1, r.next, r.expected, r.closed)
  BY <1>4, <1>8, TailAndLength
<1>10. Released(Pinned(r)).tail = r.tail /\ Released(Pinned(r)).len = r.len
  BY <1>6 DEF Literal
<1>11. Advanced(Pinned(r)) = Shrunk(Released(Pinned(r)), Next1(r.tail), r.len - 1)
  BY <1>10 DEF Advanced, Shrunk
<1>12. Advanced(Pinned(r)) = Literal(Q, r.head, Next1(r.tail), r.len - 1, r.next, r.expected, r.closed)
  BY <1>6, <1>11, TailAndLength
<1> QED BY <1>1, <1>2, <1>3, <1>9, <1>12 DEF S

\* The window of two different places is not empty.
LEMMA NotEmpty ==
  ASSUME NEW r, NEW acc, NEW sp, NEW s, NEW e, Linked(r, acc, sp, s, e), s # e
  PROVE  r.len # 0
BY DEF Linked, Places

\* The first chunk leaves: what is left is linked from the place after it.
LEMMA Advance ==
  ASSUME NEW r, NEW acc, NEW sp, NEW s, NEW e, Linked(r, acc, sp, s, e), r.len # 0
  PROVE  /\ r.len \in 1 .. Slots /\ Tail1(r) = SlotAt(r, 0)
         /\ Stored(Tail1(r), acc, sp, s)
         /\ Linked(Advanced(r), acc, sp, After(acc, s), e)
         /\ Advanced(r).len = r.len - 1 /\ SameNumbers(Advanced(r), r)
         /\ Advanced(Pinned(r)) = Advanced(r)
<1> DEFINE x == Advanced(r)
           n == r.len
           t == r.tail
           S == [r.slot EXCEPT ![t] = Free]
<1>1. PICK pl : Places(r, acc, sp, s, e, pl)
  BY DEF Linked
<1>2. r \in RingSet /\ n \in Nat /\ n <= Slots /\ t \in Index /\ Slots \in Nat \ {0}
  BY Fields, Sizes DEF Linked
<1>3. n # 0
  OBVIOUS
<1>4. n > 0 /\ n - 1 \in 0 .. Slots /\ n \in 1 .. Slots /\ 0 \in 0 .. n - 1 /\ 0 \in Nat
  BY <1>2, <1>3
<1>5. (t + 0) % Slots = t
  BY <1>2, <1>4, Wraps
<1>6. Tail1(r) = SlotAt(r, 0)
  BY <1>5 DEF Tail1, SlotAt
<1>7. Stored(Tail1(r), acc, sp, s)
  BY <1>1, <1>4, <1>6 DEF Places
<1>8. x = Literal(S, r.head, Next1(t), n - 1, r.next, r.expected, r.closed) /\ Advanced(Pinned(r)) = x
  BY <1>2, <1>4, AdvancedIs
<1>9. /\ x \in RingSet
      /\ x.slot = S /\ x.head = r.head /\ x.tail = Next1(t) /\ x.len = n - 1
      /\ x.next = r.next /\ x.expected = r.expected /\ x.closed = r.closed
  <2> HIDE DEF x, S, n, t
  <2>1. S \in [Index -> SlotSet] /\ Next1(t) \in Index /\ n - 1 \in 0 .. Slots
    BY <1>2, <1>4, AdvancedIs DEF S, n, t
  <2>2. r.head \in Index /\ r.next \in Nat /\ r.expected \in Nat /\ r.closed \in BOOLEAN
    BY <1>2, Fields
  <2> QED BY <1>8, <2>1, <2>2, IsARing
<1> HIDE DEF x
<1>10. \A k \in Nat : k < Slots - 1 => SlotAt(x, k) = SlotAt(r, k + 1)
  <2> SUFFICES ASSUME NEW k \in Nat, k < Slots - 1 PROVE SlotAt(x, k) = SlotAt(r, k + 1)
    OBVIOUS
  <2>1. k + 1 \in Nat /\ k + 1 < Slots /\ k + 1 # 0 /\ 0 < Slots
    BY <1>2
  <2>2. (x.tail + k) % Slots = (t + (k + 1)) % Slots /\ (t + (k + 1)) % Slots \in Index
    BY <1>2, <1>9, <2>1, Wraps
  <2>3. (t + (k + 1)) % Slots # t
    BY <1>2, <1>4, <1>5, <2>1, Apart
  <2>4. S[(t + (k + 1)) % Slots] = r.slot[(t + (k + 1)) % Slots]
    <3>1. r.slot \in [Index -> SlotSet]
      BY <1>2, Fields
    <3> QED BY <2>2, <2>3, <3>1
  <2> QED BY <1>9, <2>2, <2>4 DEF SlotAt
<1>11. SlotAt(x, Slots - 1) = Free
  <2>1. Slots - 1 \in Nat /\ Slots - 1 + 1 = Slots
    BY <1>2
  <2>2. (x.tail + (Slots - 1)) % Slots = (t + Slots) % Slots
    <3>1. (x.tail + (Slots - 1)) % Slots = (t + (Slots - 1 + 1)) % Slots
      BY <1>2, <1>9, <2>1, Wraps
    <3> QED BY <2>1, <3>1
  <2>3. (t + Slots) % Slots = t
    <3>1. t \in Nat /\ t + 0 = t
      BY <1>2 DEF Index
    <3>2. (t + Slots) % Slots = t % Slots
      BY <1>2, <3>1, NextLap
    <3> QED BY <1>5, <3>1, <3>2
  <2>4. S[t] = Free
    <3>1. r.slot \in [Index -> SlotSet]
      BY <1>2, Fields
    <3> QED BY <1>2, <3>1
  <2> QED BY <1>9, <2>2, <2>3, <2>4 DEF SlotAt
<1>12. \A k \in n - 1 .. Slots - 1 : SlotAt(x, k) = Free
  <2> SUFFICES ASSUME NEW k \in n - 1 .. Slots - 1, k # Slots - 1 PROVE SlotAt(x, k) = Free
    BY <1>11
  <2>1. k \in Nat /\ k < Slots - 1 /\ k + 1 \in n .. Slots - 1
    BY <1>2, <1>4
  <2>2. SlotAt(r, k + 1) = Free
    BY <2>1 DEF Linked
  <2> QED BY <1>10, <2>1, <2>2
<1>13. x.head = (x.tail + x.len) % Slots
  <2>1. n - 1 \in Nat /\ n - 1 + 1 = n
    BY <1>4
  <2>2. (Next1(t) + (n - 1)) % Slots = (t + (n - 1 + 1)) % Slots
    BY <1>2, <2>1, Wraps
  <2> QED BY <1>9, <2>1, <2>2 DEF Linked
<1> DEFINE ql == [k \in 0 .. n - 1 |-> pl[k + 1]]
<1>14. Places(x, acc, sp, After(acc, s), e, ql)
  <2>1. ql[0] = After(acc, s)
    <3>1. 0 + 1 = 1 /\ pl[0 + 1] = After(acc, pl[0])
      BY <1>1, <1>4 DEF Places
    <3> QED BY <1>1, <1>4, <3>1 DEF Places
  <2>2. ql[x.len] = e
    <3>1. n - 1 \in 0 .. n - 1 /\ n - 1 + 1 = n
      BY <1>4
    <3> QED BY <1>1, <1>9, <3>1 DEF Places
  <2>3. ASSUME NEW k \in 0 .. n - 1 - 1
        PROVE  Stored(SlotAt(x, k), acc, sp, ql[k]) /\ ql[k + 1] = After(acc, ql[k])
    <3>1. /\ k \in 0 .. n - 1 /\ k + 1 \in 0 .. n - 1 /\ k \in Nat /\ k < Slots - 1
      BY <1>2, <1>4
    <3>2. ql[k] = pl[k + 1] /\ ql[k + 1] = pl[k + 1 + 1]
      BY <3>1
    <3> HIDE DEF ql
    <3>3. Stored(SlotAt(r, k + 1), acc, sp, pl[k + 1]) /\ pl[k + 1 + 1] = After(acc, pl[k + 1])
      BY <1>1, <3>1 DEF Places
    <3> QED BY <1>10, <3>1, <3>2, <3>3
  <2> HIDE DEF ql
  <2> QED BY <1>9, <2>1, <2>2, <2>3 DEF Places
<1>15. Linked(x, acc, sp, After(acc, s), e)
  <2> HIDE DEF ql
  <2> QED BY <1>9, <1>12, <1>13, <1>14 DEF Linked
<1> QED BY <1>4, <1>6, <1>7, <1>8, <1>9, <1>15 DEF SameNumbers, x

\* What write_committed leaves in a slot.
Committed(q, frame) == [state |-> "COMMITTED", seq |-> q, frame |-> frame]

\* A slot in use holds a slot's value.
LEMMA StoredIsASlot ==
  ASSUME NEW q, NEW frame, NEW acc, NEW sp, NEW p,
         Stored(Committed(q, frame), acc, sp, p)
  PROVE  Committed(q, frame) \in SlotSet
<1>1. p[1] - 1 \in Nat /\ q = (p[1] - 1) % Width /\ frame \in FrameSet
  BY DEF Stored, IsFrame, Committed
<1>2. q \in Nat
  BY <1>1, Sizes, LapAndSlot
<1> QED BY <1>1, <1>2 DEF SlotSet, Committed

\* A chunk written at the head of a ring with room continues the window.
LEMMA Write ==
  ASSUME NEW r, NEW acc, NEW sp, NEW s, NEW e, NEW q, NEW frame,
         Linked(r, acc, sp, s, e), r.len < Slots,
         Stored(Committed(q, frame), acc, sp, e)
  PROVE  \E x : /\ WriteFrame(r, q, frame) = Step(x, Ok, <<>>)
                /\ Linked(x, acc, sp, s, After(acc, e))
                /\ x.len = r.len + 1 /\ SameNumbers(x, r)
<1> DEFINE z == Committed(q, frame)
           n == r.len
           t == r.tail
           S == [r.slot EXCEPT ![r.head] = z]
           x == Grown(r, r.head, z, Next1(r.head), n + 1)
<1>1. PICK pl : Places(r, acc, sp, s, e, pl)
  BY DEF Linked
<1>2. /\ r \in RingSet /\ n \in Nat /\ n < Slots /\ t \in Index /\ Slots \in Nat \ {0}
      /\ r.head \in Index /\ r.slot \in [Index -> SlotSet] /\ r.next \in Nat /\ r.expected \in Nat /\ r.closed \in BOOLEAN
      /\ r.head = (t + n) % Slots
      /\ r = Literal(r.slot, r.head, r.tail, r.len, r.next, r.expected, r.closed)
  BY Fields, Sizes DEF Linked
<1>3. r.slot[r.head] = Free
  <2>1. n \in n .. Slots - 1
    BY <1>2
  <2> QED BY <1>2, <2>1 DEF Linked, SlotAt
<1>4. WriteFrame(r, q, frame) = Step(x, Ok, <<>>)
  BY <1>3 DEF WriteFrame, Free, Grown, Committed, Ok
<1>5. z \in SlotSet
  BY StoredIsASlot
<1>6. x = Literal(S, Next1(r.head), t, n + 1, r.next, r.expected, r.closed)
  <2> HIDE DEF z
  <2> QED BY <1>2, HeadAndLength
<1> HIDE DEF z
<1>7. S \in [Index -> SlotSet] /\ Next1(r.head) \in Index /\ n + 1 \in 0 .. Slots
  <2>1. 0 \in Nat
    OBVIOUS
  <2> QED BY <1>2, <1>5, <2>1, Wraps
<1> HIDE DEF x, n, t
<1>8. /\ x \in RingSet
      /\ x.slot = S /\ x.head = Next1(r.head) /\ x.tail = t /\ x.len = n + 1
      /\ x.next = r.next /\ x.expected = r.expected /\ x.closed = r.closed
  <2> HIDE DEF S
  <2>1. t \in Index /\ r.next \in Nat /\ r.expected \in Nat /\ r.closed \in BOOLEAN
    BY <1>2
  <2> QED BY <1>6, <1>7, <2>1, IsARing
<1>9. \A k \in Nat : k < Slots => SlotAt(x, k) = IF k = n THEN z ELSE SlotAt(r, k)
  <2> SUFFICES ASSUME NEW k \in Nat, k < Slots PROVE SlotAt(x, k) = IF k = n THEN z ELSE SlotAt(r, k)
    OBVIOUS
  <2>1. (t + k) % Slots \in Index
    BY <1>2, Wraps
  <2>2. k # n => (t + k) % Slots # r.head
    BY <1>2, Apart
  <2> QED BY <1>2, <1>8, <2>1, <2>2 DEF SlotAt, t
<1>10. \A k \in n + 1 .. Slots - 1 : SlotAt(x, k) = Free
  <2> SUFFICES ASSUME NEW k \in n + 1 .. Slots - 1 PROVE SlotAt(x, k) = Free
    OBVIOUS
  <2>1. k \in Nat /\ k < Slots /\ k # n /\ k \in n .. Slots - 1
    BY <1>2
  <2>2. SlotAt(r, k) = Free
    BY <2>1 DEF Linked, n
  <2> QED BY <1>9, <2>1, <2>2
<1>11. x.head = (x.tail + x.len) % Slots
  <2>1. (((t + n) % Slots) + 1) % Slots = (t + n + 1) % Slots /\ t + n + 1 = t + (n + 1)
    <3> DEFINE a == t + n
    <3>1. t \in Nat /\ a \in Nat /\ a + 1 = t + (n + 1)
      BY <1>2 DEF Index
    <3> HIDE DEF a
    <3>2. ((a % Slots) + 1) % Slots = (a + 1) % Slots
      BY <1>2, <3>1, NextSlot
    <3> QED BY <3>1, <3>2 DEF a
  <2> QED BY <1>2, <1>8, <2>1 DEF Next1
<1> DEFINE ql == [k \in 0 .. n + 1 |-> IF k = n + 1 THEN After(acc, e) ELSE pl[k]]
<1>12. Places(x, acc, sp, s, After(acc, e), ql)
  <2>0. \A k \in 0 .. n : ql[k] = pl[k]
    BY <1>2
  <2>1. ql[0] = s
    <3>1. 0 \in 0 .. n
      BY <1>2
    <3> QED BY <1>1, <2>0, <3>1 DEF Places
  <2>2. ql[x.len] = After(acc, e) /\ ql[n + 1] = After(acc, e)
    <3>1. n + 1 \in 0 .. n + 1
      BY <1>2
    <3> QED BY <1>8, <3>1
  <2> HIDE DEF ql
  <2>3. ASSUME NEW k \in 0 .. n + 1 - 1
        PROVE  Stored(SlotAt(x, k), acc, sp, ql[k]) /\ ql[k + 1] = After(acc, ql[k])
    <3>1. CASE k = n
      <4>1. k \in 0 .. n /\ k \in Nat /\ k < Slots
        BY <1>2, <3>1
      <4>2. ql[k] = e /\ SlotAt(x, k) = z
        BY <1>1, <1>9, <2>0, <3>1, <4>1 DEF Places, n
      <4> QED BY <2>2, <3>1, <4>2 DEF z
    <3>2. CASE k # n
      <4>1. k \in 0 .. n /\ k + 1 \in 0 .. n /\ k \in 0 .. n - 1 /\ k \in Nat /\ k < Slots
        BY <1>2, <3>2
      <4>2. ql[k] = pl[k] /\ ql[k + 1] = pl[k + 1] /\ SlotAt(x, k) = SlotAt(r, k)
        BY <1>9, <2>0, <3>2, <4>1
      <4> QED BY <1>1, <4>1, <4>2 DEF Places, n
    <3> QED BY <3>1, <3>2
  <2>4. \A k \in 0 .. x.len - 1 : Stored(SlotAt(x, k), acc, sp, ql[k]) /\ ql[k + 1] = After(acc, ql[k])
    <3>1. x.len - 1 = n + 1 - 1
      BY <1>2, <1>8
    <3> QED BY <2>3, <3>1
  <2> QED BY <2>1, <2>2, <2>4 DEF Places
<1>13. Linked(x, acc, sp, s, After(acc, e))
  <2> HIDE DEF ql
  <2> QED BY <1>8, <1>10, <1>11, <1>12 DEF Linked
<1> QED BY <1>4, <1>8, <1>13 DEF SameNumbers, n

-----------------------------------------------------------------------------
(* Writing a message *)

\* The window does not depend on what is accepted after it.
LEMMA Extend ==
  ASSUME NEW r, NEW acc \in Seq(Nat), NEW n \in Nat, NEW sp, NEW s, NEW e,
         Linked(r, acc, sp, s, e)
  PROVE  Linked(r, Append(acc, n), sp, s, e)
<1> DEFINE A == Append(acc, n)
<1>1. PICK pl : Places(r, acc, sp, s, e, pl)
  BY DEF Linked
<1>2. Len(A) = Len(acc) + 1 /\ Len(acc) \in Nat /\ \A i \in 1 .. Len(acc) : A[i] = acc[i]
  OBVIOUS
<1> HIDE DEF A
<1>3. ASSUME NEW k \in 0 .. r.len - 1
      PROVE  Stored(SlotAt(r, k), A, sp, pl[k]) /\ pl[k + 1] = After(A, pl[k])
  <2>1. Stored(SlotAt(r, k), acc, sp, pl[k]) /\ pl[k + 1] = After(acc, pl[k])
    BY <1>1 DEF Places
  <2>2. pl[k][1] \in 1 .. Len(acc) /\ A[pl[k][1]] = acc[pl[k][1]] /\ pl[k][1] \in 1 .. Len(A)
    BY <1>2, <2>1 DEF Stored
  <2>3. Stored(SlotAt(r, k), A, sp, pl[k])
    BY <2>1, <2>2 DEF Stored, IsFrame
  <2>4. After(A, pl[k]) = After(acc, pl[k])
    BY <2>2 DEF After
  <2> QED BY <2>1, <2>3, <2>4
<1>4. Places(r, A, sp, s, e, pl)
  BY <1>1, <1>3 DEF Places
<1> QED BY <1>4 DEF Linked, A

\* Numbers apart, a ring is as linked as another.
LEMMA Renumber ==
  ASSUME NEW r, NEW x \in RingSet, NEW acc, NEW sp, NEW s, NEW e, Linked(r, acc, sp, s, e),
         x.slot = r.slot, x.head = r.head, x.tail = r.tail, x.len = r.len
  PROVE  Linked(x, acc, sp, s, e)
<1>1. PICK pl : Places(r, acc, sp, s, e, pl)
  BY DEF Linked
<1>2. \A k : SlotAt(x, k) = SlotAt(r, k)
  BY DEF SlotAt
<1>3. Places(x, acc, sp, s, e, pl)
  BY <1>1, <1>2 DEF Places
<1> QED BY <1>2, <1>3 DEF Linked

\* The chunks of a message not accepted before are stored as they are.
LEMMA Fresh ==
  ASSUME NEW acc \in Seq(Nat), NEW n \in Nat, Needed(n) # 0, NEW sp,
         \A w : <<Len(acc) + 1, w>> \notin sp,
         NEW i \in 1 .. Needed(n)
  PROVE  LET m == Len(acc) + 1
             A == Append(acc, n)
         IN /\ Stored(Committed((m - 1) % Width, Frames(m, n)[i]),
                      A, sp, <<m, i - 1>>)
            /\ After(A, <<m, i - 1>>) = IF i = Needed(n) THEN <<m + 1, 0>> ELSE <<m, i>>
<1> DEFINE m == Len(acc) + 1
           A == Append(acc, n)
           q == Needed(n)
           f == Frames(m, n)[i]
           p == <<m, i - 1>>
<1>1. m \in Nat /\ Len(A) = m /\ A[m] = n /\ m \in 1 .. Len(A)
  OBVIOUS
<1>2. q \in 1 .. Slots /\ q \in Nat
  BY NeededSlots, Sizes
<1>3. i - 1 \in 0 .. q - 1 /\ i - 1 \in Nat /\ i - 1 + 1 = i
  BY <1>2
<1>4. f \in FrameSet /\ f.m = m /\ f.index = i - 1 /\ f.total = q /\ f.bad = "no"
  <2> HIDE DEF m
  <2>1. LET g == Frames(m, n)[i - 1 + 1]
        IN g \in FrameSet /\ g.m = m /\ g.index = i - 1 /\ g.total = Needed(n) /\ g.bad = "no"
    BY <1>1, <1>3, FrameFields
  <2> QED BY <1>3, <2>1
<1>5. p[1] = m /\ p[2] = i - 1 /\ p \in Nat \X Nat
  BY <1>1, <1>3
<1> HIDE DEF m, A, q, p
<1>6. IsFrame(f, A, sp, p)
  <2>1. \A w \in {"payload", "header"} : f.bad = w <=> <<p[1], w>> \in sp
    BY <1>4, <1>5 DEF m
  <2>2. Frames(p[1], A[p[1]])[p[2] + 1] = f
    BY <1>1, <1>3, <1>5
  <2> HIDE DEF f
  <2> QED BY <1>1, <1>4, <1>5, <2>1, <2>2 DEF IsFrame, q
<1> HIDE DEF f
<1>7. Stored(Committed((m - 1) % Width, f), A, sp, p)
  BY <1>1, <1>3, <1>5, <1>6 DEF Stored, q, Committed
<1>8. After(A, p) = IF i = q THEN <<m + 1, 0>> ELSE <<m, i>>
  BY <1>1, <1>3, <1>5 DEF After, q
<1> QED BY <1>7, <1>8 DEF m, A, p, q, f

\* The loop of send_bytes that writes message m, of n bytes, under number q.
Filled(r, m, n, q) ==
  Loop(Len(Frames(m, n)), r, LAMBDA x, i : WriteFrame(x, q, Frames(m, n)[i]))

Wrote(y, r, acc, n, sp, s) ==
  \E x : /\ y = Step(x, Ok, <<>>)
         /\ Linked(x, Append(acc, n), sp, s, <<Len(acc) + 2, 0>>)
         /\ SameNumbers(x, r)

\* write_committed for each chunk in turn: the whole message is in the window.
LEMMA WritesAll ==
  ASSUME NEW acc \in Seq(Nat), NEW n \in Nat, Needed(n) # 0, NEW sp,
         \A w : <<Len(acc) + 1, w>> \notin sp,
         NEW r, NEW s, NEW q, q = Len(acc) % Width,
         Linked(r, acc, sp, s, <<Len(acc) + 1, 0>>), r.len + Needed(n) <= Slots
  PROVE  Wrote(Filled(r, Len(acc) + 1, n, q), r, acc, n, sp, s)
<1> DEFINE m == Len(acc) + 1
           A == Append(acc, n)
           N == Needed(n)
           frames == Frames(m, n)
           Do(x, i) == WriteFrame(x, q, frames[i])
           H(i, y) == While(y, LAMBDA x : Do(x, i))
           At(i) == IF i = N THEN <<m + 1, 0>> ELSE <<m, i>>
           Good(x, i) == Linked(x, A, sp, s, At(i)) /\ x.len = r.len + i /\ SameNumbers(x, r)
           S == {Step(x, Ok, <<>>) : x \in RingSet}
           I == [i \in 0 .. N |-> {y \in S : \E x : Good(x, i) /\ y = Step(x, Ok, <<>>)}]
           G == [i \in 1 .. N |-> [y \in S |-> H(i, y)]]
           init == Step(r, Ok, <<>>)
<1>1. N \in 1 .. Slots /\ N \in Nat /\ Len(frames) = N
  BY FrameCount, Sizes
<1>2. r \in RingSet /\ r.len \in Nat /\ r.len + N <= Slots /\ m \in Nat /\ m - 1 = Len(acc) /\ m + 1 = Len(acc) + 2
  BY Fields, Sizes DEF Linked
<1>3. \A i \in 1 .. N :
        /\ Stored(Committed(q, frames[i]), A, sp, <<m, i - 1>>)
        /\ After(A, <<m, i - 1>>) = At(i)
  BY <1>2, Fresh
<1>4. Linked(r, A, sp, s, <<m, 0>>)
  BY Extend
<1> HIDE DEF m, A, N, frames, At, Do, H, Good, S, I, G, init
<1>5. ASSUME NEW i \in 1 .. N, NEW x, Good(x, i - 1)
      PROVE  \E z \in RingSet : Good(z, i) /\ H(i, Step(x, Ok, <<>>)) = Step(z, Ok, <<>>)
  <2>1. i - 1 # N /\ i - 1 < N /\ i - 1 + 1 = i /\ i - 1 \in Nat
    BY <1>1
  <2>2. Linked(x, A, sp, s, <<m, i - 1>>) /\ x.len = r.len + (i - 1) /\ SameNumbers(x, r)
    BY <1>5, <2>1 DEF At, Good
  <2>3. x.len < Slots /\ x.len + 1 = r.len + i
    BY <1>1, <1>2, <2>1, <2>2, Sizes
  <2>4. PICK z : /\ WriteFrame(x, q, frames[i]) = Step(z, Ok, <<>>)
                 /\ Linked(z, A, sp, s, At(i))
                 /\ z.len = x.len + 1 /\ SameNumbers(z, x)
    <3>1. Stored(Committed(q, frames[i]), A, sp, <<m, i - 1>>) /\ After(A, <<m, i - 1>>) = At(i)
      BY <1>3
    <3> DEFINE p == <<m, i - 1>>
               c == frames[i]
    <3>2. Linked(x, A, sp, s, p) /\ x.len < Slots /\ Stored(Committed(q, c), A, sp, p)
      BY <2>2, <2>3, <3>1
    <3> HIDE DEF p, c
    <3>3. \E z : /\ WriteFrame(x, q, c) = Step(z, Ok, <<>>)
                 /\ Linked(z, A, sp, s, After(A, p))
                 /\ z.len = x.len + 1 /\ SameNumbers(z, x)
      BY <3>2, Write
    <3> QED BY <3>1, <3>3 DEF p, c
  <2>5. Good(z, i) /\ z \in RingSet
    BY <2>2, <2>3, <2>4 DEF SameNumbers, Linked, Good
  <2>6. H(i, Step(x, Ok, <<>>)) = Step(z, Ok, <<>>)
    <3>1. Do(x, i) = Step(z, Ok, <<>>)
      BY <2>4 DEF Do
    <3>2. \A v : Step(v, Ok, <<>>).r = v /\ Step(v, Ok, <<>>).err = Ok /\ Step(v, Ok, <<>>).out = <<>>
      BY DEF Step
    <3>3. <<>> \o <<>> = <<>>
      OBVIOUS
    <3> QED BY <3>1, <3>2, <3>3 DEF H, While, Ok
  <2> QED BY <2>5, <2>6
<1>6. \A i \in 1 .. N : \A y \in I[i - 1] : y \in S /\ H(i, y) \in I[i]
  <2> SUFFICES ASSUME NEW i \in 1 .. N, NEW y \in I[i - 1] PROVE y \in S /\ H(i, y) \in I[i]
    OBVIOUS
  <2>1. i - 1 \in 0 .. N /\ i \in 0 .. N
    BY <1>1
  <2>2. PICK x : Good(x, i - 1) /\ y = Step(x, Ok, <<>>) /\ y \in S
    BY <2>1 DEF I
  <2>3. PICK z \in RingSet : Good(z, i) /\ H(i, y) = Step(z, Ok, <<>>)
    BY <1>5, <2>2
  <2> QED BY <2>1, <2>2, <2>3 DEF I, S
<1>7. init \in I[0]
  <2>1. At(0) = <<m, 0>> /\ 0 \in 0 .. N
    BY <1>1 DEF At
  <2>2. Good(r, 0)
    BY <1>2, <1>4, <2>1 DEF SameNumbers, Good
  <2> QED BY <1>2, <2>1, <2>2 DEF I, S, init
<1>8. \E f : f = [i \in 0 .. N |-> IF i = 0 THEN init ELSE H(i, f[i - 1])]
  <2>1. \A i \in 1 .. N : \A y \in I[i - 1] : G[i][y] = H(i, y) /\ G[i][y] \in I[i]
    BY <1>6 DEF G
  <2>2. PICK f : Stays(f, N, init, G, I)
    BY <1>1, <1>7, <2>1, LoopStays
  <2>3. \A i \in 1 .. N : f[i] = H(i, f[i - 1])
    BY <2>1, <2>2 DEF Stays
  <2>4. \A i \in 0 .. N : i # 0 => i \in 1 .. N
    BY <1>1
  <2>5. \A i \in 0 .. N : f[i] = IF i = 0 THEN init ELSE H(i, f[i - 1])
    BY <2>2, <2>3, <2>4 DEF Stays
  <2>6. f = [i \in 0 .. N |-> f[i]]
    BY <2>2 DEF Stays
  <2>7. f = [i \in 0 .. N |-> IF i = 0 THEN init ELSE H(i, f[i - 1])]
    BY <2>5, <2>6
  <2> QED BY <2>7
<1>9. PICK g : /\ g = [i \in 0 .. N |-> IF i = 0 THEN init ELSE H(i, g[i - 1])]
               /\ Loop(N, r, Do) = g[N]
  BY <1>8 DEF Loop, H, init, Ok
<1>10. g[N] \in I[N]
  <2>1. \A i \in 0 .. N : g[i] = IF i = 0 THEN init ELSE H(i, g[i - 1])
    BY <1>9
  <2>2. g[0] \in I[0]
    BY <1>1, <1>7, <2>1
  <2>3. \A i \in 1 .. N : g[i - 1] \in I[i - 1] => g[i] \in I[i]
    BY <1>1, <1>6, <2>1
  <2>4. N \in 0 .. N
    BY <1>1
  <2> QED BY <1>1, <2>2, <2>3, <2>4, LoopKeeps
<1>11. PICK x : Good(x, N) /\ g[N] = Step(x, Ok, <<>>)
  <2>1. N \in 0 .. N
    BY <1>1
  <2> QED BY <1>10, <2>1 DEF I
<1>12. At(N) = <<m + 1, 0>>
  BY DEF At
<1>13. Loop(N, r, Do) = Step(x, Ok, <<>>) /\ Linked(x, A, sp, s, <<m + 1, 0>>) /\ SameNumbers(x, r)
  BY <1>9, <1>11, <1>12 DEF Good
<1> QED BY <1>1, <1>2, <1>13 DEF m, A, frames, N, Do, Filled, Wrote

-----------------------------------------------------------------------------
(* Taking a message out *)

\* Where the window starts when i of a message's chunks have left.
From(acc, m, i) == IF i = Needed(acc[m]) THEN <<m + 1, 0>> ELSE <<m, i>>

\* The chunk at the tail, of a message some of whose chunks have left.
LEMMA NextOut ==
  ASSUME NEW r, NEW acc, NEW sp, NEW m \in Nat, NEW e,
         NEW i \in 1 .. Needed(acc[m]), NEW M, e = <<M, 0>>,
         Linked(r, acc, sp, From(acc, m, i - 1), e), i = 1 => r.len # 0
  PROVE  /\ Stored(Tail1(r), acc, sp, <<m, i - 1>>)
         /\ Linked(Advanced(r), acc, sp, From(acc, m, i), e)
         /\ r.len \in 1 .. Slots
         /\ Advanced(r).len = r.len - 1 /\ SameNumbers(Advanced(r), r)
         /\ Advanced(Pinned(r)) = Advanced(r)
<1> DEFINE p == <<m, i - 1>>
<1>1. i - 1 # Needed(acc[m]) /\ i - 1 + 1 = i /\ i - 1 \in Nat
  OBVIOUS
<1>2. From(acc, m, i - 1) = p
  BY <1>1 DEF From
<1>3. i # 1 => p # e
  BY <1>1
<1>4. r.len # 0
  BY <1>2, <1>3, NotEmpty
<1>5. After(acc, p) = From(acc, m, i)
  BY <1>1 DEF After, From
<1> HIDE DEF p
<1>6. Linked(r, acc, sp, p, e)
  BY <1>2
<1>7. /\ r.len \in 1 .. Slots /\ Stored(Tail1(r), acc, sp, p)
      /\ Linked(Advanced(r), acc, sp, After(acc, p), e)
      /\ Advanced(r).len = r.len - 1 /\ SameNumbers(Advanced(r), r)
      /\ Advanced(Pinned(r)) = Advanced(r)
  BY <1>4, <1>6, Advance
<1> QED BY <1>5, <1>7 DEF p

\* drop_oldest_message's loop: every chunk of the message leaves.
LEMMA ReleasesAll ==
  ASSUME NEW acc, NEW sp, NEW m \in Nat, NEW r, NEW M, r.len # 0,
         Needed(acc[m]) \in Nat \ {0},
         Linked(r, acc, sp, <<m, 0>>, <<M, 0>>)
  PROVE  LET Release(x, i) == IF Tail1(x).state # "COMMITTED" THEN Step(x, "not committed", <<>>)
                              ELSE Step(Advanced(x), Ok, <<>>)
         IN \E x : /\ Loop(Needed(acc[m]), r, Release) = Step(x, Ok, <<>>)
                   /\ Linked(x, acc, sp, <<m + 1, 0>>, <<M, 0>>)
                   /\ x.len = r.len - Needed(acc[m]) /\ SameNumbers(x, r)
<1> DEFINE N == Needed(acc[m])
           e == <<M, 0>>
           Do(x, i) == IF Tail1(x).state # "COMMITTED" THEN Step(x, "not committed", <<>>)
                       ELSE Step(Advanced(x), Ok, <<>>)
           H(i, y) == While(y, LAMBDA x : Do(x, i))
           Good(x, i) == Linked(x, acc, sp, From(acc, m, i), e) /\ x.len = r.len - i /\ SameNumbers(x, r)
           S == {Step(x, Ok, <<>>) : x \in RingSet}
           I == [i \in 0 .. N |-> {y \in S : \E x : Good(x, i) /\ y = Step(x, Ok, <<>>)}]
           G == [i \in 1 .. N |-> [y \in S |-> H(i, y)]]
           init == Step(r, Ok, <<>>)
<1>1. N \in Nat \ {0} /\ From(acc, m, 0) = <<m, 0>> /\ From(acc, m, N) = <<m + 1, 0>>
  BY DEF From
<1>2. r \in RingSet /\ r.len \in Nat
  BY Fields DEF Linked
<1> HIDE DEF N, Do, H, Good, S, I, G, init
<1>5. ASSUME NEW i \in 1 .. N, NEW x, Good(x, i - 1)
      PROVE  \E z \in RingSet : Good(z, i) /\ H(i, Step(x, Ok, <<>>)) = Step(z, Ok, <<>>)
  <2> DEFINE z == Advanced(x)
  <2>1. Linked(x, acc, sp, From(acc, m, i - 1), e) /\ x.len = r.len - (i - 1) /\ SameNumbers(x, r)
    BY <1>5 DEF Good
  <2>2. i = 1 => x.len # 0
    BY <1>2, <2>1
  <2>3. /\ Stored(Tail1(x), acc, sp, <<m, i - 1>>)
        /\ Linked(z, acc, sp, From(acc, m, i), e)
        /\ x.len \in 1 .. Slots /\ z.len = x.len - 1 /\ SameNumbers(z, x)
    BY <2>1, <2>2, NextOut DEF N
  <2> HIDE DEF z
  <2>4. Good(z, i) /\ z \in RingSet
    <3>1. z.len = r.len - i
      BY <1>1, <1>2, <2>1, <2>3
    <3> QED BY <2>1, <2>3, <3>1 DEF SameNumbers, Linked, Good
  <2>5. H(i, Step(x, Ok, <<>>)) = Step(z, Ok, <<>>)
    <3>1. Do(x, i) = Step(z, Ok, <<>>)
      BY <2>3 DEF Do, Stored, z
    <3>2. \A v : Step(v, Ok, <<>>).r = v /\ Step(v, Ok, <<>>).err = Ok /\ Step(v, Ok, <<>>).out = <<>>
      BY DEF Step
    <3>3. <<>> \o <<>> = <<>>
      OBVIOUS
    <3> QED BY <3>1, <3>2, <3>3 DEF H, While, Ok
  <2> QED BY <2>4, <2>5
<1>6. \A i \in 1 .. N : \A y \in I[i - 1] : y \in S /\ H(i, y) \in I[i]
  <2> SUFFICES ASSUME NEW i \in 1 .. N, NEW y \in I[i - 1] PROVE y \in S /\ H(i, y) \in I[i]
    OBVIOUS
  <2>1. i - 1 \in 0 .. N /\ i \in 0 .. N
    BY <1>1
  <2>2. PICK x : Good(x, i - 1) /\ y = Step(x, Ok, <<>>) /\ y \in S
    BY <2>1 DEF I
  <2>3. PICK z \in RingSet : Good(z, i) /\ H(i, y) = Step(z, Ok, <<>>)
    BY <1>5, <2>2
  <2> QED BY <2>1, <2>2, <2>3 DEF I, S
<1>7. init \in I[0]
  <2>1. 0 \in 0 .. N
    BY <1>1
  <2>2. Good(r, 0)
    BY <1>1, <1>2, <2>1 DEF SameNumbers, Good
  <2> QED BY <1>2, <2>1, <2>2 DEF I, S, init
<1>8. \E f : f = [i \in 0 .. N |-> IF i = 0 THEN init ELSE H(i, f[i - 1])]
  <2>1. \A i \in 1 .. N : \A y \in I[i - 1] : G[i][y] = H(i, y) /\ G[i][y] \in I[i]
    BY <1>6 DEF G
  <2>2. PICK f : Stays(f, N, init, G, I)
    BY <1>1, <1>7, <2>1, LoopStays
  <2>3. \A i \in 1 .. N : f[i] = H(i, f[i - 1])
    BY <2>1, <2>2 DEF Stays
  <2>4. \A i \in 0 .. N : i # 0 => i \in 1 .. N
    BY <1>1
  <2>5. \A i \in 0 .. N : f[i] = IF i = 0 THEN init ELSE H(i, f[i - 1])
    BY <2>2, <2>3, <2>4 DEF Stays
  <2>6. f = [i \in 0 .. N |-> f[i]]
    BY <2>2 DEF Stays
  <2>7. f = [i \in 0 .. N |-> IF i = 0 THEN init ELSE H(i, f[i - 1])]
    BY <2>5, <2>6
  <2> QED BY <2>7
<1>9. PICK g : /\ g = [i \in 0 .. N |-> IF i = 0 THEN init ELSE H(i, g[i - 1])]
               /\ Loop(N, r, Do) = g[N]
  BY <1>8 DEF Loop, H, init, Ok
<1>10. g[N] \in I[N]
  <2>1. \A i \in 0 .. N : g[i] = IF i = 0 THEN init ELSE H(i, g[i - 1])
    BY <1>9
  <2>2. g[0] \in I[0]
    BY <1>1, <1>7, <2>1
  <2>3. \A i \in 1 .. N : g[i - 1] \in I[i - 1] => g[i] \in I[i]
    BY <1>1, <1>6, <2>1
  <2>4. N \in 0 .. N
    BY <1>1
  <2> QED BY <1>1, <2>2, <2>3, <2>4, LoopKeeps
<1>11. PICK x : Good(x, N) /\ g[N] = Step(x, Ok, <<>>)
  <2>1. N \in 0 .. N
    BY <1>1
  <2> QED BY <1>10, <2>1 DEF I
<1>12. /\ Loop(N, r, Do) = Step(x, Ok, <<>>) /\ Linked(x, acc, sp, <<m + 1, 0>>, e)
       /\ x.len = r.len - N /\ SameNumbers(x, r)
  BY <1>1, <1>9, <1>11 DEF Good
<1> QED BY <1>12 DEF N, Do

\* drop_oldest_message: the message at the tail leaves, or its header is bad.
Drops(z, r, m, e, acc, sp) ==
  \/ z = Step(r, "corrupted", <<>>) /\ <<m, "header">> \in sp
  \/ \E x : /\ z = Step(x, Ok, <<<<m, "dropped">>>>)
            /\ Linked(x, acc, sp, <<m + 1, 0>>, e)
            /\ x.len = r.len - Needed(acc[m])
            /\ x.next = r.next /\ x.closed = r.closed /\ x.expected = m % Width

LEMMA DropsOne ==
  ASSUME NEW acc, NEW sp, NEW m \in Nat, NEW r, NEW M, r.len # 0, r.expected = (m - 1) % Width,
         Linked(r, acc, sp, <<m, 0>>, <<M, 0>>)
  PROVE  /\ m \in 1 .. Len(acc) /\ Needed(acc[m]) \in Nat \ {0}
         /\ Drops(DropOldest(r), r, m, <<M, 0>>, acc, sp)
<1> DEFINE N == Needed(acc[m])
           p == <<m, 0>>
           e == <<M, 0>>
           f == Tail1(r).frame
           Release(x, i) == IF Tail1(x).state # "COMMITTED" THEN Step(x, "not committed", <<>>)
                            ELSE Step(Advanced(x), Ok, <<>>)
           n == IF Chunked(f) THEN f.total ELSE 1
           dropped == Loop(n, r, Release)
<1>1. Stored(Tail1(r), acc, sp, p)
  <2> HIDE DEF p, e
  <2> QED BY Advance DEF p, e
<1>2. /\ m \in 1 .. Len(acc) /\ 0 \in 0 .. N - 1
      /\ Tail1(r).state = "COMMITTED" /\ f.m = m /\ f.index = 0 /\ f.total = N
      /\ f.bad = "header" <=> <<m, "header">> \in sp
      /\ f.total \in Nat
  BY <1>1 DEF Stored, IsFrame, FrameSet
<1>3. N \in Nat \ {0} /\ n = N
  BY <1>2 DEF Chunked
<1> HIDE DEF N, p, e, f, n
<1>4. CASE ~Decodes(f)
  <2>1. f.bad = "header"
    BY <1>4 DEF Decodes
  <2>2. DropOldest(r) = Step(r, "corrupted", <<>>)
    BY <1>2, <1>4 DEF DropOldest, f
  <2> QED BY <1>2, <1>3, <2>1, <2>2 DEF N, Drops
<1>5. CASE Decodes(f)
  <2>1. PICK y : /\ Loop(N, r, Release) = Step(y, Ok, <<>>)
                 /\ Linked(y, acc, sp, <<m + 1, 0>>, <<M, 0>>)
                 /\ y.len = r.len - N /\ SameNumbers(y, r)
    BY <1>3, ReleasesAll DEF N
  <2>2. dropped = Step(y, Ok, <<>>)
    BY <1>3, <2>1
  <2>3. dropped.err = Ok /\ dropped.r = y
    <3> HIDE DEF dropped
    <3> QED BY <2>2 DEF Step
  <2>4. DropOldest(r) = IF dropped.err # Ok THEN dropped
                        ELSE Step(Skipped(dropped.r), Ok, <<<<f.m, "dropped">>>>)
    BY <1>2, <1>5 DEF DropOldest, f, n, Ok
  <2> HIDE DEF dropped
  <2> DEFINE x == Skipped(y)
  <2>5. DropOldest(r) = Step(x, Ok, <<<<m, "dropped">>>>)
    BY <1>2, <2>3, <2>4
  <2>6. y \in RingSet /\ NextSeq(y.expected) = m % Width /\ m % Width \in Nat
    <3>1. y \in RingSet /\ y.expected = (m - 1) % Width
      BY <2>1 DEF Linked, SameNumbers
    <3>2. m - 1 \in Nat /\ m - 1 + 1 = m
      BY <1>2
    <3>3. (((m - 1) % Width) + 1) % Width = m % Width /\ m % Width \in 0 .. Width - 1
      BY <3>2, Sizes, NextSlot, LapAndSlot
    <3> QED BY <3>1, <3>3 DEF NextSeq
  <2>7. /\ x \in RingSet /\ x.expected = m % Width /\ x.next = y.next /\ x.closed = y.closed
        /\ x.slot = y.slot /\ x.head = y.head /\ x.tail = y.tail /\ x.len = y.len
    BY <2>6 DEF Skipped, RingSet
  <2> HIDE DEF x
  <2>8. Linked(x, acc, sp, <<m + 1, 0>>, <<M, 0>>)
    BY <2>1, <2>7, Renumber
  <2> QED BY <1>2, <1>3, <2>1, <2>5, <2>7, <2>8 DEF SameNumbers, N, Drops
<1> QED BY <1>4, <1>5

-----------------------------------------------------------------------------
(* Making room *)

Fates == Nat \X {"dropped", "lost", "received"}
Answers == {Ok, "full", "skip", "corrupted"}
StepSet == [r : RingSet, err : Answers, out : Seq(Fates)]

LEMMA OkIsNoError == Ok \notin {"full", "skip", "corrupted", "closed", "too large", "empty", "mismatch", "not committed"}
BY Zenon DEF Ok

LEMMA StepFields ==
  ASSUME NEW x, NEW err, NEW out
  PROVE  /\ Step(x, err, out).r = x /\ Step(x, err, out).err = err /\ Step(x, err, out).out = out
         /\ x \in RingSet /\ err \in Answers /\ out \in Seq(Fates) => Step(x, err, out) \in StepSet
BY DEF Step, StepSet

Room(x, n) == Slots - x.len >= n

\* y is what ring r is after messages m, m + 1, .. were dropped for n slots.
Evicted(y, r, n, m, e, acc, sp) ==
  LET d == Len(y.out)
  IN /\ y \in StepSet
     /\ \A j \in 1 .. d : y.out[j] = <<m + j - 1, "dropped">>
     /\ Linked(y.r, acc, sp, <<m + d, 0>>, e)
     /\ y.r.next = r.next /\ y.r.closed = r.closed /\ y.r.expected = (m + d - 1) % Width
     /\ y.err \in {Ok, "corrupted"}
     /\ y.err = "corrupted" => \E w : <<w, "header">> \in sp
     /\ d # 0 => /\ m + d - 1 \in 1 .. Len(acc)
                 /\ Slots - n < y.r.len + Needed(acc[m + d - 1])
     /\ d = 0 => y.r = r

\* One turn of prepare_send_slots' loop.
LEMMA EvictsOne ==
  ASSUME NEW acc, NEW sp, NEW m \in Nat \ {0}, NEW M, NEW r, NEW n \in 1 .. Slots,
         NEW y, Evicted(y, r, n, m, <<M, 0>>, acc, sp), y.err = Ok, ~Room(y.r, n),
         NEW z, z = DropOldest(y.r)
  PROVE  /\ Evicted(Step(z.r, z.err, y.out \o z.out), r, n, m, <<M, 0>>, acc, sp)
         /\ z.err = Ok => z.r.len < y.r.len
<1> DEFINE d == Len(y.out)
           e == <<M, 0>>
           x == y.r
           k == m + d
<1>1. /\ y \in StepSet /\ y.out \in Seq(Fates) /\ d \in Nat /\ x \in RingSet
      /\ k \in Nat \ {0} /\ m + d - 1 = k - 1 /\ x.len \in Nat
  BY Fields DEF Evicted, StepSet
<1>2. Linked(x, acc, sp, <<k, 0>>, e) /\ x.expected = (k - 1) % Width
  BY <1>1 DEF Evicted
<1>3. x.len # 0
  <2>1. Slots \in Nat /\ ~(Slots - x.len >= n)
    BY Sizes DEF Room
  <2> QED BY <1>1, <2>1
<1> HIDE DEF k, x
<1>4. /\ k \in 1 .. Len(acc) /\ Needed(acc[k]) \in Nat \ {0}
      /\ Drops(DropOldest(x), x, k, e, acc, sp)
  <2>1. x.len # 0 /\ k \in Nat /\ Linked(x, acc, sp, <<k, 0>>, <<M, 0>>) /\ x.expected = (k - 1) % Width
    BY <1>1, <1>2, <1>3
  <2> QED BY <2>1, DropsOne
<1>5. CASE DropOldest(x) = Step(x, "corrupted", <<>>) /\ <<k, "header">> \in sp
  <2> DEFINE w == Step(z.r, z.err, y.out \o z.out)
  <2>1. z.r = x /\ z.err = "corrupted" /\ z.out = <<>>
    BY <1>5, StepFields DEF x
  <2>2. y.out \o <<>> = y.out
    BY <1>1
  <2>3. w = Step(x, "corrupted", y.out)
    BY <2>1, <2>2
  <2>4. w.r = x /\ w.err = "corrupted" /\ w.out = y.out /\ w \in StepSet
    BY <1>1, <2>3, StepFields DEF Answers
  <2> HIDE DEF w
  <2>5. Evicted(w, r, n, m, e, acc, sp)
    <3>1. \E u : <<u, "header">> \in sp
      BY <1>5
    <3> QED BY <2>4, <3>1 DEF Evicted, x
  <2> QED BY <2>1, <2>5, OkIsNoError DEF w
<1>6. ASSUME NEW v, DropOldest(x) = Step(v, Ok, <<<<k, "dropped">>>>),
             Linked(v, acc, sp, <<k + 1, 0>>, <<M, 0>>),
             v.len = x.len - Needed(acc[k]),
             v.next = x.next, v.closed = x.closed, v.expected = k % Width
      PROVE  /\ Evicted(Step(z.r, z.err, y.out \o z.out), r, n, m, e, acc, sp)
             /\ z.r.len < y.r.len
  <2> DEFINE o == y.out \o <<<<k, "dropped">>>>
             w == Step(z.r, z.err, y.out \o z.out)
  <2>1. z.r = v /\ z.err = Ok /\ z.out = <<<<k, "dropped">>>>
    BY <1>6, StepFields DEF x
  <2>2. /\ o \in Seq(Fates) /\ Len(o) = d + 1 /\ o[d + 1] = <<k, "dropped">>
        /\ \A j \in 1 .. d : o[j] = y.out[j]
    <3>1. <<k, "dropped">> \in Fates
      BY <1>1 DEF Fates
    <3> DEFINE c == <<k, "dropped">>
    <3> HIDE DEF c
    <3>2. c \in Fates /\ y.out \in Seq(Fates) /\ d = Len(y.out)
      BY <1>1, <3>1 DEF c
    <3>3. /\ y.out \o <<c>> \in Seq(Fates) /\ Len(y.out \o <<c>>) = d + 1 /\ (y.out \o <<c>>)[d + 1] = c
          /\ \A j \in 1 .. d : (y.out \o <<c>>)[j] = y.out[j]
      BY <3>2
    <3> QED BY <3>3 DEF c
  <2> HIDE DEF o
  <2>3. w = Step(v, Ok, o)
    BY <2>1 DEF o
  <2>4. w.r = v /\ w.err = Ok /\ w.out = o /\ w \in StepSet
    BY <1>6, <2>2, <2>3, StepFields DEF Linked, Answers
  <2> HIDE DEF w, d
  <2>5. \A j \in 1 .. d + 1 : o[j] = <<m + j - 1, "dropped">>
    <3> SUFFICES ASSUME NEW j \in 1 .. d + 1 PROVE o[j] = <<m + j - 1, "dropped">>
      OBVIOUS
    <3>1. CASE j = d + 1
      <4>1. m + j - 1 = k
        BY <1>1, <3>1 DEF k
      <4> QED BY <2>2, <3>1, <4>1
    <3>2. CASE j # d + 1
      <4>1. j \in 1 .. d
        BY <1>1, <3>2
      <4> QED BY <2>2, <4>1 DEF Evicted, d
    <3> QED BY <3>1, <3>2
  <2>6. m + (d + 1) = k + 1 /\ m + (d + 1) - 1 = k /\ d + 1 # 0
    BY <1>1 DEF k
  <2>7. Slots - n < v.len + Needed(acc[k])
    <3>1. v.len \in Nat /\ v.len + Needed(acc[k]) = x.len
      BY <1>1, <1>4, <1>6, Fields DEF Linked
    <3>2. ~(Slots - x.len >= n)
      BY DEF Room, x
    <3> QED BY <1>1, <3>1, <3>2, Sizes
  <2>8. x.next = r.next /\ x.closed = r.closed
    BY DEF Evicted, x
  <2>9. Evicted(w, r, n, m, e, acc, sp)
    BY <1>4, <1>6, <2>2, <2>4, <2>5, <2>6, <2>7, <2>8 DEF Evicted
  <2>10. z.r.len < y.r.len
    BY <1>1, <1>4, <1>6, <2>1 DEF x
  <2> QED BY <2>9, <2>10 DEF w
<1> QED BY <1>4, <1>5, <1>6, StepFields DEF x, Drops

\* prepare_send_slots' loop: there is room, or a message cannot be dropped.
LEMMA EvictsEnough ==
  ASSUME NEW acc, NEW sp, NEW m \in Nat \ {0}, NEW M, NEW r, NEW n \in 1 .. Slots,
         Linked(r, acc, sp, <<m, 0>>, <<M, 0>>), r.expected = (m - 1) % Width
  PROVE  LET Do(x, i) == IF Slots - x.len >= n THEN Step(x, Ok, <<>>) ELSE DropOldest(x)
             y == Loop(Slots, r, Do)
         IN /\ Evicted(y, r, n, m, <<M, 0>>, acc, sp)
            /\ y.err = Ok => Room(y.r, n)
<1> DEFINE N == Slots
           e == <<M, 0>>
           Do(x, i) == IF Slots - x.len >= n THEN Step(x, Ok, <<>>) ELSE DropOldest(x)
           H(i, y) == While(y, LAMBDA x : Do(x, i))
           Good(y, i) == /\ Evicted(y, r, n, m, e, acc, sp)
                         /\ y.err = Ok => Room(y.r, n) \/ y.r.len <= Slots - i
           I == [i \in 0 .. N |-> {y \in StepSet : Good(y, i)}]
           G == [i \in 1 .. N |-> [y \in StepSet |-> H(i, y)]]
           init == Step(r, Ok, <<>>)
<1>1. N \in Nat \ {0} /\ Slots \in Nat /\ n <= Slots /\ n \in Nat \ {0}
  BY Sizes
<1>2. r \in RingSet /\ r.len \in Nat /\ r.len <= Slots
  BY Fields DEF Linked
<1> HIDE DEF N, e, Do, H, Good, I, G, init
<1>3. \A i, y : H(i, y) = IF y.err # Ok THEN y
                          ELSE Step(Do(y.r, i).r, Do(y.r, i).err, y.out \o Do(y.r, i).out)
  BY DEF H, While, Ok
<1>4. ASSUME NEW i \in 1 .. N, NEW y, Good(y, i - 1)
      PROVE  Good(H(i, y), i)
  <2>1. i \in Nat /\ i <= Slots /\ Slots - (i - 1) = Slots - i + 1 /\ i - 1 \in Nat
    BY <1>1 DEF N
  <2>2. /\ Evicted(y, r, n, m, e, acc, sp)
        /\ y.err = Ok => Room(y.r, n) \/ y.r.len <= Slots - (i - 1)
        /\ y.out \in Seq(Fates) /\ y \in StepSet /\ y.r \in RingSet
    BY <1>4 DEF Good, Evicted, StepSet
  <2>3. CASE y.err # Ok
    <3>1. H(i, y) = y
      BY <1>3, <2>3
    <3> QED BY <2>2, <2>3, <3>1 DEF Good
  <2>4. CASE y.err = Ok /\ Room(y.r, n)
    <3>1. Do(y.r, i) = Step(y.r, Ok, <<>>)
      BY <2>4 DEF Do, Room
    <3>2. y.out \o <<>> = y.out
      BY <2>2
    <3>3. H(i, y) = Step(y.r, Ok, y.out)
      <4> DEFINE a == Do(y.r, i)
      <4>1. H(i, y) = Step(a.r, a.err, y.out \o a.out)
        BY <1>3, <2>4
      <4>2. a.r = y.r /\ a.err = Ok /\ a.out = <<>>
        BY <3>1, StepFields
      <4> HIDE DEF a
      <4> QED BY <3>2, <4>1, <4>2
    <3>4. Step(y.r, Ok, y.out) = y
      BY <2>2, <2>4 DEF StepSet, Step
    <3> QED BY <2>2, <2>4, <3>3, <3>4 DEF Good
  <2>5. CASE y.err = Ok /\ ~Room(y.r, n)
    <3> DEFINE z == DropOldest(y.r)
               w == Step(z.r, z.err, y.out \o z.out)
    <3>1. Do(y.r, i) = z
      BY <2>5 DEF Do, Room
    <3>2. H(i, y) = w
      BY <1>3, <2>5, <3>1
    <3> HIDE DEF z
    <3>4. /\ Evicted(w, r, n, m, e, acc, sp)
          /\ z.err = Ok => z.r.len < y.r.len
      <4>1. z = DropOldest(y.r)
        BY DEF z
      <4>2. Evicted(y, r, n, m, <<M, 0>>, acc, sp) /\ y.err = Ok /\ ~Room(y.r, n)
        BY <2>2, <2>5 DEF e
      <4> QED BY <4>1, <4>2, EvictsOne DEF e
    <3>5. w.r = z.r /\ w.err = z.err
      BY StepFields
    <3> HIDE DEF w
    <3>6. w.err = Ok => w.r.len <= Slots - i
      <4>1. w.r.len \in Nat /\ y.r.len \in Nat
        BY <2>2, <3>4, Fields DEF Evicted, Linked
      <4>2. y.r.len <= Slots - i + 1
        BY <2>1, <2>2, <2>5
      <4> QED BY <1>1, <2>1, <3>4, <3>5, <4>1, <4>2
    <3> QED BY <3>2, <3>4, <3>6 DEF Good
  <2> QED BY <2>3, <2>4, <2>5
<1>5. \A y, i : Good(y, i) => y \in StepSet
  BY DEF Good, Evicted
<1>6. \A i \in 1 .. N : \A y \in I[i - 1] : y \in StepSet /\ H(i, y) \in I[i]
  <2> SUFFICES ASSUME NEW i \in 1 .. N, NEW y \in I[i - 1] PROVE y \in StepSet /\ H(i, y) \in I[i]
    OBVIOUS
  <2>1. i - 1 \in 0 .. N /\ i \in 0 .. N
    BY <1>1
  <2>2. Good(y, i - 1)
    BY <2>1 DEF I
  <2>3. Good(H(i, y), i)
    BY <1>4, <2>2
  <2> QED BY <1>5, <2>1, <2>2, <2>3 DEF I
<1>7. init \in I[0]
  <2>1. 0 \in 0 .. N /\ Slots - 0 = Slots
    BY <1>1
  <2>2. init.r = r /\ init.err = Ok /\ init.out = <<>> /\ init \in StepSet
    <3> DEFINE o == <<>>
    <3>1. Ok \in Answers /\ o \in Seq(Fates)
      BY DEF Answers
    <3>2. init = Step(r, Ok, o)
      BY DEF init
    <3> HIDE DEF o
    <3>3. Step(r, Ok, o) \in StepSet /\ Step(r, Ok, o).r = r /\ Step(r, Ok, o).err = Ok /\ Step(r, Ok, o).out = o
      BY <1>2, <3>1, StepFields
    <3> QED BY <3>2, <3>3 DEF o
  <2>3. Evicted(init, r, n, m, e, acc, sp)
    <3>1. m + Len(init.out) = m /\ Len(init.out) = 0 /\ 1 .. Len(init.out) = {}
      BY <2>2
    <3>2. init.err \in {Ok, "corrupted"} /\ init.err # "corrupted"
      BY <2>2, OkIsNoError
    <3>3. Linked(init.r, acc, sp, <<m + Len(init.out), 0>>, e) /\ init.r.expected = (m + Len(init.out) - 1) % Width
      BY <2>2, <3>1 DEF e
    <3> QED BY <2>2, <3>1, <3>2, <3>3 DEF Evicted
  <2>4. Good(init, 0)
    BY <1>2, <2>1, <2>2, <2>3 DEF Good
  <2> QED BY <2>1, <2>2, <2>4 DEF I
<1>8. \E f : f = [i \in 0 .. N |-> IF i = 0 THEN init ELSE H(i, f[i - 1])]
  <2>1. \A i \in 1 .. N : \A y \in I[i - 1] : G[i][y] = H(i, y) /\ G[i][y] \in I[i]
    BY <1>6 DEF G
  <2>2. PICK f : Stays(f, N, init, G, I)
    BY <1>1, <1>7, <2>1, LoopStays
  <2>3. \A i \in 1 .. N : f[i] = H(i, f[i - 1])
    BY <2>1, <2>2 DEF Stays
  <2>4. \A i \in 0 .. N : i # 0 => i \in 1 .. N
    BY <1>1
  <2>5. \A i \in 0 .. N : f[i] = IF i = 0 THEN init ELSE H(i, f[i - 1])
    BY <2>2, <2>3, <2>4 DEF Stays
  <2>6. f = [i \in 0 .. N |-> f[i]]
    BY <2>2 DEF Stays
  <2>7. f = [i \in 0 .. N |-> IF i = 0 THEN init ELSE H(i, f[i - 1])]
    BY <2>5, <2>6
  <2> QED BY <2>7
<1>9. PICK g : /\ g = [i \in 0 .. N |-> IF i = 0 THEN init ELSE H(i, g[i - 1])]
               /\ Loop(N, r, Do) = g[N]
  BY <1>8 DEF Loop, H, init, Ok
<1>10. g[N] \in I[N]
  <2>1. \A i \in 0 .. N : g[i] = IF i = 0 THEN init ELSE H(i, g[i - 1])
    BY <1>9
  <2>2. g[0] \in I[0]
    BY <1>1, <1>7, <2>1
  <2>3. \A i \in 1 .. N : g[i - 1] \in I[i - 1] => g[i] \in I[i]
    BY <1>1, <1>6, <2>1
  <2>4. N \in 0 .. N
    BY <1>1
  <2> QED BY <1>1, <2>2, <2>3, <2>4, LoopKeeps
<1>11. Good(g[N], N)
  <2>1. N \in 0 .. N
    BY <1>1
  <2> QED BY <1>10, <2>1 DEF I
<1> DEFINE y == Loop(N, r, Do)
<1>12. y.err = Ok => Room(y.r, n) \/ y.r.len <= Slots - N
  BY <1>9, <1>11 DEF Good
<1>13. Evicted(y, r, n, m, e, acc, sp)
  BY <1>9, <1>11 DEF Good
<1> HIDE DEF y
<1>14. y.err = Ok => Room(y.r, n)
  <2>1. y.r.len \in Nat
    BY <1>13, Fields DEF Evicted, Linked
  <2>2. Slots - N = 0
    BY <1>1 DEF N
  <2>3. y.r.len <= 0 => Slots - y.r.len >= n
    BY <1>1, <2>1
  <2> QED BY <1>12, <1>13, <2>2, <2>3 DEF Room
<1> QED BY <1>13, <1>14 DEF y, N, Do, e

\* prepare_send_slots: there is room, or what the policy does when there is none.
Prepared(y, r, n, m, e, acc, sp) ==
  \/ Room(r, n) /\ y = Step(r, Ok, <<>>)
  \/ ~Room(r, n) /\ policy = "Raise" /\ y = Step(r, "full", <<>>)
  \/ ~Room(r, n) /\ policy = "DropNewest" /\ y = Step(r, "skip", <<>>)
  \/ /\ ~Room(r, n) /\ policy \notin {"Raise", "DropNewest"}
     /\ Evicted(y, r, n, m, e, acc, sp)
     /\ y.err = Ok => Room(y.r, n)

LEMMA Prepares ==
  ASSUME NEW acc, NEW sp, NEW m \in Nat \ {0}, NEW M, NEW r, NEW n \in 1 .. Slots,
         Linked(r, acc, sp, <<m, 0>>, <<M, 0>>), r.expected = (m - 1) % Width
  PROVE  Prepared(Prepare(r, n), r, n, m, <<M, 0>>, acc, sp)
<1> DEFINE Do(x, i) == IF Slots - x.len >= n THEN Step(x, Ok, <<>>) ELSE DropOldest(x)
           y == Loop(Slots, r, Do)
           e == <<M, 0>>
<1>1. /\ Evicted(y, r, n, m, e, acc, sp)
      /\ y.err = Ok => Room(y.r, n)
  BY EvictsEnough
<1>2. CASE Slots - r.len >= n
  <2>1. Prepare(r, n) = Step(r, Ok, <<>>)
    BY <1>2 DEF Prepare, Ok
  <2> QED BY <1>2, <2>1 DEF Prepared, Room
<1>3. CASE ~(Slots - r.len >= n) /\ policy = "Raise"
  <2>1. Prepare(r, n) = Step(r, "full", <<>>)
    BY <1>3 DEF Prepare
  <2> QED BY <1>3, <2>1 DEF Prepared, Room
<1>4. CASE ~(Slots - r.len >= n) /\ policy = "DropNewest"
  <2>1. Prepare(r, n) = Step(r, "skip", <<>>)
    BY <1>4 DEF Prepare
  <2> QED BY <1>4, <2>1 DEF Prepared, Room
<1>5. CASE ~(Slots - r.len >= n) /\ policy \notin {"Raise", "DropNewest"}
  <2>1. Prepare(r, n) = y
    BY <1>5 DEF Prepare, Ok
  <2> HIDE DEF y, e
  <2> QED BY <1>1, <1>5, <2>1 DEF Prepared, Room, e
<1> QED BY <1>2, <1>3, <1>4, <1>5

-----------------------------------------------------------------------------
(* The window between two calls *)

\* What left is accounted for, in order; the ring holds the rest.
Kept ==
  /\ gone \in Seq(Fates)
  /\ \A i \in 1 .. Len(gone) : gone[i][1] = i /\ (gone[i][2] = "lost" => \E f \in spoiled : f[1] = i)
  /\ Linked(ring, accepted, spoiled, <<Len(gone) + 1, 0>>, <<Len(accepted) + 1, 0>>)
  /\ ring.expected = Len(gone) % Width /\ ring.next = Len(accepted) % Width
  /\ \A f \in spoiled : /\ f \in Nat \X {"payload", "header"}
                        /\ f[1] \in 1 .. Len(accepted) /\ Needed(accepted[f[1]]) = 1

\* A call to send: what it returns.
Sends(y, n) ==
  LET m == Len(gone) + 1
      e == <<Len(accepted) + 1, 0>>
      p == Prepare(ring, Needed(n))
  IN \/ ring.closed /\ y = Step(ring, "closed", <<>>)
     \/ ~ring.closed /\ Needed(n) = 0 /\ y = Step(ring, "too large", <<>>)
     \/ /\ ~ring.closed /\ Needed(n) # 0
        /\ Prepared(p, ring, Needed(n), m, e, accepted, spoiled)
        /\ p.err # Ok => y = p
        /\ p.err = Ok => \E x : /\ y = Step(x, Ok, p.out)
                                /\ Linked(x, Append(accepted, n), spoiled,
                                          <<m + Len(p.out), 0>>, <<Len(accepted) + 2, 0>>)
                                /\ x.next = (Len(accepted) + 1) % Width
                                /\ x.expected = p.r.expected /\ x.closed = p.r.closed

Cleared(y, r, n, m, e, acc, sp) ==
  /\ Linked(y.r, acc, sp, <<m + Len(y.out), 0>>, e)
  /\ y.r.next = r.next /\ y.r.closed = r.closed
  /\ y.out \in Seq(Fates) /\ Len(y.out) \in Nat
  /\ \A j \in 1 .. Len(y.out) : y.out[j] = <<m + j - 1, "dropped">>
  /\ y.r.expected = (m + Len(y.out) - 1) % Width
  /\ y.err = Ok => Room(y.r, n)

\* However the slots were prepared, a window starts at m + what was dropped.
LEMMA AfterPreparing ==
  ASSUME NEW acc, NEW sp, NEW m \in Nat \ {0}, NEW M, NEW r, NEW n \in 1 .. Slots,
         Linked(r, acc, sp, <<m, 0>>, <<M, 0>>), r.expected = (m - 1) % Width,
         NEW y, Prepared(y, r, n, m, <<M, 0>>, acc, sp)
  PROVE  Cleared(y, r, n, m, <<M, 0>>, acc, sp)
<1> DEFINE e == <<M, 0>>
<1>1. ASSUME NEW err, y = Step(r, err, <<>>), err = Ok => Room(r, n)
      PROVE  Cleared(y, r, n, m, e, acc, sp)
  <2>1. y.r = r /\ y.err = err /\ y.out = <<>>
    BY <1>1 DEF Step
  <2>2. y.out \in Seq(Fates) /\ Len(y.out) = 0 /\ m + Len(y.out) = m /\ 1 .. Len(y.out) = {}
    BY <2>1
  <2>3. Linked(y.r, acc, sp, <<m + Len(y.out), 0>>, e)
    BY <2>1, <2>2
  <2>4. y.r.expected = (m + Len(y.out) - 1) % Width
    BY <2>1, <2>2
  <2>5. \A j \in 1 .. Len(y.out) : y.out[j] = <<m + j - 1, "dropped">>
    <3> HIDE DEF e
    <3> QED BY <2>2
  <2> HIDE DEF e
  <2>6. Len(y.out) \in Nat
    BY <2>2
  <2>7. y.err = Ok => Room(y.r, n)
    BY <1>1, <2>1
  <2> QED BY <2>1, <2>2, <2>3, <2>4, <2>5, <2>6, <2>7 DEF Cleared
<1>2. CASE Evicted(y, r, n, m, e, acc, sp) /\ (y.err = Ok => Room(y.r, n))
  <2>1. y.out \in Seq(Fates) /\ Len(y.out) \in Nat
    BY <1>2 DEF Evicted, StepSet
  <2> QED BY <1>2, <2>1 DEF Evicted, Cleared
<1> QED BY <1>1, <1>2, OkIsNoError DEF Prepared

LEMMA CountedNext ==
  ASSUME NEW n \in Nat
  PROVE  NextSeq(n % Width) = (n + 1) % Width /\ n % Width \in Nat /\ (n + 1) % Width \in Nat
<1>1. n + 1 \in Nat /\ Width \in Nat \ {0}
  BY Sizes
<1>2. n % Width \in 0 .. Width - 1 /\ (n + 1) % Width \in 0 .. Width - 1
  BY <1>1, LapAndSlot
<1>3. ((n % Width) + 1) % Width = (n + 1) % Width
  BY <1>1, NextSlot
<1> QED BY <1>2, <1>3 DEF NextSeq

LEMMA SendIs ==
  ASSUME Kept, accepted \in Seq(Nat), NEW n \in Nat
  PROVE  Sends(RingSend(n), n)
<1> DEFINE m == Len(gone) + 1
           e == <<Len(accepted) + 1, 0>>
           N == Needed(n)
           p == Prepare(ring, N)
           Fill(r) == Filled([r EXCEPT !.next = NextSeq(@)], Len(accepted) + 1, n, r.next)
           y == RingSend(n)
<1>1. CASE ring.closed
  <2>1. y = Step(ring, "closed", <<>>)
    BY <1>1 DEF RingSend
  <2> QED BY <1>1, <2>1 DEF Sends
<1>2. CASE ~ring.closed /\ N = 0
  <2>1. y = Step(ring, "too large", <<>>)
    BY <1>2 DEF RingSend
  <2> QED BY <1>2, <2>1 DEF Sends
<1>3. CASE ~ring.closed /\ N # 0
  <2>1. /\ m \in Nat \ {0} /\ m - 1 = Len(gone) /\ N \in 1 .. Slots
        /\ Linked(ring, accepted, spoiled, <<m, 0>>, <<Len(accepted) + 1, 0>>)
        /\ ring.expected = (m - 1) % Width /\ ring.next = Len(accepted) % Width
    <3>1. Len(gone) \in Nat
      BY DEF Kept
    <3>2. N \in 1 .. Slots
      BY <1>3, NeededSlots, Sizes
    <3>3. m \in Nat \ {0} /\ m - 1 = Len(gone)
      BY <3>1
    <3> HIDE DEF N, m
    <3>4. Linked(ring, accepted, spoiled, <<m, 0>>, <<Len(accepted) + 1, 0>>)
      BY DEF Kept, m
    <3>5. ring.expected = (m - 1) % Width /\ ring.next = Len(accepted) % Width
      BY <3>3 DEF Kept
    <3> QED BY <3>2, <3>3, <3>4, <3>5
  <2> HIDE DEF m, N
  <2>2. Prepared(p, ring, N, m, <<Len(accepted) + 1, 0>>, accepted, spoiled)
    BY <2>1, Prepares
  <2>3. y = IF p.err # Ok THEN p ELSE Step(Fill(p.r).r, Fill(p.r).err, p.out \o Fill(p.r).out)
    BY <1>3 DEF RingSend, While, N, Ok, Filled
  <2>4. CASE p.err # Ok
    BY <1>3, <2>2, <2>3, <2>4 DEF Sends, m, N
  <2>5. CASE p.err = Ok
    <3> DEFINE a == p.r
               q == a.next
               b == [a EXCEPT !.next = NextSeq(@)]
               k == m + Len(p.out)
    <3> HIDE DEF p
    <3>1. /\ Linked(a, accepted, spoiled, <<k, 0>>, <<Len(accepted) + 1, 0>>)
          /\ q = Len(accepted) % Width /\ a.closed = ring.closed /\ Room(a, N)
          /\ p.out \in Seq(Fates) /\ Len(accepted) \in Nat
      <4> DEFINE M == Len(accepted) + 1
      <4>1. /\ m \in Nat \ {0} /\ N \in 1 .. Slots
            /\ Linked(ring, accepted, spoiled, <<m, 0>>, <<M, 0>>) /\ ring.expected = (m - 1) % Width
            /\ Prepared(p, ring, N, m, <<M, 0>>, accepted, spoiled)
        BY <2>1, <2>2
      <4> HIDE DEF M
      <4>2. Cleared(p, ring, N, m, <<M, 0>>, accepted, spoiled)
        BY <4>1, AfterPreparing
      <4> QED BY <2>1, <2>5, <4>2 DEF M, Cleared
    <3>2. a \in RingSet /\ q \in Nat /\ NextSeq(q) = (Len(accepted) + 1) % Width /\ NextSeq(q) \in Nat
      BY <3>1, CountedNext DEF Linked
    <3>3. /\ b \in RingSet /\ b.slot = a.slot /\ b.head = a.head /\ b.tail = a.tail /\ b.len = a.len
          /\ b.next = NextSeq(q) /\ b.expected = a.expected /\ b.closed = a.closed
      BY <3>2 DEF RingSet
    <3> HIDE DEF a, b, q, k
    <3>4. Linked(b, accepted, spoiled, <<k, 0>>, <<Len(accepted) + 1, 0>>)
      BY <3>1, <3>3, Renumber
    <3>5. \A w : <<Len(accepted) + 1, w>> \notin spoiled
      <4> SUFFICES ASSUME NEW w, <<Len(accepted) + 1, w>> \in spoiled PROVE FALSE
        OBVIOUS
      <4> DEFINE f == <<Len(accepted) + 1, w>>
      <4>1. f[1] = Len(accepted) + 1
        OBVIOUS
      <4>2. f[1] \in 1 .. Len(accepted)
        BY DEF Kept
      <4> QED BY <3>1, <4>1, <4>2
    <3>6. b.len + N <= Slots
      <4>1. a.len \in Nat
        BY <3>2, Fields
      <4> QED BY <2>1, <3>1, <3>3, <4>1, Sizes DEF Room
    <3>7. PICK x : /\ Filled(b, Len(accepted) + 1, n, q) = Step(x, Ok, <<>>)
                   /\ Linked(x, Append(accepted, n), spoiled, <<k, 0>>, <<Len(accepted) + 2, 0>>)
                   /\ SameNumbers(x, b)
      <4> DEFINE s == <<k, 0>>
      <4>1. Linked(b, accepted, spoiled, s, <<Len(accepted) + 1, 0>>)
        BY <3>4
      <4>2. Needed(n) # 0 /\ b.len + Needed(n) <= Slots /\ q = Len(accepted) % Width
        BY <1>3, <3>1, <3>6 DEF N
      <4> HIDE DEF s
      <4>3. Wrote(Filled(b, Len(accepted) + 1, n, q), b, accepted, n, spoiled, s)
        BY <3>5, <4>1, <4>2, WritesAll
      <4> QED BY <4>3 DEF s, Wrote
    <3>8. Fill(a) = Step(x, Ok, <<>>)
      BY <3>7 DEF b, q
    <3> HIDE DEF Fill
    <3>9. y = Step(x, Ok, p.out)
      <4> DEFINE s == Fill(a)
      <4>1. s.r = x /\ s.err = Ok /\ s.out = <<>>
        BY <3>8, StepFields
      <4>2. y = Step(s.r, s.err, p.out \o s.out)
        BY <2>3, <2>5 DEF a
      <4> HIDE DEF s, y
      <4>3. p.out \o <<>> = p.out
        BY <3>1
      <4> QED BY <4>1, <4>2, <4>3
    <3> HIDE DEF y
    <3>10. x.next = (Len(accepted) + 1) % Width /\ x.expected = a.expected /\ x.closed = a.closed
      BY <3>2, <3>3, <3>7 DEF SameNumbers
    <3>11. \E v : /\ y = Step(v, Ok, p.out)
                  /\ Linked(v, Append(accepted, n), spoiled, <<m + Len(p.out), 0>>, <<Len(accepted) + 2, 0>>)
                  /\ v.next = (Len(accepted) + 1) % Width
                  /\ v.expected = p.r.expected /\ v.closed = p.r.closed
      BY <3>7, <3>9, <3>10 DEF a, k
    <3>12. /\ ~ring.closed /\ N # 0
           /\ Prepared(p, ring, N, m, <<Len(accepted) + 1, 0>>, accepted, spoiled)
           /\ p.err = Ok
      BY <1>3, <2>2, <2>5
    <3>13. Sends(y, n)
      BY <3>11, <3>12, Zenon DEF Sends, m, N, p
    <3> QED BY <3>13 DEF y
  <2> QED BY <2>4, <2>5
<1> QED BY <1>1, <1>2, <1>3

-----------------------------------------------------------------------------
(* Receiving *)

ChunkSteps == [r : RingSet, err : {Ok}, out : Seq(FrameSet)]

LEMMA ChunkStep ==
  ASSUME NEW x \in RingSet, NEW out \in Seq(FrameSet)
  PROVE  Step(x, Ok, out) \in ChunkSteps
BY DEF Step, ChunkSteps

\* recv_chunked_message's loop, past the first chunk.
Arriving(r, first) ==
  Loop(first.frame.total - 1, r, LAMBDA x, i : NextChunk(x, first, i))

\* Chunks 1 to n of message m have arrived; the ring goes on after them.
Arrived(y, r, acc, sp, m, e, n) ==
  /\ y \in ChunkSteps
  /\ Linked(y.r, acc, sp, From(acc, m, n + 1), e)
  /\ SameNumbers(y.r, r)
  /\ Len(y.out) = n
  /\ \A j \in 1 .. n : IsFrame(y.out[j], acc, sp, <<m, j>>)

\* A sound chunk is the one expected, and leaves.
LEMMA ChunkArrives ==
  ASSUME NEW acc, NEW sp, NEW m \in Nat \ {0}, NEW M, NEW i \in 1 .. Needed(acc[m]) - 1,
         Needed(acc[m]) \in Nat,
         \A w : <<m, w>> \notin sp,
         NEW x, Linked(x, acc, sp, From(acc, m, i), <<M, 0>>),
         NEW first, first.seq = (m - 1) % Width, first.frame.total = Needed(acc[m])
  PROVE  LET s == Tail1(x)
         IN /\ NextChunk(x, first, i) = Step(Advanced(x), Ok, <<s.frame>>)
            /\ Linked(Advanced(x), acc, sp, From(acc, m, i + 1), <<M, 0>>)
            /\ SameNumbers(Advanced(x), x)
            /\ IsFrame(s.frame, acc, sp, <<m, i>>)
<1> DEFINE N == Needed(acc[m])
           s == Tail1(x)
           k == i + 1
<1>1. k \in 1 .. N /\ k - 1 = i /\ k # 1
  OBVIOUS
<1>2. Linked(x, acc, sp, From(acc, m, k - 1), <<M, 0>>)
  BY <1>1
<1> HIDE DEF k
<1>3. /\ Stored(s, acc, sp, <<m, k - 1>>)
      /\ Linked(Advanced(x), acc, sp, From(acc, m, k), <<M, 0>>)
      /\ SameNumbers(Advanced(x), x)
  <2> DEFINE e == <<M, 0>>
  <2>1. k = 1 => x.len # 0
    BY <1>1
  <2>2. Linked(x, acc, sp, From(acc, m, k - 1), e) /\ k \in 1 .. Needed(acc[m]) /\ e = <<M, 0>>
    BY <1>1, <1>2
  <2> HIDE DEF e
  <2>3. /\ Stored(Tail1(x), acc, sp, <<m, k - 1>>)
        /\ Linked(Advanced(x), acc, sp, From(acc, m, k), e)
        /\ SameNumbers(Advanced(x), x)
    BY <2>1, <2>2, NextOut
  <2> QED BY <2>3 DEF e
<1>4. /\ s.state = "COMMITTED" /\ s.seq = (m - 1) % Width
      /\ IsFrame(s.frame, acc, sp, <<m, i>>)
  BY <1>1, <1>3 DEF Stored
<1>5. /\ s.frame \in FrameSet /\ s.frame.index = i /\ s.frame.total = N
      /\ s.frame.bad \notin {"payload", "header"}
  BY <1>4 DEF IsFrame
<1>6. s.frame.bad = "no"
  BY <1>5 DEF FrameSet
<1>7. NextChunk(x, first, i) = Step(Advanced(x), Ok, <<s.frame>>)
  <2>1. Valid(s.frame)
    BY <1>6 DEF Valid
  <2> QED BY <1>4, <1>5, <2>1 DEF NextChunk, Ok
<1> QED BY <1>1, <1>3, <1>4, <1>7 DEF k

LEMMA RestArrives ==
  ASSUME NEW acc, NEW sp, NEW m \in Nat \ {0}, NEW M,
         Needed(acc[m]) \in Nat, Needed(acc[m]) > 1,
         \A w : <<m, w>> \notin sp,
         NEW r, Linked(r, acc, sp, <<m, 1>>, <<M, 0>>),
         NEW first, first.seq = (m - 1) % Width, first.frame.total = Needed(acc[m])
  PROVE  Arrived(Arriving(r, first), r, acc, sp, m, <<M, 0>>, Needed(acc[m]) - 1)
<1> DEFINE N == Needed(acc[m]) - 1
           e == <<M, 0>>
           Do(x, i) == NextChunk(x, first, i)
           H(i, y) == While(y, LAMBDA x : Do(x, i))
           Good(y, i) == Arrived(y, r, acc, sp, m, e, i)
           S == ChunkSteps
           I == [i \in 0 .. N |-> {y \in S : Good(y, i)}]
           G == [i \in 1 .. N |-> [y \in S |-> H(i, y)]]
           init == Step(r, Ok, <<>>)
<1>1. N \in Nat \ {0} /\ first.frame.total - 1 = N
  OBVIOUS
<1>2. r \in RingSet
  BY DEF Linked
<1> HIDE DEF N, e, Do, H, Good, S, I, G, init
<1>3. \A i, y : H(i, y) = IF y.err # Ok THEN y
                          ELSE Step(Do(y.r, i).r, Do(y.r, i).err, y.out \o Do(y.r, i).out)
  BY DEF H, While, Ok
<1>4. ASSUME NEW i \in 1 .. N, NEW y, Good(y, i - 1)
      PROVE  Good(H(i, y), i)
  <2> DEFINE x == y.r
             f == Tail1(x).frame
             z == Step(Advanced(x), Ok, <<f>>)
             w == Step(Advanced(x), Ok, y.out \o <<f>>)
  <2>1. /\ y \in ChunkSteps /\ y.err = Ok /\ y.out \in Seq(FrameSet) /\ Len(y.out) = i - 1
        /\ Linked(x, acc, sp, From(acc, m, i), e) /\ SameNumbers(x, r)
        /\ \A j \in 1 .. i - 1 : IsFrame(y.out[j], acc, sp, <<m, j>>)
    <3>1. i - 1 + 1 = i
      BY <1>1
    <3> QED BY <1>4, <3>1 DEF Good, Arrived, ChunkSteps
  <2> HIDE DEF x
  <2>2. /\ NextChunk(x, first, i) = z
        /\ Linked(Advanced(x), acc, sp, From(acc, m, i + 1), e)
        /\ SameNumbers(Advanced(x), x)
        /\ IsFrame(f, acc, sp, <<m, i>>)
    <3>1. i \in 1 .. Needed(acc[m]) - 1
      BY DEF N
    <3> QED BY <2>1, <3>1, ChunkArrives DEF e
  <2>3. H(i, y) = w
    <3>1. Do(x, i) = z
      BY <2>2 DEF Do
    <3>2. z.r = Advanced(x) /\ z.err = Ok /\ z.out = <<f>>
      BY StepFields
    <3> HIDE DEF z
    <3> QED BY <1>3, <2>1, <3>1, <3>2 DEF x
  <2>4. w.r = Advanced(x) /\ w.out = y.out \o <<f>>
    <3> DEFINE a == Advanced(x)
               o == y.out \o <<f>>
    <3>1. w = Step(a, Ok, o)
      OBVIOUS
    <3> HIDE DEF a, o, w
    <3>2. w.r = a /\ w.out = o
      BY <3>1, StepFields
    <3> QED BY <3>2 DEF a, o
  <2>5. f \in FrameSet /\ Advanced(x) \in RingSet
    BY <2>2 DEF IsFrame, Linked
  <2> HIDE DEF f, z
  <2>6. /\ y.out \o <<f>> \in Seq(FrameSet) /\ Len(y.out \o <<f>>) = i
        /\ \A j \in 1 .. i - 1 : (y.out \o <<f>>)[j] = y.out[j]
        /\ (y.out \o <<f>>)[i] = f
    <3> DEFINE c == f
               d == i - 1
               g == y.out
    <3>1. d + 1 = i /\ d \in Nat
      BY <1>1
    <3>2. c \in FrameSet /\ g \in Seq(FrameSet) /\ d = Len(g)
      BY <2>1, <2>5
    <3> HIDE DEF c, d, g, w
    <3>3. /\ g \o <<c>> \in Seq(FrameSet) /\ Len(g \o <<c>>) = d + 1
          /\ (g \o <<c>>)[d + 1] = c
          /\ \A j \in 1 .. d : (g \o <<c>>)[j] = g[j]
      BY <3>2
    <3> QED BY <3>1, <3>3 DEF c, d, g
  <2>7. w \in ChunkSteps
    <3> DEFINE a == Advanced(x)
               o == y.out \o <<f>>
    <3>1. a \in RingSet /\ o \in Seq(FrameSet)
      BY <2>5, <2>6
    <3>2. w = Step(a, Ok, o)
      OBVIOUS
    <3> HIDE DEF a, o, w
    <3> QED BY <3>1, <3>2, ChunkStep
  <2> HIDE DEF w
  <2>8. ASSUME NEW j \in 1 .. i PROVE IsFrame(w.out[j], acc, sp, <<m, j>>)
    <3>1. CASE j = i
      BY <2>2, <2>4, <2>6, <3>1
    <3>2. CASE j # i
      <4>1. j \in 1 .. i - 1
        BY <1>1, <3>2
      <4> QED BY <2>1, <2>4, <2>6, <4>1
    <3> QED BY <3>1, <3>2
  <2>9. SameNumbers(w.r, r)
    BY <2>1, <2>2, <2>4 DEF SameNumbers
  <2> QED BY <2>2, <2>3, <2>4, <2>6, <2>7, <2>8, <2>9 DEF Good, Arrived
<1>5. \A y, i : Good(y, i) => y \in S
  BY DEF Good, Arrived, S
<1>6. \A i \in 1 .. N : \A y \in I[i - 1] : y \in S /\ H(i, y) \in I[i]
  <2> SUFFICES ASSUME NEW i \in 1 .. N, NEW y \in I[i - 1] PROVE y \in S /\ H(i, y) \in I[i]
    OBVIOUS
  <2>1. i - 1 \in 0 .. N /\ i \in 0 .. N
    BY <1>1
  <2>2. Good(y, i - 1)
    BY <2>1 DEF I
  <2>3. Good(H(i, y), i)
    BY <1>4, <2>2
  <2> QED BY <1>5, <2>1, <2>2, <2>3 DEF I
<1>7. init \in I[0]
  <2>1. 0 \in 0 .. N /\ 1 .. 0 = {} /\ 0 + 1 = 1
    BY <1>1
  <2> DEFINE o == <<>>
  <2>2. o \in Seq(FrameSet) /\ Len(o) = 0
    OBVIOUS
  <2>3. init = Step(r, Ok, o)
    BY DEF init
  <2> HIDE DEF o
  <2>4. init.r = r /\ init.out = o /\ init \in ChunkSteps
    <3>1. Step(r, Ok, o) \in ChunkSteps
      BY <1>2, <2>2, ChunkStep
    <3>2. Step(r, Ok, o).r = r /\ Step(r, Ok, o).out = o
      BY StepFields
    <3> QED BY <2>3, <3>1, <3>2
  <2>5. From(acc, m, 0 + 1) = <<m, 1>>
    BY <2>1 DEF From
  <2>6. SameNumbers(r, r)
    BY DEF SameNumbers
  <2>7. Good(init, 0)
    BY <2>1, <2>2, <2>4, <2>5, <2>6 DEF Good, Arrived, e
  <2> QED BY <2>1, <2>4, <2>7 DEF I, S
<1>8. \E f : f = [i \in 0 .. N |-> IF i = 0 THEN init ELSE H(i, f[i - 1])]
  <2>1. \A i \in 1 .. N : \A y \in I[i - 1] : G[i][y] = H(i, y) /\ G[i][y] \in I[i]
    BY <1>6 DEF G
  <2>2. PICK f : Stays(f, N, init, G, I)
    BY <1>1, <1>7, <2>1, LoopStays
  <2>3. \A i \in 1 .. N : f[i] = H(i, f[i - 1])
    BY <2>1, <2>2 DEF Stays
  <2>4. \A i \in 0 .. N : i # 0 => i \in 1 .. N
    BY <1>1
  <2>5. \A i \in 0 .. N : f[i] = IF i = 0 THEN init ELSE H(i, f[i - 1])
    BY <2>2, <2>3, <2>4 DEF Stays
  <2>6. f = [i \in 0 .. N |-> f[i]]
    BY <2>2 DEF Stays
  <2>7. f = [i \in 0 .. N |-> IF i = 0 THEN init ELSE H(i, f[i - 1])]
    BY <2>5, <2>6
  <2> QED BY <2>7
<1>9. PICK g : /\ g = [i \in 0 .. N |-> IF i = 0 THEN init ELSE H(i, g[i - 1])]
               /\ Loop(N, r, Do) = g[N]
  BY <1>8 DEF Loop, H, init, Ok
<1>10. g[N] \in I[N]
  <2>1. \A i \in 0 .. N : g[i] = IF i = 0 THEN init ELSE H(i, g[i - 1])
    BY <1>9
  <2>2. g[0] \in I[0]
    BY <1>1, <1>7, <2>1
  <2>3. \A i \in 1 .. N : g[i - 1] \in I[i - 1] => g[i] \in I[i]
    BY <1>1, <1>6, <2>1
  <2>4. N \in 0 .. N
    BY <1>1
  <2> QED BY <1>1, <2>2, <2>3, <2>4, LoopKeeps
<1>11. Good(g[N], N)
  <2>1. N \in 0 .. N
    BY <1>1
  <2> QED BY <1>10, <2>1 DEF I
<1>12. Arriving(r, first) = g[N]
  BY <1>1, <1>9 DEF Arriving, Do
<1> QED BY <1>11, <1>12 DEF Good, N, e

\* The chunks of a message, in order, are the message.
LEMMA AllArrived ==
  ASSUME accepted \in Seq(Nat), NEW sp, NEW m \in 1 .. Len(accepted), Needed(accepted[m]) # 0,
         NEW out \in Seq(FrameSet), Len(out) = Needed(accepted[m]),
         \A j \in 1 .. Len(out) : IsFrame(out[j], accepted, sp, <<m, j - 1>>)
  PROVE  Whole(out, m)
<1> DEFINE n == accepted[m]
           N == Needed(n)
           F == Frames(m, n)
<1>1. n \in Nat /\ m \in Nat /\ N \in 1 .. Slots /\ N \in Nat
  <2>1. n \in Nat /\ m \in Nat /\ N # 0
    OBVIOUS
  <2> HIDE DEF n
  <2> QED BY <2>1, NeededSlots, Sizes
<1>2. DOMAIN out = 1 .. N
  OBVIOUS
<1>3. \A j \in 1 .. N : out[j].m = m /\ out[j].from = F[j].from /\ out[j].to = F[j].to
  <2> SUFFICES ASSUME NEW j \in 1 .. N
               PROVE  out[j].m = m /\ out[j].from = F[j].from /\ out[j].to = F[j].to
    OBVIOUS
  <2> DEFINE p == <<m, j - 1>>
  <2>1. IsFrame(out[j], accepted, sp, p) /\ p[1] = m /\ p[2] + 1 = j
    OBVIOUS
  <2> HIDE DEF p
  <2>2. out[j].from = Frames(p[1], accepted[p[1]])[p[2] + 1].from /\ out[j].m = p[1]
        /\ out[j].to = Frames(p[1], accepted[p[1]])[p[2] + 1].to
    BY <2>1 DEF IsFrame
  <2> QED BY <2>1, <2>2
<1>4. \A i \in 0 .. N - 1 :
        /\ i = 0 => F[i + 1].from = 0
        /\ IF i + 1 = N THEN F[i + 1].to = n ELSE F[i + 1].to = F[i + 2].from
  BY <1>1, FrameFields
<1> HIDE DEF N, F, n
<1>5. F[1].from = 0
  <2>1. 0 \in 0 .. N - 1 /\ 0 + 1 = 1
    BY <1>1
  <2> QED BY <1>4, <2>1
<1>6. F[N].to = n
  <2>1. N - 1 \in 0 .. N - 1 /\ N - 1 + 1 = N
    BY <1>1
  <2> QED BY <1>4, <2>1
<1>7. \A i \in 2 .. N : F[i].from = F[i - 1].to
  <2> SUFFICES ASSUME NEW i \in 2 .. N PROVE F[i].from = F[i - 1].to
    OBVIOUS
  <2>1. i - 2 \in 0 .. N - 1 /\ i - 2 + 1 = i - 1 /\ i - 2 + 2 = i /\ i - 1 # N
    BY <1>1
  <2> QED BY <1>4, <2>1
<1>8. out[1].from = 0 /\ out[Len(out)].to = accepted[m]
  <2>1. 1 \in 1 .. N /\ N \in 1 .. N /\ Len(out) = N
    BY <1>1 DEF N, n
  <2> QED BY <1>3, <1>5, <1>6, <2>1 DEF n
<1>9. ASSUME NEW i \in 1 .. N, i > 1 PROVE out[i].from = out[i - 1].to
  <2>1. i \in 2 .. N /\ i - 1 \in 1 .. N
    BY <1>1, <1>9
  <2> QED BY <1>3, <1>7, <2>1
<1> QED BY <1>2, <1>3, <1>8, <1>9 DEF Whole

\* Message m has left ring r, which is now x.
Left(x, r, m, e, acc, sp) ==
  /\ Linked(x, acc, sp, <<m + 1, 0>>, e)
  /\ x.next = r.next /\ x.closed = r.closed /\ x.expected = m % Width

LEMMA Leaves ==
  ASSUME NEW acc, NEW sp, NEW m \in Nat \ {0}, NEW M, NEW r, r.expected = (m - 1) % Width,
         NEW y, Linked(y, acc, sp, <<m + 1, 0>>, <<M, 0>>), SameNumbers(y, r)
  PROVE  Left(Skipped(y), r, m, <<M, 0>>, acc, sp)
<1> DEFINE x == Skipped(y)
<1>1. y \in RingSet /\ NextSeq(y.expected) = m % Width /\ m % Width \in Nat
  <2>1. y \in RingSet /\ y.expected = (m - 1) % Width
    BY DEF Linked, SameNumbers
  <2>2. m - 1 \in Nat /\ m - 1 + 1 = m
    OBVIOUS
  <2>3. NextSeq((m - 1) % Width) = (m - 1 + 1) % Width /\ (m - 1 + 1) % Width \in Nat
    BY <2>2, CountedNext
  <2> QED BY <2>1, <2>2, <2>3
<1>2. /\ x \in RingSet /\ x.expected = m % Width /\ x.next = y.next /\ x.closed = y.closed
      /\ x.slot = y.slot /\ x.head = y.head /\ x.tail = y.tail /\ x.len = y.len
  BY <1>1 DEF Skipped, RingSet
<1> HIDE DEF x
<1>3. Linked(x, acc, sp, <<m + 1, 0>>, <<M, 0>>)
  BY <1>2, Renumber
<1> QED BY <1>2, <1>3 DEF Left, SameNumbers, x

\* recv_with_seq on a ring that is not empty.
Receives(y, r, m, e, acc, sp) ==
  \/ \E x : /\ y = Step(x, "corrupted", <<<<m, "lost">>>>)
            /\ \E w : <<m, w>> \in sp
            /\ Left(x, r, m, e, acc, sp)
  \/ \E x : /\ y = Step(x, Ok, <<<<m, "received">>>>)
            /\ \A w : <<m, w>> \notin sp
            /\ Left(x, r, m, e, acc, sp)

LEMMA RecvIs ==
  ASSUME Kept, accepted \in Seq(Nat), ring.len # 0
  PROVE  Receives(RingRecv, ring, Len(gone) + 1, <<Len(accepted) + 1, 0>>, accepted, spoiled)
<1> DEFINE m == Len(gone) + 1
           M == Len(accepted) + 1
           N == Needed(accepted[m])
           s == Tail1(ring)
           f == s.frame
           r == Pinned(ring)
           a == Advanced(ring)
           p == <<m, 0>>
           e == <<M, 0>>
<1>1. m \in Nat \ {0} /\ m - 1 = Len(gone) /\ Len(gone) \in Nat
  BY DEF Kept
<1>2. Linked(ring, accepted, spoiled, p, e) /\ ring.expected = (m - 1) % Width
  BY <1>1 DEF Kept
<1> HIDE DEF m, M
<1>3. /\ Stored(s, accepted, spoiled, p) /\ ring.len > 0
      /\ Linked(a, accepted, spoiled, After(accepted, p), e)
      /\ SameNumbers(a, ring) /\ Advanced(r) = a
  <2> HIDE DEF p, e
  <2>1. /\ ring.len \in 1 .. Slots /\ Stored(Tail1(ring), accepted, spoiled, p)
        /\ Linked(Advanced(ring), accepted, spoiled, After(accepted, p), e)
        /\ SameNumbers(Advanced(ring), ring)
        /\ Advanced(Pinned(ring)) = Advanced(ring)
    BY <1>2, Advance
  <2> QED BY <2>1, Sizes
<1>4. /\ m \in 1 .. Len(accepted) /\ 0 \in 0 .. N - 1
      /\ s.state = "COMMITTED" /\ s.seq = ring.expected
      /\ f \in FrameSet /\ f.m = m /\ f.index = 0 /\ f.total = N
      /\ \A w \in {"payload", "header"} : f.bad = w <=> <<m, w>> \in spoiled
      /\ IsFrame(f, accepted, spoiled, p)
  BY <1>2, <1>3 DEF Stored, IsFrame
<1>5. N \in Nat \ {0} /\ f.total \in Nat /\ accepted[m] \in Nat
  <2> DEFINE n == accepted[m]
  <2>1. n \in Nat /\ f.total = N /\ f.total \in Nat
    BY <1>4 DEF FrameSet
  <2>2. 0 \in 0 .. N - 1 /\ N = Needed(n)
    BY <1>4
  <2> HIDE DEF n
  <2>3. N # 0
    BY <2>1, <2>2
  <2> QED BY <2>1, <2>3 DEF n
<1>6. \A w : <<m, w>> \in spoiled => w \in {"payload", "header"} /\ N = 1
  <2> SUFFICES ASSUME NEW w, <<m, w>> \in spoiled PROVE w \in {"payload", "header"} /\ N = 1
    OBVIOUS
  <2> DEFINE g == <<m, w>>
  <2>1. g[1] = m /\ g[2] = w /\ g \in spoiled
    OBVIOUS
  <2> HIDE DEF g
  <2>2. g \in Nat \X {"payload", "header"} /\ Needed(accepted[g[1]]) = 1
    BY <2>1 DEF Kept
  <2> QED BY <2>1, <2>2
<1>7. After(accepted, p) = IF N = 1 THEN <<m + 1, 0>> ELSE <<m, 1>>
  BY <1>5 DEF After
<1> HIDE DEF p, e, N
<1>8. CASE ~Valid(f)
  <2>1. f.bad \in {"payload", "header"}
    BY <1>4, <1>8 DEF Valid, FrameSet
  <2>2. <<m, f.bad>> \in spoiled
    BY <1>4, <2>1
  <2>3. Linked(a, accepted, spoiled, <<m + 1, 0>>, e)
    BY <1>3, <1>6, <1>7, <2>2
  <2> DEFINE x == Skipped(a)
  <2>4. Left(x, ring, m, e, accepted, spoiled)
    <3> HIDE DEF a
    <3> QED BY <1>1, <1>2, <1>3, <2>3, Leaves DEF e
  <2>5. RingRecv = Step(x, "corrupted", <<<<m, "lost">>>>)
    BY <1>3, <1>4, <1>8 DEF RingRecv
  <2> HIDE DEF x
  <2> QED BY <2>2, <2>4, <2>5 DEF Receives, m, e, M
<1>9. CASE Valid(f)
  <2>1. \A w : <<m, w>> \notin spoiled
    BY <1>4, <1>6, <1>9 DEF Valid
  <2> DEFINE whole == IF Chunked(f) THEN Reassembled(r, s) ELSE Step(Advanced(r), Ok, <<f>>)
             x == Skipped(whole.r)
  <2>2. RingRecv = IF whole.err # Ok THEN Step(whole.r, whole.err, <<>>)
                   ELSE Step(x, Ok, <<<<m, IF Whole(whole.out, m) THEN "received" ELSE "torn">>>>)
    BY <1>3, <1>4, <1>9 DEF RingRecv, Ok
  <2> HIDE DEF whole
  <2>3. /\ whole.err = Ok /\ whole.out \in Seq(FrameSet) /\ Len(whole.out) = N
        /\ Linked(whole.r, accepted, spoiled, <<m + 1, 0>>, e) /\ SameNumbers(whole.r, ring)
        /\ \A j \in 1 .. N : IsFrame(whole.out[j], accepted, spoiled, <<m, j - 1>>)
    <3>1. CASE N = 1
      <4> DEFINE c == f
                 o == <<c>>
      <4>1. whole = Step(a, Ok, o)
        BY <1>3, <1>4, <3>1 DEF whole, Chunked
      <4>2. c \in FrameSet /\ IsFrame(c, accepted, spoiled, <<m, 0>>)
        BY <1>4 DEF p
      <4> HIDE DEF c
      <4>3. o \in Seq(FrameSet) /\ Len(o) = 1 /\ o[1] = c
        BY <4>2
      <4> HIDE DEF o, a
      <4>4. whole.r = a /\ whole.err = Ok /\ whole.out = o
        BY <4>1, StepFields
      <4>5. \A j \in 1 .. 1 : j = 1 /\ j - 1 = 0
        OBVIOUS
      <4> QED BY <1>3, <1>7, <3>1, <4>2, <4>3, <4>4, <4>5
    <3>2. CASE N > 1
      <4> DEFINE rest == Arriving(a, s)
                 k == N - 1
                 c == f
                 o == <<c>> \o rest.out
      <4>1. Arrived(rest, a, accepted, spoiled, m, e, k)
        <5>1. Linked(a, accepted, spoiled, <<m, 1>>, e)
          BY <1>3, <1>5, <1>7, <3>2
        <5>2. s.seq = (m - 1) % Width /\ s.frame.total = Needed(accepted[m]) /\ Needed(accepted[m]) \in Nat
              /\ Needed(accepted[m]) > 1
          BY <1>2, <1>4, <1>5, <3>2 DEF N
        <5> HIDE DEF a, s, rest
        <5>3. Arrived(Arriving(a, s), a, accepted, spoiled, m, <<M, 0>>, Needed(accepted[m]) - 1)
          BY <1>1, <2>1, <5>1, <5>2, RestArrives DEF e
        <5> QED BY <5>3 DEF rest, e, N
      <4>2. whole = [rest EXCEPT !.out = o]
        BY <1>3, <1>4, <3>2 DEF whole, Chunked, Reassembled, Arriving
      <4> HIDE DEF rest, a
      <4>3. k \in Nat /\ k + 1 = N
        BY <1>5
      <4> HIDE DEF k
      <4>4. /\ rest.out \in Seq(FrameSet) /\ Len(rest.out) = k /\ rest.err = Ok
            /\ \A j \in 1 .. k : IsFrame(rest.out[j], accepted, spoiled, <<m, j>>)
            /\ Linked(rest.r, accepted, spoiled, From(accepted, m, N), e) /\ SameNumbers(rest.r, a)
        BY <4>1, <4>3 DEF Arrived, ChunkSteps
      <4>5. c \in FrameSet /\ IsFrame(c, accepted, spoiled, <<m, 0>>)
        BY <1>4 DEF p
      <4> HIDE DEF c
      <4>6. /\ o \in Seq(FrameSet) /\ Len(o) = k + 1 /\ o[1] = c
            /\ \A j \in 1 .. k : o[j + 1] = rest.out[j]
        <5> DEFINE g == rest.out
        <5>1. g \in Seq(FrameSet) /\ Len(g) = k
          BY <4>4
        <5> HIDE DEF g
        <5>2. /\ <<c>> \o g \in Seq(FrameSet) /\ Len(<<c>> \o g) = k + 1 /\ (<<c>> \o g)[1] = c
              /\ \A j \in 1 .. k : (<<c>> \o g)[j + 1] = g[j]
          BY <4>3, <4>5, <5>1
        <5> QED BY <5>2 DEF g
      <4> HIDE DEF o
      <4>7. whole.r = rest.r /\ whole.err = rest.err /\ whole.out = o
        BY <4>1, <4>2 DEF Arrived, ChunkSteps
      <4>8. From(accepted, m, N) = <<m + 1, 0>>
        BY DEF From, N
      <4>9. ASSUME NEW j \in 1 .. N PROVE IsFrame(o[j], accepted, spoiled, <<m, j - 1>>)
        <5>1. CASE j = 1
          <6>1. j - 1 = 0
            BY <5>1
          <6> QED BY <4>5, <4>6, <5>1, <6>1
        <5>2. CASE j # 1
          <6> DEFINE i == j - 1
          <6>1. i \in 1 .. k /\ i + 1 = j
            BY <4>3, <5>2
          <6> HIDE DEF i
          <6>2. o[j] = rest.out[i] /\ IsFrame(rest.out[i], accepted, spoiled, <<m, i>>)
            BY <4>4, <4>6, <6>1
          <6> QED BY <6>2 DEF i
        <5> QED BY <5>1, <5>2
      <4>10. SameNumbers(rest.r, ring)
        BY <1>3, <4>4 DEF SameNumbers
      <4> QED BY <4>3, <4>4, <4>6, <4>7, <4>8, <4>9, <4>10
    <3> QED BY <1>5, <3>1, <3>2
  <2>4. Whole(whole.out, m)
    BY <1>4, <1>5, <2>3, AllArrived DEF N
  <2>5. Left(x, ring, m, e, accepted, spoiled)
    BY <1>1, <1>2, <2>3, Leaves DEF e
  <2> HIDE DEF x
  <2> QED BY <2>1, <2>2, <2>3, <2>4, <2>5 DEF Receives, m, e, M
<1> QED BY <1>8, <1>9

-----------------------------------------------------------------------------
(* The storage spoils a frame *)

LEMMA Following ==
  ASSUME NEW acc, NEW p \in Nat \X Nat
  PROVE  /\ After(acc, p)[1] \in {p[1], p[1] + 1} /\ p[1] \in Nat
         /\ p[2] + 1 = Needed(acc[p[1]]) => After(acc, p) = <<p[1] + 1, 0>>
BY DEF After

\* Messages do not go down along the window.
LEMMA Ascends ==
  ASSUME NEW r, r.len \in Nat, NEW acc, NEW sp, NEW s, NEW e, NEW pl,
         Places(r, acc, sp, s, e, pl), NEW j \in 0 .. r.len - 1, NEW k \in j .. r.len - 1
  PROVE  pl[j][1] <= pl[k][1] /\ pl[j][1] \in Nat /\ pl[k][1] \in Nat
<1> DEFINE n == r.len - 1
           J == {i \in 0 .. n : i < j \/ pl[j][1] <= pl[i][1]}
<1>1. n \in Nat
  OBVIOUS
<1>2. \A i \in 0 .. n : pl[i] \in Nat \X Nat /\ pl[i + 1] = After(acc, pl[i])
  <2>1. \A i \in 0 .. n : Stored(SlotAt(r, i), acc, sp, pl[i]) /\ pl[i + 1] = After(acc, pl[i])
    BY DEF Places
  <2> QED BY <2>1 DEF Stored
<1>3. 0 \in J
  <2>1. 0 \in 0 .. n
    BY <1>1
  <2>2. 0 < j \/ j = 0
    OBVIOUS
  <2>3. pl[0][1] \in Nat
    BY <1>2, <2>1
  <2> QED BY <2>1, <2>2, <2>3
<1>4. ASSUME NEW i \in 0 .. n - 1, i \in J PROVE i + 1 \in J
  <2>1. i \in 0 .. n /\ i + 1 \in 0 .. n
    BY <1>1
  <2>2. pl[i + 1][1] \in {pl[i][1], pl[i][1] + 1} /\ pl[i][1] \in Nat /\ pl[j][1] \in Nat
    <3>1. \A a \in 0 .. n : pl[a][1] \in Nat
      BY <1>2
    <3>2. j \in 0 .. n
      OBVIOUS
    <3> DEFINE p == pl[i]
    <3>3. p \in Nat \X Nat /\ pl[i + 1] = After(acc, p)
      BY <1>2, <2>1
    <3> HIDE DEF p
    <3>4. After(acc, p)[1] \in {p[1], p[1] + 1} /\ p[1] \in Nat
      BY <3>3, Following
    <3> QED BY <3>1, <3>2, <3>3, <3>4 DEF p
  <2>3. CASE i < j
    <3>1. i + 1 < j \/ i + 1 = j
      BY <2>3
    <3> QED BY <2>1, <2>2, <3>1, <1>2
  <2>4. CASE ~(i < j)
    <3>1. pl[j][1] <= pl[i][1]
      BY <1>4, <2>4
    <3> QED BY <2>1, <2>2, <3>1
  <2> QED BY <2>3, <2>4
<1> HIDE DEF J
<1>5. \A i \in 0 .. n : i \in J
  BY <1>1, <1>3, <1>4, Climb
<1>6. k \in J /\ k \in 0 .. n /\ j \in 0 .. n /\ ~(k < j)
  BY <1>5
<1>7. pl[j][1] \in Nat /\ pl[k][1] \in Nat
  BY <1>2, <1>6
<1> QED BY <1>6, <1>7 DEF J

Bad(r, d, what) == [r EXCEPT !.slot[(r.tail + d) % Slots].frame.bad = what]
Spoiling(r, acc, sp, s, e, d, what, m) ==
  /\ Linked(Bad(r, d, what), acc, sp \cup {<<m, what>>}, s, e)
  /\ SameNumbers(Bad(r, d, what), r)

\* A spoiled frame is where it was.
LEMMA Spoils ==
  ASSUME NEW r, NEW acc, NEW sp, NEW s, NEW e, Linked(r, acc, sp, s, e),
         NEW d \in Nat, d < r.len, NEW what \in {"payload", "header"},
         NEW m, m = SlotAt(r, d).frame.m, SlotAt(r, d).frame.bad = "no", Needed(acc[m]) = 1
  PROVE  Spoiling(r, acc, sp, s, e, d, what, m)
<1> DEFINE i == (r.tail + d) % Slots
           z == [r.slot[i] EXCEPT !.frame.bad = what]
           S == [r.slot EXCEPT ![i] = z]
           x == Bad(r, d, what)
           SP == sp \cup {<<m, what>>}
<1>1. PICK pl : Places(r, acc, sp, s, e, pl)
  BY DEF Linked
<1>2. /\ r \in RingSet /\ r.len \in Nat /\ r.len <= Slots /\ r.tail \in Index /\ Slots \in Nat \ {0}
      /\ r.slot \in [Index -> SlotSet]
      /\ r = Literal(r.slot, r.head, r.tail, r.len, r.next, r.expected, r.closed)
  BY Fields, Sizes DEF Linked
<1>3. i \in Index
  BY <1>2, Wraps
<1> HIDE DEF i
<1>4. r.slot[i] \in SlotSet /\ z \in SlotSet
  <2>1. r.slot[i] \in SlotSet
    BY <1>2, <1>3
  <2> QED BY <2>1 DEF SlotSet, FrameSet
<1>5. x = Literal(S, r.head, r.tail, r.len, r.next, r.expected, r.closed)
  <2>1. x = [r EXCEPT !.slot[i].frame.bad = what]
    BY DEF Bad, i, x
  <2> QED BY <1>2, <1>3, <2>1 DEF Literal
<1> HIDE DEF z
<1>6. S \in [Index -> SlotSet]
  BY <1>2, <1>4
<1> HIDE DEF S, x
<1>7. /\ x \in RingSet /\ x.slot = S /\ x.head = r.head /\ x.tail = r.tail /\ x.len = r.len
      /\ x.next = r.next /\ x.expected = r.expected /\ x.closed = r.closed
  <2>1. /\ r.head \in Index /\ r.tail \in Index /\ r.len \in 0 .. Slots
        /\ r.next \in Nat /\ r.expected \in Nat /\ r.closed \in BOOLEAN
    BY <1>2, Fields
  <2> DEFINE a == r.head
             b == r.tail
             c == r.len
             f == r.next
             g == r.expected
             h == r.closed
  <2> HIDE DEF a, b, c, f, g, h
  <2>2. a \in Index /\ b \in Index /\ c \in 0 .. Slots /\ f \in Nat /\ g \in Nat /\ h \in BOOLEAN
    BY <2>1 DEF a, b, c, f, g, h
  <2>3. x = Literal(S, a, b, c, f, g, h)
    BY <1>5 DEF a, b, c, f, g, h
  <2>4. /\ x \in RingSet /\ x.slot = S /\ x.head = a /\ x.tail = b /\ x.len = c
        /\ x.next = f /\ x.expected = g /\ x.closed = h
    BY <1>6, <2>2, <2>3, IsARing
  <2> QED BY <2>4 DEF a, b, c, f, g, h
<1>8. \A k \in Nat : k < Slots => SlotAt(x, k) = IF k = d THEN z ELSE SlotAt(r, k)
  <2> SUFFICES ASSUME NEW k \in Nat, k < Slots PROVE SlotAt(x, k) = IF k = d THEN z ELSE SlotAt(r, k)
    OBVIOUS
  <2>1. (r.tail + k) % Slots \in Index
    BY <1>2, Wraps
  <2>2. k # d => (r.tail + k) % Slots # i
    BY <1>2, Apart DEF i
  <2>3. S[(r.tail + k) % Slots] = IF k = d THEN z ELSE r.slot[(r.tail + k) % Slots]
    BY <1>2, <2>1, <2>2 DEF S, i
  <2> QED BY <1>7, <2>3 DEF SlotAt
<1>9. \A k \in r.len .. Slots - 1 : SlotAt(x, k) = Free
  <2> SUFFICES ASSUME NEW k \in r.len .. Slots - 1 PROVE SlotAt(x, k) = Free
    OBVIOUS
  <2>1. k \in Nat /\ k < Slots /\ k # d
    BY <1>2
  <2>2. SlotAt(r, k) = Free
    BY DEF Linked
  <2> QED BY <1>8, <2>1, <2>2
<1>10. \A k \in 0 .. r.len - 1 : Stored(SlotAt(r, k), acc, sp, pl[k]) /\ pl[k + 1] = After(acc, pl[k])
  BY <1>1 DEF Places
<1>11. d \in 0 .. r.len - 1 /\ pl[d][1] = m /\ m \in Nat
  <2>1. d \in 0 .. r.len - 1
    BY <1>2
  <2> QED BY <1>10, <2>1 DEF Stored, IsFrame
<1>12. \A k \in 0 .. r.len - 1 : k # d => pl[k][1] # m
  <2>1. \A j, k \in 0 .. r.len - 1 : j < k /\ pl[j][1] = m => pl[k][1] # m
    <3> SUFFICES ASSUME NEW j \in 0 .. r.len - 1, NEW k \in 0 .. r.len - 1, j < k, pl[j][1] = m
                 PROVE  pl[k][1] # m
      OBVIOUS
    <3>1. Stored(SlotAt(r, j), acc, sp, pl[j]) /\ pl[j + 1] = After(acc, pl[j])
      BY <1>10
    <3>2. pl[j][2] \in 0 .. 0
      BY <3>1 DEF Stored
    <3>3. pl[j + 1] = <<m + 1, 0>>
      <4>1. pl[j][2] + 1 = Needed(acc[pl[j][1]])
        BY <3>2
      <4> QED BY <3>1, <4>1 DEF After
    <3>4. j + 1 \in 0 .. r.len - 1 /\ k \in j + 1 .. r.len - 1
      BY <1>2
    <3>5. pl[j + 1][1] <= pl[k][1] /\ pl[k][1] \in Nat
      BY <1>1, <1>2, <3>4, Ascends
    <3> QED BY <1>11, <3>3, <3>5
  <2> SUFFICES ASSUME NEW k \in 0 .. r.len - 1, k # d, pl[k][1] = m PROVE FALSE
    OBVIOUS
  <2>2. k < d \/ d < k
    BY <1>2
  <2> QED BY <1>11, <2>1, <2>2
<1>13. ASSUME NEW k \in 0 .. r.len - 1, k # d PROVE Stored(SlotAt(x, k), acc, SP, pl[k])
  <2>1. SlotAt(x, k) = SlotAt(r, k)
    <3>1. k \in Nat /\ k < Slots
      BY <1>2
    <3> QED BY <1>8, <1>13, <3>1
  <2>2. Stored(SlotAt(r, k), acc, sp, pl[k])
    BY <1>10
  <2>3. \A w : <<pl[k][1], w>> \in SP <=> <<pl[k][1], w>> \in sp
    BY <1>12, <1>13
  <2> HIDE DEF SP
  <2> QED BY <2>1, <2>2, <2>3 DEF Stored, IsFrame
<1>14. Stored(SlotAt(x, d), acc, SP, pl[d])
  <2> DEFINE y == SlotAt(r, d)
             p == pl[d]
  <2>1. SlotAt(x, d) = z
    <3>1. d < Slots
      BY <1>2
    <3> QED BY <1>8, <3>1
  <2>2. Stored(y, acc, sp, p) /\ p[1] = m /\ y.frame.bad = "no" /\ y = r.slot[i]
    BY <1>10, <1>11 DEF SlotAt, i
  <2> HIDE DEF y, p
  <2>3. \A w \in {"payload", "header"} : <<m, w>> \notin sp
    BY <2>2 DEF Stored, IsFrame
  <2>4. /\ z.state = y.state /\ z.seq = y.seq /\ z.frame.m = y.frame.m /\ z.frame.index = y.frame.index
        /\ z.frame.total = y.frame.total /\ z.frame.from = y.frame.from /\ z.frame.to = y.frame.to
        /\ z.frame.bad = what /\ z.frame \in FrameSet
    BY <1>4, <2>2 DEF z, SlotSet, FrameSet
  <2>5. \A w \in {"payload", "header"} : z.frame.bad = w <=> <<p[1], w>> \in SP
    BY <2>2, <2>3, <2>4
  <2> HIDE DEF SP
  <2> QED BY <2>1, <2>2, <2>4, <2>5 DEF Stored, IsFrame, p
<1> HIDE DEF SP
<1>15. Places(x, acc, SP, s, e, pl)
  BY <1>1, <1>7, <1>10, <1>13, <1>14 DEF Places
<1>16. Linked(x, acc, SP, s, e)
  BY <1>7, <1>9, <1>15 DEF Linked
<1> QED BY <1>7, <1>16 DEF SameNumbers, Spoiling, SP, x

\* The ring holds messages m to M - 1, and every accepted one fits a slot.
Spans(r, acc, sp, m, M) ==
  /\ m \in Nat /\ M \in Nat /\ Linked(r, acc, sp, <<m, 0>>, <<M, 0>>)
  /\ \A i \in 1 .. Len(acc) : Needed(acc[i]) = 1

\* Then the slots hold one each.
LEMMA Singles ==
  ASSUME NEW r, NEW acc, NEW sp, NEW m, NEW M, Spans(r, acc, sp, m, M)
  PROVE  /\ r.len \in Nat /\ m + r.len = M
         /\ \A k \in 0 .. r.len - 1 :
              SlotAt(r, k).frame.m = m + k /\ SlotAt(r, k).seq = (m + k - 1) % Width
<1> DEFINE n == r.len
<1>0. /\ m \in Nat /\ M \in Nat /\ Linked(r, acc, sp, <<m, 0>>, <<M, 0>>)
      /\ \A i \in 1 .. Len(acc) : Needed(acc[i]) = 1
  BY DEF Spans
<1>1. PICK pl : Places(r, acc, sp, <<m, 0>>, <<M, 0>>, pl)
  BY <1>0 DEF Linked
<1>2. n \in Nat
  BY <1>0, Fields DEF Linked
<1>3. \A k \in 0 .. n - 1 : Stored(SlotAt(r, k), acc, sp, pl[k]) /\ pl[k + 1] = After(acc, pl[k])
  BY <1>1 DEF Places
<1> DEFINE J == {k \in 0 .. n : pl[k][1] = m + k}
<1>4. 0 \in J
  BY <1>0, <1>1, <1>2 DEF Places
<1>5. ASSUME NEW k \in 0 .. n - 1, k \in J PROVE k + 1 \in J
  <2>1. /\ pl[k] \in Nat \X Nat /\ pl[k][1] \in 1 .. Len(acc) /\ pl[k][2] \in 0 .. Needed(acc[pl[k][1]]) - 1
        /\ pl[k][1] = m + k /\ pl[k + 1] = After(acc, pl[k])
    BY <1>3, <1>5 DEF Stored
  <2>2. Needed(acc[pl[k][1]]) = 1
    BY <1>0, <2>1
  <2>3. pl[k][2] + 1 = Needed(acc[pl[k][1]])
    BY <2>1, <2>2
  <2>4. pl[k + 1][1] = m + k + 1 /\ k + 1 \in 0 .. n
    <3> DEFINE p == pl[k]
    <3>1. p \in Nat \X Nat /\ pl[k + 1] = After(acc, p) /\ p[1] = m + k
      BY <2>1
    <3>2. p[2] + 1 = Needed(acc[p[1]])
      BY <2>3
    <3> HIDE DEF p
    <3>3. After(acc, p) = <<p[1] + 1, 0>>
      BY <3>1, <3>2, Following
    <3> QED BY <1>0, <1>2, <3>1, <3>3
  <2> QED BY <1>0, <1>2, <2>4
<1> HIDE DEF J
<1>6. \A k \in 0 .. n : k \in J
  BY <1>2, <1>4, <1>5, Climb
<1>7. m + n = M
  <2>1. pl[n] = <<M, 0>> /\ n \in J
    BY <1>1, <1>2, <1>6 DEF Places
  <2> QED BY <1>0, <2>1 DEF J
<1>8. \A k \in 0 .. n - 1 : SlotAt(r, k).frame.m = m + k /\ SlotAt(r, k).seq = (m + k - 1) % Width
  <2> SUFFICES ASSUME NEW k \in 0 .. n - 1
               PROVE  SlotAt(r, k).frame.m = m + k /\ SlotAt(r, k).seq = (m + k - 1) % Width
    OBVIOUS
  <2>1. k \in J
    BY <1>2, <1>6
  <2>2. pl[k][1] = m + k
    BY <2>1 DEF J
  <2> DEFINE p == pl[k]
             y == SlotAt(r, k)
  <2>3. Stored(y, acc, sp, p) /\ p[1] = m + k
    BY <1>3, <2>2
  <2> HIDE DEF p, y
  <2>4. y.frame.m = p[1] /\ y.seq = (p[1] - 1) % Width
    BY <2>3 DEF Stored, IsFrame
  <2>5. y.frame.m = m + k /\ y.seq = (m + k - 1) % Width
    BY <1>0, <1>2, <2>3, <2>4
  <2> QED BY <2>5 DEF y
<1> QED BY <1>2, <1>7, <1>8

-----------------------------------------------------------------------------
(* Every call keeps the window *)

\* Ring y.r, messages y.out having left, and what is accepted being acc.
Moved(y, acc) ==
  LET m == Len(gone) + 1
      d == Len(y.out)
  IN /\ y.out \in Seq(Fates)
     /\ \A j \in 1 .. d : y.out[j][1] = m + j - 1 /\ (y.out[j][2] = "lost" => \E f \in spoiled : f[1] = m + j - 1)
     /\ Linked(y.r, acc, spoiled, <<m + d, 0>>, <<Len(acc) + 1, 0>>)
     /\ y.r.expected = (m + d - 1) % Width /\ y.r.next = Len(acc) % Width
     /\ y.r.closed = ring.closed

AcceptedBy(y, n) == IF y.err = Ok THEN Append(accepted, n) ELSE accepted

LEMMA NothingMoved ==
  ASSUME Kept, NEW err
  PROVE  Moved(Step(ring, err, <<>>), accepted)
<1> DEFINE m == Len(gone) + 1
           o == <<>>
           y == Step(ring, err, o)
<1>1. o \in Seq(Fates) /\ Len(o) = 0 /\ 1 .. 0 = {}
  OBVIOUS
<1>2. y.out = o /\ y.r = ring
  BY StepFields
<1> HIDE DEF o, y
<1>3. m \in Nat /\ m + 0 = m /\ m + 0 - 1 = Len(gone)
  BY DEF Kept
<1>4. Linked(y.r, accepted, spoiled, <<m + 0, 0>>, <<Len(accepted) + 1, 0>>)
  <2> HIDE DEF m
  <2> QED BY <1>2, <1>3 DEF m, Kept
<1>5. y.r.expected = (m + 0 - 1) % Width /\ y.r.next = Len(accepted) % Width
  <2> HIDE DEF m
  <2> QED BY <1>2, <1>3 DEF Kept
<1>6. Moved(y, accepted)
  BY <1>1, <1>2, <1>4, <1>5 DEF Moved
<1> QED BY <1>6 DEF y, o

LEMMA MovedBySend ==
  ASSUME Kept, accepted \in Seq(Nat), NEW n \in Nat, NEW y, Sends(y, n)
  PROVE  Moved(y, AcceptedBy(y, n))
<1> DEFINE m == Len(gone) + 1
           e == <<Len(accepted) + 1, 0>>
           N == Needed(n)
           p == Prepare(ring, N)
<1>1. ASSUME NEW err, y = Step(ring, err, <<>>), err # Ok
      PROVE  Moved(y, AcceptedBy(y, n))
  <2>1. y.err = err
    BY <1>1, StepFields
  <2>2. Moved(y, accepted)
    BY <1>1, NothingMoved
  <2> QED BY <1>1, <2>1, <2>2 DEF AcceptedBy
<1>2. CASE y = Step(ring, "closed", <<>>) \/ y = Step(ring, "too large", <<>>)
  BY <1>1, <1>2, OkIsNoError
<1>3. CASE /\ ~ring.closed /\ N # 0
           /\ Prepared(p, ring, N, m, e, accepted, spoiled)
           /\ p.err # Ok => y = p
           /\ p.err = Ok => \E x : /\ y = Step(x, Ok, p.out)
                                   /\ Linked(x, Append(accepted, n), spoiled,
                                             <<m + Len(p.out), 0>>, <<Len(accepted) + 2, 0>>)
                                   /\ x.next = (Len(accepted) + 1) % Width
                                   /\ x.expected = p.r.expected /\ x.closed = p.r.closed
  <2>1. m \in Nat \ {0} /\ m - 1 = Len(gone) /\ N \in 1 .. Slots /\ Len(accepted) \in Nat
    <3>1. Len(gone) \in Nat
      BY DEF Kept
    <3>2. Needed(n) \in 0 .. Slots /\ N # 0
      BY <1>3, NeededSlots
    <3>3. N \in 1 .. Slots
      BY <3>2, Sizes
    <3> QED BY <3>1, <3>3
  <2> HIDE DEF m, N, p
  <2>2. Linked(ring, accepted, spoiled, <<m, 0>>, e) /\ ring.expected = (m - 1) % Width
        /\ ring.next = Len(accepted) % Width
    BY <2>1 DEF Kept, m
  <2>3. Cleared(p, ring, N, m, e, accepted, spoiled)
    <3> DEFINE M == Len(accepted) + 1
    <3>1. /\ Linked(ring, accepted, spoiled, <<m, 0>>, <<M, 0>>)
          /\ Prepared(p, ring, N, m, <<M, 0>>, accepted, spoiled)
      BY <1>3, <2>2
    <3> HIDE DEF M
    <3>2. Cleared(p, ring, N, m, <<M, 0>>, accepted, spoiled)
      BY <2>1, <2>2, <3>1, AfterPreparing
    <3> QED BY <3>2 DEF M
  <2> DEFINE o == p.out
             d == Len(o)
  <2>4. /\ o \in Seq(Fates)
        /\ \A j \in 1 .. d : o[j] = <<m + j - 1, "dropped">>
        /\ p.r.expected = (m + d - 1) % Width
        /\ p.r.next = ring.next /\ p.r.closed = ring.closed
    BY <2>3 DEF Cleared
  <2>5. \A j \in 1 .. d : o[j][1] = m + j - 1 /\ (o[j][2] = "lost" => \E f \in spoiled : f[1] = m + j - 1)
    <3> HIDE DEF d, o
    <3> SUFFICES ASSUME NEW j \in 1 .. d PROVE o[j][1] = m + j - 1 /\ o[j][2] # "lost"
      OBVIOUS
    <3>1. o[j] = <<m + j - 1, "dropped">>
      BY <2>4
    <3> QED BY <3>1
  <2>6. CASE p.err # Ok
    <3>1. y = p /\ y.err # Ok
      BY <1>3, <2>6
    <3>2. Linked(p.r, accepted, spoiled, <<m + d, 0>>, <<Len(accepted) + 1, 0>>)
      BY <2>3 DEF Cleared
    <3>3. Moved(p, accepted)
      BY <2>2, <2>4, <2>5, <3>2 DEF Moved, m
    <3> QED BY <3>1, <3>3 DEF AcceptedBy
  <2>7. CASE p.err = Ok
    <3> DEFINE A == Append(accepted, n)
    <3>1. PICK x : /\ y = Step(x, Ok, o)
                   /\ Linked(x, A, spoiled, <<m + d, 0>>, <<Len(accepted) + 2, 0>>)
                   /\ x.next = (Len(accepted) + 1) % Width
                   /\ x.expected = p.r.expected /\ x.closed = p.r.closed
      BY <1>3, <2>7
    <3>2. Len(A) = Len(accepted) + 1 /\ Len(A) + 1 = Len(accepted) + 2
      BY <2>1
    <3> HIDE DEF A, o
    <3>3. y.r = x /\ y.err = Ok /\ y.out = o
      BY <3>1, StepFields
    <3>4. Linked(y.r, A, spoiled, <<m + Len(y.out), 0>>, <<Len(A) + 1, 0>>)
      BY <3>1, <3>2, <3>3
    <3>5. y.r.expected = (m + Len(y.out) - 1) % Width /\ y.r.next = Len(A) % Width /\ y.r.closed = ring.closed
      BY <2>4, <3>1, <3>2, <3>3
    <3>6. Moved(y, A)
      BY <2>4, <2>5, <3>3, <3>4, <3>5 DEF Moved, m
    <3> QED BY <3>3, <3>6 DEF AcceptedBy, A
  <2> QED BY <2>6, <2>7
<1> QED BY <1>2, <1>3 DEF Sends

LEMMA MovedByRecv ==
  ASSUME Kept, accepted \in Seq(Nat)
  PROVE  Moved(RingRecv, accepted)
<1> DEFINE m == Len(gone) + 1
           e == <<Len(accepted) + 1, 0>>
           y == RingRecv
<1>1. CASE ring.len = 0
  <2> DEFINE err == IF ring.closed THEN "closed" ELSE "empty"
  <2>1. y = Step(ring, err, <<>>)
    BY <1>1 DEF RingRecv
  <2> HIDE DEF err, y
  <2>2. Moved(y, accepted)
    BY <2>1, NothingMoved
  <2> QED BY <2>2 DEF y
<1>2. CASE ring.len # 0
  <2>1. Receives(y, ring, m, e, accepted, spoiled)
    BY <1>2, RecvIs
  <2>2. PICK x, err, what :
          /\ y = Step(x, err, <<<<m, what>>>>) /\ Left(x, ring, m, e, accepted, spoiled)
          /\ (what = "lost" /\ \E w : <<m, w>> \in spoiled) \/ what = "received"
    <3> HIDE DEF y, m, e
    <3> QED BY <2>1 DEF Receives
  <2> DEFINE c == <<m, what>>
             o == <<c>>
  <2>3. m \in Nat /\ m + 1 - 1 = m
    BY DEF Kept
  <2>4. what = "lost" => \E f \in spoiled : f[1] = m
    <3> SUFFICES ASSUME NEW w, <<m, w>> \in spoiled PROVE \E f \in spoiled : f[1] = m
      BY <2>2
    <3> DEFINE g == <<m, w>>
    <3>1. g \in spoiled /\ g[1] = m
      OBVIOUS
    <3> QED BY <3>1
  <2> HIDE DEF y, m, e
  <2>5. c \in Fates /\ c[1] = m /\ c[2] = what
    BY <2>2, <2>3 DEF Fates
  <2>6. y = Step(x, err, o)
    BY <2>2
  <2> HIDE DEF c
  <2>7. o \in Seq(Fates) /\ Len(o) = 1 /\ o[1] = c
    BY <2>5
  <2> HIDE DEF o
  <2>8. y.r = x /\ y.out = o
    BY <2>6, StepFields
  <2>9. \A j \in 1 .. Len(o) : j = 1 /\ m + j - 1 = m
    BY <2>3, <2>7
  <2>10. \A j \in 1 .. Len(o) : o[j][1] = m + j - 1 /\ (o[j][2] = "lost" => \E f \in spoiled : f[1] = m + j - 1)
    BY <2>4, <2>5, <2>7, <2>9
  <2>11. /\ Linked(y.r, accepted, spoiled, <<m + Len(o), 0>>, e)
         /\ y.r.expected = (m + Len(o) - 1) % Width
         /\ y.r.next = Len(accepted) % Width /\ y.r.closed = ring.closed
    BY <2>2, <2>3, <2>7, <2>8 DEF Left, Kept
  <2>12. Moved(y, accepted)
    BY <2>7, <2>8, <2>10, <2>11 DEF Moved, m, e
  <2> QED BY <2>12 DEF y
<1> QED BY <1>1, <1>2

\* Then the next state is as the last.
LEMMA MovedKeeps ==
  ASSUME Kept, accepted \in Seq(Nat), NEW y, Moved(y, accepted'), ring' = y.r, gone' = gone \o y.out,
         spoiled' = spoiled, accepted' \in Seq(Nat), Len(accepted) <= Len(accepted'),
         \A i \in 1 .. Len(accepted) : accepted'[i] = accepted[i]
  PROVE  Kept'
<1> DEFINE m == Len(gone) + 1
           o == y.out
           d == Len(o)
           G == gone \o o
<1>1. /\ o \in Seq(Fates)
      /\ \A j \in 1 .. d : o[j][1] = m + j - 1 /\ (o[j][2] = "lost" => \E f \in spoiled : f[1] = m + j - 1)
      /\ Linked(y.r, accepted', spoiled, <<m + d, 0>>, <<Len(accepted') + 1, 0>>)
      /\ y.r.expected = (m + d - 1) % Width /\ y.r.next = Len(accepted') % Width
  BY DEF Moved
<1>2. gone \in Seq(Fates) /\ Len(gone) \in Nat
      /\ \A i \in 1 .. Len(gone) : gone[i][1] = i /\ (gone[i][2] = "lost" => \E f \in spoiled : f[1] = i)
  BY DEF Kept
<1> HIDE DEF o
<1>3. /\ G \in Seq(Fates) /\ Len(G) = Len(gone) + d /\ d \in Nat
      /\ \A i \in 1 .. Len(gone) : G[i] = gone[i]
      /\ \A j \in 1 .. d : G[Len(gone) + j] = o[j]
  BY <1>1, <1>2
<1> HIDE DEF G, d
<1>4. m + d = Len(G) + 1 /\ m + d - 1 = Len(G)
  BY <1>2, <1>3
<1>5. ASSUME NEW i \in 1 .. Len(G)
      PROVE  G[i][1] = i /\ (G[i][2] = "lost" => \E f \in spoiled : f[1] = i)
  <2>1. CASE i <= Len(gone)
    <3>1. i \in 1 .. Len(gone)
      BY <1>2, <2>1
    <3> QED BY <1>2, <1>3, <3>1
  <2>2. CASE i > Len(gone)
    <3> DEFINE j == i - Len(gone)
    <3>1. j \in 1 .. d /\ Len(gone) + j = i /\ m + j - 1 = i
      BY <1>2, <1>3, <2>2
    <3> HIDE DEF j, m
    <3>2. G[i] = o[j]
      BY <1>3, <3>1
    <3> QED BY <1>1, <3>1, <3>2 DEF d
  <2> QED BY <1>2, <1>3, <2>1, <2>2
<1>6. \A f \in spoiled : /\ f \in Nat \X {"payload", "header"}
                         /\ f[1] \in 1 .. Len(accepted') /\ Needed(accepted'[f[1]]) = 1
  <2> SUFFICES ASSUME NEW f \in spoiled
               PROVE  /\ f \in Nat \X {"payload", "header"}
                      /\ f[1] \in 1 .. Len(accepted') /\ Needed(accepted'[f[1]]) = 1
    OBVIOUS
  <2>1. f \in Nat \X {"payload", "header"} /\ f[1] \in 1 .. Len(accepted) /\ Needed(accepted[f[1]]) = 1
    BY DEF Kept
  <2>2. Len(accepted) \in Nat /\ Len(accepted') \in Nat /\ accepted'[f[1]] = accepted[f[1]]
    BY <2>1
  <2> QED BY <2>1, <2>2
<1>7. Linked(ring', accepted', spoiled', <<Len(G) + 1, 0>>, <<Len(accepted') + 1, 0>>)
  <2> HIDE DEF m
  <2> QED BY <1>1, <1>4 DEF d
<1>8. ring'.expected = Len(G) % Width /\ ring'.next = Len(accepted') % Width
  <2> HIDE DEF m
  <2> QED BY <1>1, <1>4 DEF d
<1>9. gone' = G
  BY DEF G, o
<1> HIDE DEF m
<1> QED BY <1>3, <1>5, <1>6, <1>7, <1>8, <1>9 DEF Kept

Spoilt == \E f \in spoiled : f[1] \in 1 .. Len(accepted) /\ Needed(accepted[f[1]]) # 1

\* What no call and no fault breaks: a chunk was spoiled, or the window is kept.
Sound == accepted \in Seq(Nat) /\ (Spoilt \/ Kept)

LEMMA Begins == RingInit => accepted \in Seq(Nat) /\ Kept
<1> SUFFICES ASSUME RingInit PROVE accepted \in Seq(Nat) /\ Kept
  OBVIOUS
<1> DEFINE S == [i \in Index |-> Free]
           s == <<1, 0>>
<1>1. /\ ring = Literal(S, 0, 0, 0, 0, 0, FALSE) /\ accepted = <<>> /\ gone = <<>> /\ spoiled = {}
  BY DEF RingInit, Literal
<1>2. S \in [Index -> SlotSet] /\ 0 \in Index /\ 0 \in 0 .. Slots /\ 0 \in Nat
  BY FreeIsASlot, Sizes DEF Index
<1> HIDE DEF S, s
<1>3. /\ ring \in RingSet /\ ring.slot = S /\ ring.head = 0 /\ ring.tail = 0 /\ ring.len = 0
      /\ ring.next = 0 /\ ring.expected = 0
  BY <1>1, <1>2, IsARing
<1>4. 0 % Width = 0 /\ (0 + 0) % Slots = 0
  <2>1. 0 = Width * 0 + 0 /\ 0 \in 0 .. Width - 1
    BY Sizes
  <2>2. 0 % Width = 0
    BY <2>1, Sizes, SlotOf
  <2> QED BY <1>2, <2>2, Wraps
<1>5. \A k \in 0 .. Slots - 1 : SlotAt(ring, k) = Free
  <2> SUFFICES ASSUME NEW k \in 0 .. Slots - 1 PROVE SlotAt(ring, k) = Free
    OBVIOUS
  <2>1. k \in Nat
    OBVIOUS
  <2>2. (0 + k) % Slots \in Index
    BY <1>2, <2>1, Wraps
  <2> QED BY <1>3, <2>2 DEF SlotAt, S
<1>6. Linked(ring, accepted, spoiled, s, s)
  <2> DEFINE pl == [k \in {0} |-> s]
  <2>1. pl[0] = s /\ 0 .. 0 - 1 = {}
    OBVIOUS
  <2> HIDE DEF pl
  <2>2. Places(ring, accepted, spoiled, s, s, pl)
    BY <1>3, <2>1 DEF Places
  <2> QED BY <1>3, <1>4, <1>5, <2>2 DEF Linked
<1>7. Len(gone) = 0 /\ Len(accepted) = 0 /\ accepted \in Seq(Nat) /\ gone \in Seq(Fates)
  BY <1>1
<1>8. Linked(ring, accepted, spoiled, <<Len(gone) + 1, 0>>, <<Len(accepted) + 1, 0>>)
  <2>1. Len(gone) + 1 = 1 /\ Len(accepted) + 1 = 1
    BY <1>7
  <2> QED BY <1>6, <2>1 DEF s
<1>9. ring.expected = Len(gone) % Width /\ ring.next = Len(accepted) % Width
  BY <1>3, <1>4, <1>7
<1>10. 1 .. Len(gone) = {}
  BY <1>7
<1> QED BY <1>1, <1>7, <1>8, <1>9, <1>10 DEF Kept

LEMMA SendKeeps ==
  ASSUME Kept, accepted \in Seq(Nat), NEW n \in Nat, Send(n)
  PROVE  Kept'
<1> DEFINE y == RingSend(n)
<1>1. /\ ring' = y.r /\ gone' = gone \o y.out /\ spoiled' = spoiled
      /\ accepted' = AcceptedBy(y, n)
  BY DEF Send, Called, AcceptedBy, Ok
<1>2. Sends(y, n)
  BY SendIs
<1> HIDE DEF y
<1>3. Moved(y, accepted')
  BY <1>1, <1>2, MovedBySend
<1>4. accepted' \in Seq(Nat) /\ Len(accepted) <= Len(accepted')
      /\ \A i \in 1 .. Len(accepted) : accepted'[i] = accepted[i]
  BY <1>1 DEF AcceptedBy
<1> QED BY <1>1, <1>3, <1>4, MovedKeeps

LEMMA RecvKeeps ==
  ASSUME Kept, accepted \in Seq(Nat), Recv
  PROVE  Kept'
<1> DEFINE y == RingRecv
<1>1. ring' = y.r /\ gone' = gone \o y.out /\ spoiled' = spoiled /\ accepted' = accepted
  BY DEF Recv, Called
<1>2. Moved(y, accepted)
  BY MovedByRecv
<1> HIDE DEF y
<1>3. Len(accepted) <= Len(accepted) /\ Len(accepted) \in Nat
  OBVIOUS
<1> QED BY <1>1, <1>2, <1>3, MovedKeeps

LEMMA CloseKeeps ==
  ASSUME Kept, CloseRing
  PROVE  Kept'
<1>1. ring' = [ring EXCEPT !.closed = TRUE] /\ UNCHANGED <<accepted, gone, spoiled>>
  BY DEF CloseRing
<1>2. ring \in RingSet
  BY DEF Kept, Linked
<1>3. /\ ring' \in RingSet /\ ring'.slot = ring.slot /\ ring'.head = ring.head /\ ring'.tail = ring.tail
      /\ ring'.len = ring.len /\ ring'.next = ring.next /\ ring'.expected = ring.expected
  BY <1>1, <1>2 DEF RingSet
<1> DEFINE s == <<Len(gone) + 1, 0>>
           e == <<Len(accepted) + 1, 0>>
<1>4. Linked(ring, accepted, spoiled, s, e)
  BY DEF Kept
<1> HIDE DEF s, e
<1>5. Linked(ring', accepted, spoiled, s, e)
  BY <1>3, <1>4, Renumber
<1> QED BY <1>1, <1>3, <1>5 DEF Kept, s, e

\* The message whose frame is spoiled is one of those accepted.
LEMMA SpoilIs ==
  ASSUME Kept, accepted \in Seq(Nat), NEW d \in Index, NEW what, Spoil(d, what)
  PROVE  LET x == SlotAt(ring, d)
         IN /\ d \in Nat /\ d < ring.len /\ x.frame.bad = "no"
            /\ x.frame.m \in 1 .. Len(accepted)
            /\ spoiled' = spoiled \cup {<<x.frame.m, what>>}
            /\ ring' = [ring EXCEPT !.slot[(ring.tail + d) % Slots].frame.bad = what]
            /\ UNCHANGED <<accepted, gone, result>>
<1> DEFINE x == SlotAt(ring, d)
           s == <<Len(gone) + 1, 0>>
           e == <<Len(accepted) + 1, 0>>
<1>1. /\ d < ring.len /\ x.frame.bad = "no"
      /\ spoiled' = spoiled \cup {<<x.frame.m, what>>}
      /\ ring' = [ring EXCEPT !.slot[(ring.tail + d) % Slots].frame.bad = what]
      /\ UNCHANGED <<accepted, gone, result>>
  BY DEF Spoil, SlotAt
<1>2. Linked(ring, accepted, spoiled, s, e)
  BY DEF Kept
<1> HIDE DEF s, e
<1>3. PICK pl : Places(ring, accepted, spoiled, s, e, pl)
  BY <1>2 DEF Linked
<1>4. d \in Nat /\ ring.len \in Nat
  BY <1>2, Fields DEF Linked, Index
<1>5. d \in 0 .. ring.len - 1
  BY <1>1, <1>4
<1>6. Stored(x, accepted, spoiled, pl[d])
  BY <1>3, <1>5 DEF Places
<1>7. x.frame.m \in 1 .. Len(accepted)
  BY <1>6 DEF Stored, IsFrame
<1> QED BY <1>1, <1>4, <1>7

LEMMA SpoilKeeps ==
  ASSUME Kept, accepted \in Seq(Nat), NEW d \in Index, NEW what \in {"payload", "header"}, Spoil(d, what)
  PROVE  Spoilt' \/ Kept'
<1> DEFINE m == SlotAt(ring, d).frame.m
           s == <<Len(gone) + 1, 0>>
           e == <<Len(accepted) + 1, 0>>
           SP == spoiled \cup {<<m, what>>}
           x == [ring EXCEPT !.slot[(ring.tail + d) % Slots].frame.bad = what]
           g == <<m, what>>
<1>1. /\ d \in Nat /\ d < ring.len /\ SlotAt(ring, d).frame.bad = "no" /\ m \in 1 .. Len(accepted)
      /\ spoiled' = SP /\ ring' = x /\ accepted' = accepted /\ gone' = gone
  BY SpoilIs
<1>2. g \in SP /\ g[1] = m /\ g[2] = what /\ \A f \in SP : f = g \/ f \in spoiled
  OBVIOUS
<1>3. \A f \in spoiled : f \in SP
  OBVIOUS
<1> HIDE DEF g
<1>4. CASE Needed(accepted[m]) # 1
  BY <1>1, <1>2, <1>4 DEF Spoilt
<1>5. CASE Needed(accepted[m]) = 1
  <2>1. Linked(ring, accepted, spoiled, s, e) /\ ring.expected = Len(gone) % Width /\ ring.next = Len(accepted) % Width
    BY DEF Kept
  <2>2. /\ Linked(x, accepted, SP, s, e) /\ SameNumbers(x, ring)
    <3> HIDE DEF s, e
    <3>1. /\ m = SlotAt(ring, d).frame.m /\ d \in Nat /\ d < ring.len
          /\ SlotAt(ring, d).frame.bad = "no"
      BY <1>1
    <3> HIDE DEF m
    <3>2. Spoiling(ring, accepted, spoiled, s, e, d, what, m)
      BY <1>5, <2>1, <3>1, Spoils
    <3> QED BY <3>2 DEF Spoiling, Bad
  <2>3. g \in Nat \X {"payload", "header"} /\ m \in Nat
    BY <1>1 DEF g
  <2> HIDE DEF SP, x, m
  <2>4. \A i \in 1 .. Len(gone) : gone[i][1] = i /\ (gone[i][2] = "lost" => \E f \in SP : f[1] = i)
    BY <1>3 DEF Kept
  <2>5. \A f \in SP : /\ f \in Nat \X {"payload", "header"}
                      /\ f[1] \in 1 .. Len(accepted) /\ Needed(accepted[f[1]]) = 1
    <3>1. \A f \in spoiled : /\ f \in Nat \X {"payload", "header"}
                             /\ f[1] \in 1 .. Len(accepted) /\ Needed(accepted[f[1]]) = 1
      BY DEF Kept
    <3> QED BY <1>1, <1>2, <1>5, <2>3, <3>1
  <2>6. x.expected = Len(gone) % Width /\ x.next = Len(accepted) % Width
    BY <2>1, <2>2 DEF SameNumbers
  <2>7. gone \in Seq(Fates)
    BY DEF Kept
  <2> QED BY <1>1, <2>2, <2>4, <2>5, <2>6, <2>7 DEF Kept
<1> QED BY <1>4, <1>5

\* No call takes back a message, and no fault is undone.
LEMMA OnlyGrows ==
  ASSUME accepted \in Seq(Nat), [RingNext]_ringVars
  PROVE  /\ accepted' \in Seq(Nat) /\ Len(accepted) <= Len(accepted')
         /\ \A i \in 1 .. Len(accepted) : accepted'[i] = accepted[i]
         /\ spoiled \subseteq spoiled'
<1>1. ASSUME NEW n \in Lengths, Send(n)
      PROVE  spoiled' = spoiled /\ accepted' \in {accepted, Append(accepted, n)} /\ n \in Nat
  BY <1>1, RingAssumption DEF Send
<1>2. Recv \/ CloseRing \/ UNCHANGED ringVars => accepted' = accepted /\ spoiled' = spoiled
  BY Zenon DEF Recv, CloseRing, ringVars
<1>3. ASSUME NEW d, NEW what, Spoil(d, what)
      PROVE  accepted' = accepted /\ spoiled \subseteq spoiled'
  BY <1>3 DEF Spoil
<1>4. CASE accepted' = accepted
  <2>1. spoiled \subseteq spoiled'
    BY <1>1, <1>2, <1>3 DEF RingNext
  <2> QED BY <1>4, <2>1
<1>5. ASSUME NEW n \in Nat, accepted' = Append(accepted, n), spoiled' = spoiled
      PROVE  /\ accepted' \in Seq(Nat) /\ Len(accepted) <= Len(accepted')
             /\ \A i \in 1 .. Len(accepted) : accepted'[i] = accepted[i]
             /\ spoiled \subseteq spoiled'
  BY <1>5
<1> QED BY <1>1, <1>2, <1>3, <1>4, <1>5 DEF RingNext

\* A spoiled chunk stays one.
LEMMA StaysSpoilt ==
  ASSUME accepted \in Seq(Nat), [RingNext]_ringVars
  PROVE  accepted' \in Seq(Nat) /\ (Spoilt => Spoilt')
<1>1. /\ accepted' \in Seq(Nat) /\ Len(accepted) <= Len(accepted')
      /\ \A i \in 1 .. Len(accepted) : accepted'[i] = accepted[i]
      /\ spoiled \subseteq spoiled'
  BY OnlyGrows
<1>2. ASSUME NEW f \in spoiled, f[1] \in 1 .. Len(accepted), Needed(accepted[f[1]]) # 1
      PROVE  Spoilt'
  <2>1. f \in spoiled' /\ f[1] \in 1 .. Len(accepted') /\ accepted'[f[1]] = accepted[f[1]]
    BY <1>1, <1>2
  <2> QED BY <1>2, <2>1 DEF Spoilt
<1> QED BY <1>1, <1>2 DEF Spoilt

LEMMA SoundSteps ==
  ASSUME Sound, [RingNext]_ringVars
  PROVE  Sound'
<1>1. accepted \in Seq(Nat) /\ accepted' \in Seq(Nat) /\ (Spoilt => Spoilt')
  BY StaysSpoilt DEF Sound
<1> SUFFICES ASSUME Kept PROVE Spoilt' \/ Kept'
  BY <1>1 DEF Sound
<1>2. ASSUME NEW n \in Lengths, Send(n) PROVE Kept'
  BY <1>1, <1>2, SendKeeps, RingAssumption
<1>3. CASE Recv
  BY <1>1, <1>3, RecvKeeps
<1>4. CASE CloseRing
  BY <1>4, CloseKeeps
<1>5. ASSUME NEW d \in Index, NEW what \in {"payload", "header"}, Spoil(d, what)
      PROVE  Spoilt' \/ Kept'
  BY <1>1, <1>5, SpoilKeeps
<1>6. CASE UNCHANGED ringVars
  BY <1>6 DEF ringVars, Kept
<1> QED BY <1>2, <1>3, <1>4, <1>5, <1>6 DEF RingNext

-----------------------------------------------------------------------------
(* What the window says *)

LEMMA SameFrame ==
  ASSUME NEW f \in FrameSet, NEW g \in FrameSet,
         f.m = g.m, f.index = g.index, f.total = g.total, f.from = g.from, f.to = g.to, g.bad = "no"
  PROVE  [f EXCEPT !.bad = "no"] = g
BY DEF FrameSet

\* A slot in use holds the frame its place calls for.
LEMMA Holds ==
  ASSUME NEW acc \in Seq(Nat), NEW sp, NEW p, NEW x, Stored(x, acc, sp, p)
  PROVE  /\ p = <<x.frame.m, x.frame.index>> /\ x.frame.total = Needed(acc[p[1]])
         /\ p[1] \in 1 .. Len(acc) /\ p[2] \in Nat
         /\ x.state = "COMMITTED" /\ x.seq = (x.frame.m - 1) % Width
         /\ [x.frame EXCEPT !.bad = "no"] = Frames(x.frame.m, acc[x.frame.m])[x.frame.index + 1]
<1> DEFINE f == x.frame
           m == p[1]
           i == p[2]
           n == acc[m]
           g == Frames(m, n)[i + 1]
<1>1. /\ p = <<m, i>> /\ m \in Nat /\ m \in 1 .. Len(acc) /\ i \in 0 .. Needed(n) - 1 /\ i \in Nat
      /\ x.state = "COMMITTED" /\ x.seq = (m - 1) % Width /\ n \in Nat
  BY DEF Stored
<1>2. /\ f \in FrameSet /\ f.m = m /\ f.index = i /\ f.total = Needed(n)
      /\ f.from = g.from /\ f.to = g.to
  BY DEF Stored, IsFrame
<1> HIDE DEF f, m, i, n
<1>3. Needed(n) # 0
  BY <1>1
<1>4. g \in FrameSet /\ g.m = m /\ g.index = i /\ g.total = Needed(n) /\ g.bad = "no"
  BY <1>1, <1>3, FrameFields
<1> HIDE DEF g
<1>5. [f EXCEPT !.bad = "no"] = g
  BY <1>2, <1>4, SameFrame
<1>6. g = Frames(f.m, acc[f.m])[f.index + 1]
  BY <1>2 DEF g, n
<1>7. p = <<f.m, f.index>> /\ f.total = Needed(acc[m]) /\ x.seq = (f.m - 1) % Width
  BY <1>1, <1>2 DEF n
<1> QED BY <1>1, <1>5, <1>6, <1>7 DEF f, m, i

LEMMA KeptShows == accepted \in Seq(Nat) /\ Kept => WindowHoldsTheRest
<1> SUFFICES ASSUME accepted \in Seq(Nat), Kept PROVE WindowHoldsTheRest
  OBVIOUS
<1> DEFINE n == Len(gone)
           L == ring.len
           M == Len(accepted)
           At(k) == SlotAt(ring, k)
           Place(k) == <<At(k).frame.m, At(k).frame.index>>
           EndsIt(k) == At(k).frame.index + 1 = At(k).frame.total
           s == <<n + 1, 0>>
           e == <<M + 1, 0>>
<1>1. n \in Nat /\ L \in Nat /\ M \in Nat /\ Slots \in Nat \ {0}
      /\ Linked(ring, accepted, spoiled, s, e)
  <2>1. Linked(ring, accepted, spoiled, s, e) /\ Len(gone) \in Nat
    BY DEF Kept
  <2> HIDE DEF s, e
  <2>2. ring \in RingSet
    BY <2>1 DEF Linked
  <2>3. ring.len \in Nat
    BY <2>2, Fields
  <2> QED BY <2>1, <2>3, Sizes
<1> HIDE DEF s, e
<1>2. PICK pl : Places(ring, accepted, spoiled, s, e, pl)
  BY <1>1 DEF Linked
<1>3. pl[0] = s /\ pl[L] = e
      /\ \A k \in 0 .. L - 1 : Stored(At(k), accepted, spoiled, pl[k]) /\ pl[k + 1] = After(accepted, pl[k])
  BY <1>2 DEF Places
<1>4. \A k \in 0 .. L - 1 :
        /\ pl[k] = Place(k) /\ At(k).frame.total = Needed(accepted[pl[k][1]])
        /\ pl[k][1] \in 1 .. M /\ pl[k][2] \in Nat
        /\ At(k).state = "COMMITTED" /\ At(k).seq = (At(k).frame.m - 1) % Width
        /\ [At(k).frame EXCEPT !.bad = "no"]
             = Frames(At(k).frame.m, accepted[At(k).frame.m])[At(k).frame.index + 1]
  BY <1>3, Holds
<1>5. \A k \in 0 .. L - 1 : pl[k + 1] = IF EndsIt(k) THEN <<Place(k)[1] + 1, 0>>
                                        ELSE <<Place(k)[1], Place(k)[2] + 1>>
  <2> SUFFICES ASSUME NEW k \in 0 .. L - 1
               PROVE  pl[k + 1] = IF EndsIt(k) THEN <<Place(k)[1] + 1, 0>>
                                  ELSE <<Place(k)[1], Place(k)[2] + 1>>
    OBVIOUS
  <2> DEFINE p == pl[k]
             q == Place(k)
             t == At(k).frame.total
             i == At(k).frame.index
  <2>1. pl[k + 1] = After(accepted, p) /\ p = q /\ t = Needed(accepted[p[1]]) /\ i = q[2]
    BY <1>3, <1>4
  <2>2. EndsIt(k) <=> i + 1 = t
    OBVIOUS
  <2> HIDE DEF p, q, t, i, EndsIt
  <2>3. After(accepted, p) = IF p[2] + 1 = Needed(accepted[p[1]]) THEN <<p[1] + 1, 0>> ELSE <<p[1], p[2] + 1>>
    BY DEF After
  <2>4. pl[k + 1] = IF EndsIt(k) THEN <<q[1] + 1, 0>> ELSE <<q[1], q[2] + 1>>
    BY <2>1, <2>2, <2>3
  <2> QED BY <2>4 DEF q
<1>6. \A i \in 1 .. n : gone[i][1] = i /\ gone[i][2] # "torn"
  <2> SUFFICES ASSUME NEW i \in 1 .. n PROVE gone[i][1] = i /\ gone[i][2] # "torn"
    OBVIOUS
  <2>1. gone \in Seq(Fates) /\ gone[i][1] = i
    BY DEF Kept
  <2>2. gone[i] \in Fates
    BY <2>1
  <2>3. gone[i][2] # "torn"
    BY <2>2 DEF Fates
  <2> QED BY <2>1, <2>3
<1>7. \A i \in 1 .. n : gone[i][2] = "lost" => \E f \in spoiled : f[1] = i
  BY DEF Kept
<1>8. ring.head = (ring.tail + L) % Slots
  BY <1>1 DEF Linked
<1>9. IF L = 0 THEN n = M
      ELSE Place(0) = <<n + 1, 0>> /\ At(L - 1).frame.m = M /\ EndsIt(L - 1)
  <2>1. CASE L = 0
    <3>1. s = e
      BY <1>3, <2>1
    <3>2. n + 1 = M + 1
      BY <3>1 DEF s, e
    <3> QED BY <1>1, <2>1, <3>2
  <2>2. CASE L # 0
    <3>1. 0 \in 0 .. L - 1 /\ L - 1 \in 0 .. L - 1 /\ L - 1 + 1 = L
      BY <1>1, <2>2
    <3>2. Place(0) = <<n + 1, 0>>
      BY <1>3, <1>4, <3>1 DEF s
    <3> DEFINE q == Place(L - 1)
    <3>3. q[1] \in Nat /\ q[2] \in Nat /\ q[1] = At(L - 1).frame.m
      <4> DEFINE p == pl[L - 1]
      <4>1. p = q /\ p[1] \in 1 .. M /\ p[2] \in Nat
        BY <1>4, <3>1
      <4>2. q[1] = At(L - 1).frame.m
        OBVIOUS
      <4> HIDE DEF p, q, At
      <4> QED BY <1>1, <4>1, <4>2
    <3>4. e = IF EndsIt(L - 1) THEN <<q[1] + 1, 0>> ELSE <<q[1], q[2] + 1>>
      BY <1>3, <1>5, <3>1
    <3> HIDE DEF q, EndsIt
    <3>5. EndsIt(L - 1) /\ q[1] = M
      <4>1. e[1] = M + 1 /\ e[2] = 0
        BY DEF e
      <4>2. CASE EndsIt(L - 1)
        BY <1>1, <3>3, <3>4, <4>1, <4>2
      <4>3. CASE ~EndsIt(L - 1)
        <5>1. e[2] = q[2] + 1
          BY <3>4, <4>3
        <5> QED BY <3>3, <4>1, <5>1
      <4> QED BY <4>2, <4>3
    <3> QED BY <2>2, <3>2, <3>3, <3>5
  <2> QED BY <2>1, <2>2
<1>10. \A k \in 1 .. L - 1 :
         Place(k) = IF EndsIt(k - 1) THEN <<Place(k - 1)[1] + 1, 0>>
                    ELSE <<Place(k - 1)[1], Place(k - 1)[2] + 1>>
  <2> SUFFICES ASSUME NEW k \in 1 .. L - 1
               PROVE  Place(k) = IF EndsIt(k - 1) THEN <<Place(k - 1)[1] + 1, 0>>
                                 ELSE <<Place(k - 1)[1], Place(k - 1)[2] + 1>>
    OBVIOUS
  <2> DEFINE j == k - 1
  <2>1. j \in 0 .. L - 1 /\ k = j + 1 /\ k \in 0 .. L - 1
    BY <1>1
  <2> HIDE DEF j, Place, EndsIt
  <2>2. pl[k] = Place(k)
    BY <1>4, <2>1
  <2>3. pl[k] = IF EndsIt(j) THEN <<Place(j)[1] + 1, 0>> ELSE <<Place(j)[1], Place(j)[2] + 1>>
    BY <1>5, <2>1
  <2> QED BY <2>2, <2>3 DEF j
<1> DEFINE Sits(k) ==
             IF k < L
             THEN /\ At(k).state = "COMMITTED" /\ At(k).seq = (At(k).frame.m - 1) % Width
                  /\ [At(k).frame EXCEPT !.bad = "no"]
                       = Frames(At(k).frame.m, accepted[At(k).frame.m])[At(k).frame.index + 1]
             ELSE At(k) = Free
<1>11. \A k \in 0 .. Slots - 1 : Sits(k)
  <2> SUFFICES ASSUME NEW k \in 0 .. Slots - 1 PROVE Sits(k)
    OBVIOUS
  <2>1. CASE k < L
    <3>1. k \in 0 .. L - 1
      BY <1>1, <2>1
    <3> QED BY <1>4, <2>1, <3>1
  <2>2. CASE ~(k < L)
    <3>1. k \in L .. Slots - 1
      BY <1>1, <2>2
    <3>2. At(k) = Free
      BY <1>1, <3>1 DEF Linked
    <3> HIDE DEF At
    <3> QED BY <2>2, <3>2
  <2> QED BY <2>1, <2>2
<1>12. ring.expected = n % Width /\ ring.next = M % Width
  BY DEF Kept
<1> HIDE DEF n, L, M, At, Place, EndsIt, Sits
<1> QED
  BY <1>6, <1>7, <1>8, <1>9, <1>10, <1>11, <1>12, Zenon
     DEF WindowHoldsTheRest, n, L, M, At, Place, EndsIt, Sits, SlotAt

-----------------------------------------------------------------------------
(* The prototype's queue *)

Items == [seq : Nat, bad : {"no", "payload", "header"}]
ProtoSet == [queue : Seq(Items), next : Nat, closed : BOOLEAN]

\* q holds messages g + 1 to M, and what is spoiled of them.
Queue(q, g, M, sp) ==
  /\ q \in Seq(Items) /\ g + Len(q) = M
  /\ \A k \in 1 .. Len(q) : /\ q[k].seq = (g + k - 1) % Width
                            /\ q[k].bad # "no" <=> \E w : <<g + k, w>> \in sp

LEMMA QueueGrows ==
  ASSUME NEW q, NEW g \in Nat, NEW M \in Nat, NEW sp, Queue(q, g, M, sp), \A w : <<M + 1, w>> \notin sp,
         NEW c \in Items, c.seq = M % Width, c.bad = "no"
  PROVE  Queue(Append(q, c), g, M + 1, sp) /\ Append(q, c) \in Seq(Items)
<1> DEFINE A == Append(q, c)
           n == Len(q)
<1>1. q \in Seq(Items) /\ n \in Nat /\ g + n = M
  BY DEF Queue
<1>2. A \in Seq(Items) /\ Len(A) = n + 1 /\ A[n + 1] = c /\ \A k \in 1 .. n : A[k] = q[k]
  BY <1>1
<1> HIDE DEF A, n
<1>3. ASSUME NEW k \in 1 .. n + 1
      PROVE  A[k].seq = (g + k - 1) % Width /\ (A[k].bad # "no" <=> \E w : <<g + k, w>> \in sp)
  <2>1. CASE k = n + 1
    <3>1. g + k - 1 = M /\ g + k = M + 1
      BY <1>1, <2>1
    <3> QED BY <1>2, <2>1, <3>1
  <2>2. CASE k # n + 1
    <3>1. k \in 1 .. n
      BY <1>1, <2>2
    <3> QED BY <1>2, <3>1 DEF Queue, n
  <2> QED BY <2>1, <2>2
<1>4. g + (n + 1) = M + 1
  BY <1>1
<1> QED BY <1>2, <1>3, <1>4 DEF Queue, A

LEMMA QueueShrinks ==
  ASSUME NEW q, NEW g \in Nat, NEW M \in Nat, NEW sp, Queue(q, g, M, sp), q # <<>>
  PROVE  /\ Queue(Tail(q), g + 1, M, sp) /\ Tail(q) \in Seq(Items)
         /\ Head(q).bad # "no" <=> \E w : <<g + 1, w>> \in sp
<1> DEFINE T == Tail(q)
           n == Len(q)
<1>1. q \in Seq(Items) /\ n \in Nat /\ g + n = M /\ n # 0
  BY DEF Queue
<1>2. T \in Seq(Items) /\ Len(T) = n - 1 /\ \A k \in 1 .. n - 1 : T[k] = q[k + 1]
  BY <1>1
<1>3. Head(q) = q[1] /\ 1 \in 1 .. n
  BY <1>1
<1> HIDE DEF T, n
<1>4. ASSUME NEW k \in 1 .. n - 1
      PROVE  T[k].seq = (g + 1 + k - 1) % Width /\ (T[k].bad # "no" <=> \E w : <<g + 1 + k, w>> \in sp)
  <2> DEFINE j == k + 1
  <2>1. j \in 1 .. n /\ g + j - 1 = g + 1 + k - 1 /\ g + j = g + 1 + k /\ T[k] = q[j]
    BY <1>1, <1>2
  <2> HIDE DEF j
  <2>2. q[j].seq = (g + j - 1) % Width /\ (q[j].bad # "no" <=> \E w : <<g + j, w>> \in sp)
    BY <2>1 DEF Queue, n
  <2> QED BY <2>1, <2>2
<1>5. g + 1 + (n - 1) = M
  BY <1>1
<1>6. Head(q).bad # "no" <=> \E w : <<g + 1, w>> \in sp
  BY <1>3 DEF Queue, n
<1> QED BY <1>2, <1>4, <1>5, <1>6 DEF Queue, T

LEMMA QueueSpoils ==
  ASSUME NEW q, NEW g \in Nat, NEW M \in Nat, NEW sp, Queue(q, g, M, sp), NEW i \in 1 .. Len(q),
         NEW what \in {"payload", "header"}
  PROVE  Queue([q EXCEPT ![i].bad = what], g, M, sp \cup {<<g + i, what>>})
<1> DEFINE z == [q[i] EXCEPT !.bad = what]
           Q == [q EXCEPT ![i].bad = what]
           n == Len(q)
           b == <<g + i, what>>
           SP == sp \cup {b}
<1>1. q \in Seq(Items) /\ n \in Nat /\ g + n = M /\ i \in 1 .. n
  BY DEF Queue
<1>2. q[i] \in Items
  BY <1>1
<1>3. z \in Items /\ z.seq = q[i].seq /\ z.bad = what
  BY <1>2 DEF Items
<1>4. Q = [q EXCEPT ![i] = z]
  OBVIOUS
<1> HIDE DEF z, Q
<1>5. Q \in Seq(Items) /\ Len(Q) = n /\ \A k \in 1 .. n : Q[k] = IF k = i THEN z ELSE q[k]
  BY <1>1, <1>3, <1>4
<1> HIDE DEF n
<1>6. ASSUME NEW k \in 1 .. n
      PROVE  Q[k].seq = (g + k - 1) % Width /\ (Q[k].bad # "no" <=> \E w : <<g + k, w>> \in SP)
  <2>1. q[k].seq = (g + k - 1) % Width /\ (q[k].bad # "no" <=> \E w : <<g + k, w>> \in sp)
    BY DEF Queue, n
  <2>2. CASE k = i
    <3>1. <<g + k, what>> \in SP
      BY <2>2
    <3>2. z.bad # "no"
      BY <1>3
    <3> QED BY <1>3, <1>5, <2>1, <2>2, <3>1, <3>2
  <2>3. CASE k # i
    <3>1. g + k # g + i
      BY <1>1, <2>3
    <3>2. \A w : <<g + k, w>> # b
      BY <3>1
    <3>3. \A w : <<g + k, w>> \in SP <=> <<g + k, w>> \in sp
      BY <3>2
    <3> QED BY <1>5, <2>1, <2>3, <3>3
  <2> QED BY <2>2, <2>3
<1> HIDE DEF SP
<1> QED BY <1>1, <1>5, <1>6 DEF Queue, Q, SP

Kept1(q) == IF Len(q) = Slots THEN Tail(q) ELSE q

\* What the prototype's send returns.
ProtoSends(y, n) ==
  LET full == Len(proto.queue) = Slots
  IN \/ proto.closed /\ y = Step(proto, "closed", <<>>)
     \/ ~proto.closed /\ n > SlotSize /\ y = Step(proto, "too large", <<>>)
     \/ ~proto.closed /\ n <= SlotSize /\ full /\ policy = "Raise" /\ y = Step(proto, "full", <<>>)
     \/ ~proto.closed /\ n <= SlotSize /\ full /\ policy = "DropNewest" /\ y = Step(proto, "skip", <<>>)
     \/ /\ ~proto.closed /\ n <= SlotSize /\ ~(full /\ policy \in {"Raise", "DropNewest"})
        /\ \E x : /\ y = Step(x, Ok, <<>>)
                  /\ x.queue = Append(Kept1(proto.queue), [seq |-> proto.next, bad |-> "no"])
                  /\ x.next = NextSeq(proto.next) /\ x.closed = proto.closed
                  /\ x = [queue |-> x.queue, next |-> x.next, closed |-> x.closed]

LEMMA ProtoSendIs ==
  ASSUME proto \in ProtoSet, NEW n \in Nat
  PROVE  ProtoSends(ProtoSend(n), n)
<1> DEFINE full == Len(proto.queue) = Slots
           q == Append(Kept1(proto.queue), [seq |-> proto.next, bad |-> "no"])
           x == [proto EXCEPT !.queue = q, !.next = NextSeq(@)]
<1>1. n > SlotSize <=> ~(n <= SlotSize)
  BY Sizes
<1>2. CASE proto.closed
  <2>1. ProtoSend(n) = Step(proto, "closed", <<>>)
    BY <1>2 DEF ProtoSend
  <2> QED BY <1>2, <2>1 DEF ProtoSends
<1>3. CASE ~proto.closed /\ n > SlotSize
  <2>1. ProtoSend(n) = Step(proto, "too large", <<>>)
    BY <1>1, <1>3 DEF ProtoSend
  <2> QED BY <1>3, <2>1 DEF ProtoSends
<1>4. CASE ~proto.closed /\ n <= SlotSize /\ full /\ policy = "Raise"
  <2>1. ProtoSend(n) = Step(proto, "full", <<>>)
    BY <1>1, <1>4 DEF ProtoSend
  <2> QED BY <1>4, <2>1 DEF ProtoSends
<1>5. CASE ~proto.closed /\ n <= SlotSize /\ full /\ policy = "DropNewest"
  <2>1. ProtoSend(n) = Step(proto, "skip", <<>>)
    BY <1>1, <1>5 DEF ProtoSend
  <2> QED BY <1>5, <2>1 DEF ProtoSends
<1>6. CASE ~proto.closed /\ n <= SlotSize /\ ~(full /\ policy \in {"Raise", "DropNewest"})
  <2>1. policy = "Raise" \/ policy = "DropNewest" => policy \in {"Raise", "DropNewest"}
    OBVIOUS
  <2>2. ProtoSend(n) = Step(x, Ok, <<>>)
    BY <1>1, <1>6, <2>1, Zenon DEF ProtoSend, Kept1, Ok
  <2> DEFINE a == [proto EXCEPT !.queue = q]
  <2> HIDE DEF q
  <2>3. a = [queue |-> q, next |-> proto.next, closed |-> proto.closed]
    BY DEF ProtoSet
  <2>4. x = [a EXCEPT !.next = NextSeq(proto.next)]
    BY DEF ProtoSet
  <2> HIDE DEF a, x
  <2>5. x = [queue |-> q, next |-> NextSeq(proto.next), closed |-> proto.closed]
    BY <2>3, <2>4
  <2>6. x.queue = q /\ x.next = NextSeq(proto.next) /\ x.closed = proto.closed
        /\ x = [queue |-> x.queue, next |-> x.next, closed |-> x.closed]
    BY <2>5
  <2> QED BY <1>6, <2>2, <2>6 DEF ProtoSends, q
<1> QED BY <1>1, <1>2, <1>3, <1>4, <1>5, <1>6

-----------------------------------------------------------------------------
(* The ring answers as its prototype *)

\* Every accepted message fits a slot, and every header is sound.
Plain ==
  /\ \A i \in DOMAIN accepted : Needed(accepted[i]) = 1
  /\ \A f \in spoiled : f[2] = "payload"

Agree(r) == r[1] # "too large" /\ r[2] # "too large" => r[1] = r[2]

\* The prototype is what the ring is, without its slots.
Twins ==
  /\ proto \in ProtoSet
  /\ Queue(proto.queue, Len(gone), Len(accepted), spoiled)
  /\ proto.next = Len(accepted) % Width /\ proto.closed = ring.closed
  /\ Agree(result)

\* One slot for one message.
LEMMA SameLength ==
  ASSUME Kept, accepted \in Seq(Nat), Plain
  PROVE  /\ ring.len \in Nat /\ Len(gone) + ring.len = Len(accepted)
         /\ \A k \in 0 .. ring.len - 1 :
              /\ SlotAt(ring, k).frame.m = Len(gone) + 1 + k
              /\ SlotAt(ring, k).seq = (Len(gone) + k) % Width
<1> DEFINE m == Len(gone) + 1
           M == Len(accepted) + 1
<1>1. m \in Nat /\ M \in Nat /\ Linked(ring, accepted, spoiled, <<m, 0>>, <<M, 0>>)
  BY DEF Kept
<1>2. \A i \in 1 .. Len(accepted) : Needed(accepted[i]) = 1
  BY DEF Plain
<1> HIDE DEF m, M
<1>9. Spans(ring, accepted, spoiled, m, M)
  BY <1>1, <1>2 DEF Spans
<1>3. /\ ring.len \in Nat /\ m + ring.len = M
      /\ \A k \in 0 .. ring.len - 1 :
           SlotAt(ring, k).frame.m = m + k /\ SlotAt(ring, k).seq = (m + k - 1) % Width
  BY <1>9, Singles
<1>4. Len(gone) \in Nat /\ Len(accepted) \in Nat
  BY DEF Kept
<1>5. \A k \in 0 .. ring.len - 1 : m + k - 1 = Len(gone) + k /\ m + k = Len(gone) + 1 + k
  BY <1>3, <1>4 DEF m
<1>6. Len(gone) + ring.len = Len(accepted)
  BY <1>3, <1>4 DEF m, M
<1>7. \A k \in 0 .. ring.len - 1 :
        SlotAt(ring, k).frame.m = Len(gone) + 1 + k /\ SlotAt(ring, k).seq = (Len(gone) + k) % Width
  BY <1>3, <1>5
<1> QED BY <1>3, <1>6, <1>7

\* To drop one message makes room for one, and one is enough.
LEMMA DropsJustOne ==
  ASSUME Kept, accepted \in Seq(Nat), Plain, ~Room(ring, 1),
         NEW p, p.err = Ok => Room(p.r, 1),
         Evicted(p, ring, 1, Len(gone) + 1, <<Len(accepted) + 1, 0>>, accepted, spoiled)
  PROVE  p.err = Ok /\ p.out \in Seq(Fates) /\ Len(p.out) = 1 /\ ring.len = Slots /\ p.r.closed = ring.closed
<1> DEFINE m == Len(gone) + 1
           M == Len(accepted) + 1
           d == Len(p.out)
<1>1. m \in Nat /\ M \in Nat /\ ring.len \in Nat /\ Len(gone) + ring.len = Len(accepted)
      /\ m + ring.len = M /\ Slots \in Nat \ {0}
  <2>1. Len(gone) \in Nat /\ Len(accepted) \in Nat
    BY DEF Kept
  <2>2. ring.len \in Nat /\ Len(gone) + ring.len = Len(accepted)
    BY SameLength
  <2> DEFINE a == Len(gone)
             b == Len(accepted)
             c == ring.len
  <2>3. a \in Nat /\ b \in Nat /\ c \in Nat /\ a + c = b
    BY <2>1, <2>2
  <2> HIDE DEF a, b, c
  <2>4. a + 1 + c = b + 1 /\ a + 1 \in Nat /\ b + 1 \in Nat
    BY <2>3
  <2> QED BY <2>3, <2>4, Sizes DEF a, b, c
<1>2. p.err = Ok /\ p.out \in Seq(Fates) /\ d \in Nat
  <2>1. ASSUME NEW w, <<w, "header">> \in spoiled PROVE FALSE
    <3> DEFINE g == <<w, "header">>
    <3>1. g[2] = "header" /\ g \in spoiled
      BY <2>1
    <3> QED BY <3>1 DEF Plain
  <2>2. /\ p \in StepSet /\ p.err \in {Ok, "corrupted"}
        /\ p.err = "corrupted" => \E w : <<w, "header">> \in spoiled
    BY DEF Evicted
  <2>3. p.out \in Seq(Fates)
    BY <2>2 DEF StepSet
  <2>4. d \in Nat
    BY <2>3
  <2>5. p.err = Ok
    BY <2>1, <2>2
  <2> QED BY <2>3, <2>4, <2>5
<1> HIDE DEF m, M, d
<1>3. /\ Linked(p.r, accepted, spoiled, <<m + d, 0>>, <<M, 0>>)
      /\ d # 0 => /\ m + d - 1 \in 1 .. Len(accepted)
                  /\ Slots - 1 < p.r.len + Needed(accepted[m + d - 1])
      /\ d = 0 => p.r = ring
      /\ p.r.closed = ring.closed
  BY DEF Evicted, m, M, d
<1>4. p.r.len \in Nat /\ m + d + p.r.len = M
  <2> DEFINE k == m + d
  <2>1. k \in Nat
    BY <1>1, <1>2
  <2> HIDE DEF k
  <2>2. Linked(p.r, accepted, spoiled, <<k, 0>>, <<M, 0>>)
    BY <1>3 DEF k
  <2>3. \A i \in 1 .. Len(accepted) : Needed(accepted[i]) = 1
    BY DEF Plain
  <2>4. p.r.len \in Nat /\ k + p.r.len = M
    <3>1. Spans(p.r, accepted, spoiled, k, M)
      BY <1>1, <2>1, <2>2, <2>3 DEF Spans
    <3> QED BY <3>1, Singles
  <2> QED BY <2>4 DEF k
<1>5. ring.len = Slots
  <2>1. ring.len <= Slots /\ ~(Slots - ring.len >= 1)
    BY Fields DEF Kept, Linked, Room
  <2> QED BY <1>1, <2>1
<1>6. d # 0
  BY <1>2, <1>3
<1>7. Slots - p.r.len >= 1 /\ Slots - 1 < p.r.len + 1
  <2>1. Slots - p.r.len >= 1
    BY <1>2 DEF Room
  <2>2. Needed(accepted[m + d - 1]) = 1
    BY <1>3, <1>6 DEF Plain
  <2> QED BY <1>3, <1>6, <2>1, <2>2
<1>8. d = 1
  <2> DEFINE L == p.r.len
             K == ring.len
  <2>1. /\ L \in Nat /\ K \in Nat /\ m \in Nat /\ d \in Nat /\ Slots \in Nat /\ M \in Nat
        /\ m + d + L = M /\ m + K = M /\ K = Slots /\ Slots - L >= 1 /\ Slots - 1 < L + 1
    BY <1>1, <1>2, <1>4, <1>5, <1>7
  <2> HIDE DEF L, K
  <2> QED BY <2>1
<1> QED BY <1>2, <1>3, <1>5, <1>8 DEF d

\* The calls that change nothing.
LEMMA Unmoved ==
  ASSUME Twins, NEW err, NEW its, err = its \/ err = "too large" \/ its = "too large",
         ring' = ring, proto' = proto, Len(gone') = Len(gone), Len(accepted') = Len(accepted),
         spoiled' = spoiled, result' = <<err, its>>
  PROVE  Twins'
BY DEF Twins, Agree

\* The call that accepts a message, d others having been dropped.
LEMMA TwinsAccept ==
  ASSUME Twins, Kept, accepted \in Seq(Nat), NEW d \in Nat,
         NEW q, Queue(q, Len(gone) + d, Len(accepted), spoiled),
         NEW x, x = [queue |-> x.queue, next |-> x.next, closed |-> x.closed],
         x.queue = Append(q, [seq |-> proto.next, bad |-> "no"]),
         x.next = NextSeq(proto.next), x.closed = proto.closed,
         proto' = x, ring'.closed = ring.closed, Len(gone') = Len(gone) + d,
         Len(accepted') = Len(accepted) + 1, spoiled' = spoiled, result' = <<Ok, Ok>>
  PROVE  Twins'
<1> DEFINE M == Len(accepted)
           g == Len(gone) + d
           c == [seq |-> proto.next, bad |-> "no"]
<1>1. M \in Nat /\ g \in Nat
  BY DEF Kept
<1>2. \A w : <<M + 1, w>> \notin spoiled
  <2> SUFFICES ASSUME NEW w, <<M + 1, w>> \in spoiled PROVE FALSE
    OBVIOUS
  <2> DEFINE f == <<M + 1, w>>
  <2>1. f[1] = M + 1
    OBVIOUS
  <2>2. f[1] \in 1 .. M
    BY DEF Kept
  <2> QED BY <1>1, <2>1, <2>2
<1>3. proto.next = M % Width /\ proto.closed = ring.closed /\ proto.closed \in BOOLEAN
  BY DEF Twins, ProtoSet
<1>4. c \in Items /\ c.seq = M % Width /\ c.bad = "no" /\ NextSeq(proto.next) = (M + 1) % Width
      /\ (M + 1) % Width \in Nat
  BY <1>1, <1>3, CountedNext DEF Items
<1> HIDE DEF M, g, c
<1>5. Queue(Append(q, c), g, M + 1, spoiled) /\ Append(q, c) \in Seq(Items)
  <2>1. Queue(q, g, M, spoiled)
    BY DEF g, M
  <2> QED BY <1>1, <1>2, <1>4, <2>1, QueueGrows
<1>6. x \in ProtoSet
  <2>1. x.queue \in Seq(Items) /\ x.next \in Nat /\ x.closed \in BOOLEAN
    BY <1>3, <1>4, <1>5 DEF c
  <2> QED BY <2>1 DEF ProtoSet
<1>7. Queue(x.queue, Len(gone'), Len(accepted'), spoiled')
  BY <1>5 DEF c, g, M
<1>8. x.next = Len(accepted') % Width /\ x.closed = ring'.closed
  BY <1>3, <1>4 DEF M
<1>9. Agree(result')
  BY DEF Agree
<1> QED BY <1>6, <1>7, <1>8, <1>9 DEF Twins

LEMMA SendTwins ==
  ASSUME Twins, Kept, accepted \in Seq(Nat), Plain, NEW n \in Nat, Send(n), Plain'
  PROVE  Twins'
<1> DEFINE y == RingSend(n)
           z == ProtoSend(n)
           N == Needed(n)
           m == Len(gone) + 1
           M == Len(accepted)
           full == Len(proto.queue) = Slots
           p == Prepare(ring, N)
<1>1. /\ ring' = y.r /\ gone' = gone \o y.out /\ spoiled' = spoiled /\ proto' = z.r
      /\ result' = <<y.err, z.err>> /\ accepted' = AcceptedBy(y, n)
  BY DEF Send, Called, AcceptedBy, Ok
<1>2. Sends(y, n)
  BY SendIs
<1>3. ProtoSends(z, n)
  BY ProtoSendIs DEF Twins
<1> HIDE DEF y, z
<1>4. /\ m \in Nat \ {0} /\ m - 1 = Len(gone) /\ gone \in Seq(Fates) /\ Len(gone) \in Nat /\ M \in Nat
      /\ ring.len \in Nat /\ ring.len <= Slots /\ Len(gone) + ring.len = M /\ Slots \in Nat \ {0}
  <2>1. gone \in Seq(Fates) /\ ring \in RingSet
    BY DEF Kept, Linked
  <2>2. ring.len \in Nat /\ Len(gone) + ring.len = M
    BY SameLength
  <2>3. Len(gone) \in Nat /\ M \in Nat
    BY <2>1
  <2> QED BY <2>1, <2>2, <2>3, Fields, Sizes
<1>5. /\ proto.queue \in Seq(Items) /\ Len(proto.queue) = ring.len /\ proto.closed = ring.closed
      /\ Queue(proto.queue, Len(gone), M, spoiled)
  <2>1. Queue(proto.queue, Len(gone), M, spoiled) /\ proto.closed = ring.closed
    BY DEF Twins
  <2>2. proto.queue \in Seq(Items) /\ Len(gone) + Len(proto.queue) = M
    BY <2>1 DEF Queue
  <2>3. Len(proto.queue) \in Nat
    BY <2>2
  <2> QED BY <1>4, <2>1, <2>2, <2>3
<1>6. N = 1 <=> n <= SlotSize
  BY NeededSlots
<1>7. n > SlotSize <=> ~(n <= SlotSize)
  BY Sizes
<1> HIDE DEF m, M, N, p
\* Nothing is accepted, and the two stay as they are.
<1>8. ASSUME NEW err, y = Step(ring, err, <<>>), err # Ok,
             NEW its, z = Step(proto, its, <<>>), err = its \/ err = "too large" \/ its = "too large"
      PROVE  Twins'
  <2> DEFINE o == <<>>
  <2>5. y = Step(ring, err, o) /\ z = Step(proto, its, o)
    BY <1>8
  <2> HIDE DEF o
  <2>6. y.r = ring /\ y.err = err /\ y.out = o
    BY <2>5, StepFields
  <2>7. z.r = proto /\ z.err = its
    BY <2>5, StepFields
  <2>1. y.r = ring /\ y.err = err /\ y.out = <<>> /\ z.r = proto /\ z.err = its
    BY <2>6, <2>7 DEF o
  <2>2. gone \o <<>> = gone
    BY <1>4
  <2>3. /\ ring' = ring /\ proto' = proto /\ gone' = gone /\ accepted' = accepted /\ spoiled' = spoiled
        /\ result' = <<err, its>>
    BY <1>1, <1>8, <2>1, <2>2 DEF AcceptedBy
  <2>4. Len(gone') = Len(gone) /\ Len(accepted') = Len(accepted)
    BY <2>3
  <2> QED BY <1>8, <2>3, <2>4, Unmoved
<1>9. CASE ring.closed
  <2>1. y = Step(ring, "closed", <<>>)
    BY <1>2, <1>9 DEF Sends
  <2>2. z = Step(proto, "closed", <<>>)
    BY <1>3, <1>5, <1>9 DEF ProtoSends
  <2> QED BY <1>8, <2>1, <2>2, OkIsNoError
<1>10. CASE ~ring.closed /\ N = 0
  <2>1. y = Step(ring, "too large", <<>>)
    BY <1>2, <1>10 DEF Sends, N
  <2>3. N # 1
    BY <1>10
  <2>4. ~proto.closed /\ n > SlotSize /\ ~(n <= SlotSize)
    BY <1>5, <1>6, <1>7, <1>10, <2>3
  <2>2. z = Step(proto, "too large", <<>>)
    BY <1>3, <2>4 DEF ProtoSends
  <2> QED BY <1>8, <2>1, <2>2, OkIsNoError
<1>11. CASE ~ring.closed /\ N # 0
  <2>1. /\ Prepared(p, ring, N, m, <<M + 1, 0>>, accepted, spoiled)
        /\ p.err # Ok => y = p
        /\ p.err = Ok => \E x : /\ y = Step(x, Ok, p.out) /\ x.closed = p.r.closed
    BY <1>2, <1>11 DEF Sends, N, m, M, p
  <2>2. ~proto.closed
    BY <1>5, <1>11
  \* The policy refuses the message.
  <2>3. ASSUME NEW err \in {"full", "skip"}, p = Step(ring, err, <<>>), ~Room(ring, N),
               policy = IF err = "full" THEN "Raise" ELSE "DropNewest"
        PROVE  Twins'
    <3> DEFINE o == <<>>
    <3>5. p = Step(ring, err, o)
      BY <2>3
    <3> HIDE DEF o
    <3>6. p.err = err
      BY <3>5, StepFields
    <3>7. err # Ok
      BY <2>3, OkIsNoError
    <3>1. p.err = err /\ err # Ok
      BY <3>6, <3>7
    <3>2. y = Step(ring, err, <<>>)
      BY <2>1, <2>3, <3>1
    <3>3. CASE n > SlotSize
      <4>1. z = Step(proto, "too large", <<>>)
        BY <1>3, <1>7, <2>2, <3>3 DEF ProtoSends
      <4> QED BY <1>8, <3>1, <3>2, <4>1
    <3>4. CASE n <= SlotSize
      <4>1. full
        <5>1. ~(Slots - ring.len >= 1)
          BY <1>6, <2>3, <3>4 DEF Room
        <5> QED BY <1>4, <1>5, <5>1
      <4>2. z = Step(proto, err, <<>>)
        <5>1. ~(n > SlotSize)
          BY <1>7, <3>4
        <5>2. policy \in {"Raise", "DropNewest"}
          BY <2>3
        <5>3. CASE err = "full"
          <6>1. policy = "Raise" /\ policy # "DropNewest"
            BY <2>3, <5>3
          <6> QED BY <1>3, <2>2, <4>1, <5>1, <5>2, <5>3, <6>1 DEF ProtoSends
        <5>4. CASE err = "skip"
          <6>1. policy = "DropNewest" /\ policy # "Raise"
            BY <2>3, <5>4
          <6> QED BY <1>3, <2>2, <4>1, <5>1, <5>2, <5>4, <6>1 DEF ProtoSends
        <5> QED BY <5>3, <5>4
      <4> QED BY <1>8, <3>1, <3>2, <4>2
    <3> QED BY <1>7, <3>3, <3>4
  \* There is room, after a drop or without one.
  <2>4. ASSUME p.err = Ok PROVE N = 1 /\ Len(accepted') = M + 1 /\ y.err = Ok
    <3>1. y.err = Ok
      BY <2>1, <2>4, StepFields
    <3>2. accepted' = Append(accepted, n)
      BY <1>1, <3>1 DEF AcceptedBy
    <3>3. Len(accepted') = M + 1 /\ accepted'[M + 1] = n /\ M + 1 \in DOMAIN accepted'
      BY <1>4, <3>2 DEF M
    <3>4. Needed(accepted'[M + 1]) = 1
      BY <3>3 DEF Plain
    <3> QED BY <3>1, <3>3, <3>4 DEF N
  <2>5. ASSUME NEW d \in Nat, p.err = Ok, p.out \in Seq(Fates), Len(p.out) = d, p.r.closed = ring.closed,
               Queue(Kept1(proto.queue), Len(gone) + d, M, spoiled),
               ~(full /\ policy \in {"Raise", "DropNewest"})
        PROVE  Twins'
    <3>1. PICK x : y = Step(x, Ok, p.out) /\ x.closed = p.r.closed
      BY <2>1, <2>5
    <3>2. y.r = x /\ y.err = Ok /\ y.out = p.out
      BY <3>1, StepFields
    <3>3. PICK v : /\ z = Step(v, Ok, <<>>)
                   /\ v.queue = Append(Kept1(proto.queue), [seq |-> proto.next, bad |-> "no"])
                   /\ v.next = NextSeq(proto.next) /\ v.closed = proto.closed
                   /\ v = [queue |-> v.queue, next |-> v.next, closed |-> v.closed]
      <4>1. n <= SlotSize /\ ~(n > SlotSize)
        BY <1>6, <1>7, <2>4, <2>5
      <4>2. ~(full /\ policy = "Raise") /\ ~(full /\ policy = "DropNewest")
        BY <2>5
      <4> HIDE DEF full
      <4> QED BY <1>3, <2>2, <4>1, <4>2 DEF ProtoSends, full
    <3>4. z.r = v /\ z.err = Ok
      BY <3>3, StepFields
    <3> DEFINE o == p.out
    <3>9. o \in Seq(Fates) /\ Len(o) = d /\ gone \in Seq(Fates)
      BY <1>4, <2>5
    <3> HIDE DEF o
    <3>10. Len(gone \o o) = Len(gone) + Len(o)
      BY <3>9
    <3>5. Len(gone \o p.out) = Len(gone) + d
      BY <3>9, <3>10 DEF o
    <3>6. /\ proto' = v /\ ring'.closed = ring.closed /\ Len(gone') = Len(gone) + d
          /\ Len(accepted') = Len(accepted) + 1 /\ spoiled' = spoiled /\ result' = <<Ok, Ok>>
      BY <1>1, <2>4, <2>5, <3>1, <3>2, <3>4, <3>5 DEF M
    <3>7. Queue(Kept1(proto.queue), Len(gone) + d, Len(accepted), spoiled)
      BY <2>5 DEF M
    <3> DEFINE q == Kept1(proto.queue)
    <3> HIDE DEF q
    <3>8. v.queue = Append(q, [seq |-> proto.next, bad |-> "no"]) /\ Queue(q, Len(gone) + d, Len(accepted), spoiled)
      BY <3>3, <3>7 DEF q
    <3> QED BY <2>5, <3>3, <3>6, <3>8, TwinsAccept
  <2>6. CASE Room(ring, N) /\ p = Step(ring, Ok, <<>>)
    <3> DEFINE o == <<>>
    <3>1. p.err = Ok /\ p.r = ring /\ p.out = o
      BY <2>6, StepFields
    <3>2. o \in Seq(Fates) /\ Len(o) = 0 /\ Len(gone) + 0 = Len(gone) /\ 0 \in Nat
      BY <1>4
    <3>3. ~full
      <4>1. Slots - ring.len >= 1
        BY <2>4, <2>6, <3>1 DEF Room
      <4> QED BY <1>4, <1>5, <4>1
    <3>4. Kept1(proto.queue) = proto.queue
      BY <3>3 DEF Kept1
    <3> HIDE DEF o
    <3> QED BY <1>5, <2>5, <3>1, <3>2, <3>3, <3>4
  <2>7. CASE /\ ~Room(ring, N) /\ policy \notin {"Raise", "DropNewest"}
             /\ Evicted(p, ring, N, m, <<M + 1, 0>>, accepted, spoiled)
             /\ p.err = Ok => Room(p.r, N)
    <3>1. p.err = Ok
      <4>1. p.err \in {Ok, "corrupted"} /\ (p.err = "corrupted" => \E w : <<w, "header">> \in spoiled)
        BY <2>7 DEF Evicted
      <4>2. ASSUME NEW w, <<w, "header">> \in spoiled PROVE FALSE
        <5> DEFINE f == <<w, "header">>
        <5>1. f[2] = "header" /\ f \in spoiled
          BY <4>2
        <5> QED BY <5>1 DEF Plain
      <4> QED BY <4>1, <4>2
    <3>2. N = 1
      BY <2>4, <3>1
    <3>3. p.out \in Seq(Fates) /\ Len(p.out) = 1 /\ ring.len = Slots /\ p.r.closed = ring.closed
      <4>1. /\ ~Room(ring, 1) /\ p.err = Ok => Room(p.r, 1)
            /\ Evicted(p, ring, 1, Len(gone) + 1, <<Len(accepted) + 1, 0>>, accepted, spoiled)
        BY <2>7, <3>2 DEF m, M
      <4> QED BY <2>7, <3>2, <4>1, DropsJustOne
    <3>4. full /\ proto.queue # <<>>
      BY <1>4, <1>5, <3>3
    <3> DEFINE q == proto.queue
               T == Tail(q)
               g == Len(gone)
    <3>5. Kept1(q) = T
      BY <3>4 DEF Kept1
    <3>6. Queue(q, g, M, spoiled) /\ q # <<>> /\ g \in Nat
      BY <1>4, <1>5, <3>4
    <3> HIDE DEF q, g
    <3>7. Queue(T, g + 1, M, spoiled)
      BY <1>4, <3>6, QueueShrinks
    <3>8. Queue(Kept1(proto.queue), Len(gone) + 1, M, spoiled)
      BY <3>5, <3>7 DEF q, g
    <3> QED BY <2>5, <2>7, <3>1, <3>3, <3>8
  <2> QED BY <2>1, <2>3, <2>6, <2>7 DEF Prepared
<1> QED BY <1>9, <1>10, <1>11

\* What the prototype's receive returns, for a message and for none.
LEMMA ProtoRecvIs ==
  ASSUME proto \in ProtoSet
  PROVE  /\ proto.queue = <<>> => ProtoRecv = Step(proto, IF proto.closed THEN "closed" ELSE "empty", <<>>)
         /\ proto.queue # <<>> =>
              \E x : /\ ProtoRecv = Step(x, IF Head(proto.queue).bad # "no" THEN "corrupted" ELSE Ok, <<>>)
                     /\ x = [queue |-> Tail(proto.queue), next |-> proto.next, closed |-> proto.closed]
<1> DEFINE x == [proto EXCEPT !.queue = Tail(@)]
<1>1. proto.queue = <<>> => ProtoRecv = Step(proto, IF proto.closed THEN "closed" ELSE "empty", <<>>)
  BY DEF ProtoRecv
<1>2. proto.queue # <<>> =>
        ProtoRecv = Step(x, IF Head(proto.queue).bad # "no" THEN "corrupted" ELSE Ok, <<>>)
  BY Zenon DEF ProtoRecv, Ok
<1>3. x = [queue |-> Tail(proto.queue), next |-> proto.next, closed |-> proto.closed]
  <2> DEFINE T == Tail(proto.queue)
  <2>1. x = [proto EXCEPT !.queue = T]
    OBVIOUS
  <2> HIDE DEF T, x
  <2>2. x = [queue |-> T, next |-> proto.next, closed |-> proto.closed]
    BY <2>1 DEF ProtoSet
  <2> QED BY <2>2 DEF T
<1> HIDE DEF x
<1> QED BY <1>1, <1>2, <1>3

LEMMA RecvTwins ==
  ASSUME Twins, Kept, accepted \in Seq(Nat), Plain, Recv
  PROVE  Twins'
<1> DEFINE y == RingRecv
           z == ProtoRecv
           g == Len(gone)
           m == g + 1
           M == Len(accepted)
           q == proto.queue
<1>1. /\ ring' = y.r /\ gone' = gone \o y.out /\ spoiled' = spoiled /\ accepted' = accepted
      /\ proto' = z.r /\ result' = <<y.err, z.err>>
  BY DEF Recv, Called
<1>2. /\ g \in Nat /\ M \in Nat /\ ring.len \in Nat /\ g + ring.len = M /\ gone \in Seq(Fates)
  BY SameLength DEF Kept
<1>3. /\ q \in Seq(Items) /\ Len(q) \in Nat /\ Queue(q, g, M, spoiled) /\ g + Len(q) = M
      /\ proto.next = M % Width /\ proto.closed = ring.closed /\ proto \in ProtoSet
      /\ proto.next \in Nat /\ proto.closed \in BOOLEAN
  <2>1. /\ Queue(q, g, M, spoiled) /\ proto.next = M % Width /\ proto.closed = ring.closed /\ proto \in ProtoSet
    BY DEF Twins
  <2>2. q \in Seq(Items) /\ g + Len(q) = M
    BY <2>1 DEF Queue
  <2>3. Len(q) \in Nat
    BY <2>2
  <2>4. proto.next \in Nat /\ proto.closed \in BOOLEAN
    BY <2>1 DEF ProtoSet
  <2> QED BY <2>1, <2>2, <2>3, <2>4
<1>4. Len(q) = ring.len /\ (q = <<>> <=> ring.len = 0)
  <2>1. q = <<>> <=> Len(q) = 0
    BY <1>3
  <2> QED BY <1>2, <1>3, <2>1
<1>5. CASE ring.len = 0
  <2> DEFINE err == IF ring.closed THEN "closed" ELSE "empty"
             o == <<>>
  <2>1. y = Step(ring, err, o)
    BY <1>5 DEF RingRecv
  <2>2. z = Step(proto, err, o)
    BY <1>3, <1>4, <1>5, ProtoRecvIs
  <2>3. gone \o o = gone
    BY <1>2
  <2> HIDE DEF err, o, y, z, g, M, q
  <2>4. y.r = ring /\ y.err = err /\ y.out = o
    BY <2>1, StepFields
  <2>5. z.r = proto /\ z.err = err
    BY <2>2, StepFields
  <2>6. Len(gone') = Len(gone) /\ Len(accepted') = Len(accepted)
    BY <1>1, <2>3, <2>4
  <2> QED BY <1>1, <2>4, <2>5, <2>6, Unmoved
<1>6. CASE ring.len # 0
  <2> DEFINE e == <<M + 1, 0>>
             bad == Head(q).bad # "no"
             its == IF bad THEN "corrupted" ELSE Ok
             T == Tail(q)
  <2>1. Receives(y, ring, m, e, accepted, spoiled)
    BY <1>6, RecvIs
  <2>2. /\ Queue(T, g + 1, M, spoiled) /\ T \in Seq(Items)
        /\ bad <=> \E w : <<g + 1, w>> \in spoiled
    BY <1>2, <1>3, <1>4, <1>6, QueueShrinks
  <2>3. PICK v : z = Step(v, its, <<>>) /\ v = [queue |-> T, next |-> proto.next, closed |-> proto.closed]
    BY <1>3, <1>4, <1>6, ProtoRecvIs
  <2> HIDE DEF y, z, e, T, q
  <2>4. PICK x, what : /\ y = Step(x, its, <<<<m, what>>>>) /\ what \in {"lost", "received"}
                       /\ Left(x, ring, m, e, accepted, spoiled)
    <3>1. CASE bad
      <4>1. \E w : <<m, w>> \in spoiled
        BY <2>2, <3>1
      <4>2. its = "corrupted"
        BY <3>1
      <4> HIDE DEF m, bad, its
      <4> QED BY <2>1, <4>1, <4>2 DEF Receives
    <3>2. CASE ~bad
      <4>1. ~\E w : <<m, w>> \in spoiled
        BY <2>2, <3>2
      <4>2. its = Ok
        BY <3>2
      <4> HIDE DEF m, bad, its
      <4> QED BY <2>1, <4>1, <4>2 DEF Receives
    <3> QED BY <3>1, <3>2
  <2> DEFINE c == <<m, what>>
             o == <<c>>
  <2>5. c \in Fates
    BY <1>2, <2>4 DEF Fates
  <2> HIDE DEF c, its
  <2>6. o \in Seq(Fates) /\ Len(o) = 1
    BY <2>5
  <2>7. y = Step(x, its, o)
    BY <2>4 DEF c
  <2> HIDE DEF o
  <2>8. Len(gone \o o) = Len(gone) + 1
    <3>1. gone \in Seq(Fates)
      BY DEF Kept
    <3>2. Len(gone \o o) = Len(gone) + Len(o)
      BY <2>6, <3>1, ConcatProperties
    <3> QED BY <2>6, <3>2
  <2>9. y.r = x /\ y.err = its /\ y.out = o
    BY <2>7, StepFields
  <2>10. z.r = v /\ z.err = its
    BY <2>3, StepFields
  <2>11. /\ v.queue = T /\ v.next = M % Width /\ v.closed = ring.closed /\ v \in ProtoSet
    BY <1>3, <2>2, <2>3 DEF ProtoSet
  <2>12. x.closed = ring.closed
    BY <2>4 DEF Left
  <2>13. /\ ring' = x /\ proto' = v /\ Len(gone') = g + 1 /\ Len(accepted') = M /\ spoiled' = spoiled
         /\ result' = <<its, its>>
    BY <1>1, <2>8, <2>9, <2>10
  <2>14. Agree(result')
    BY <2>13 DEF Agree
  <2>15. Queue(v.queue, Len(gone'), Len(accepted'), spoiled')
    BY <2>2, <2>11, <2>13
  <2>16. proto'.next = Len(accepted') % Width /\ proto'.closed = ring'.closed /\ proto' \in ProtoSet
         /\ proto'.queue = v.queue
    BY <2>11, <2>12, <2>13
  <2> QED BY <2>14, <2>15, <2>16 DEF Twins
<1> QED BY <1>5, <1>6

LEMMA CloseTwins ==
  ASSUME Twins, Kept, CloseRing
  PROVE  Twins'
<1>1. /\ ring' = [ring EXCEPT !.closed = TRUE] /\ proto' = [proto EXCEPT !.closed = TRUE]
      /\ result' = <<Ok, Ok>> /\ UNCHANGED <<accepted, gone, spoiled>>
  BY Zenon DEF CloseRing, Ok
<1>2. ring \in RingSet /\ proto \in ProtoSet
  BY DEF Kept, Linked, Twins
<1>3. ring'.closed = TRUE
  BY <1>1, <1>2 DEF RingSet
<1>4. proto' \in ProtoSet /\ proto'.queue = proto.queue /\ proto'.next = proto.next /\ proto'.closed = TRUE
  BY <1>1, <1>2 DEF ProtoSet
<1>5. Agree(result')
  BY <1>1 DEF Agree
<1> QED BY <1>1, <1>3, <1>4, <1>5 DEF Twins

\* The fault strikes the same message in both rings.
LEMMA SpoilTwins ==
  ASSUME Twins, Kept, accepted \in Seq(Nat), Plain,
         NEW d \in Index, NEW what \in {"payload", "header"}, Spoil(d, what)
  PROVE  Twins'
<1> DEFINE x == SlotAt(ring, d)
           i == d + 1
           g == Len(gone)
           M == Len(accepted)
           q == proto.queue
           Q == [q EXCEPT ![i].bad = what]
           j == (ring.tail + d) % Slots
<1>1. /\ d \in Nat /\ d < ring.len
      /\ spoiled' = spoiled \cup {<<x.frame.m, what>>}
      /\ ring' = [ring EXCEPT !.slot[j].frame.bad = what]
      /\ UNCHANGED <<accepted, gone, result>>
  BY SpoilIs
<1>2. /\ g \in Nat /\ M \in Nat /\ ring.len \in Nat /\ g + ring.len = M
      /\ \A k \in 0 .. ring.len - 1 : SlotAt(ring, k).frame.m = g + 1 + k
  BY SameLength DEF Kept
<1>3. /\ q \in Seq(Items) /\ Len(q) \in Nat /\ Queue(q, g, M, spoiled) /\ g + Len(q) = M
      /\ proto.closed = ring.closed /\ proto \in ProtoSet
  <2>1. Queue(q, g, M, spoiled) /\ proto.closed = ring.closed /\ proto \in ProtoSet
    BY DEF Twins
  <2>2. q \in Seq(Items) /\ g + Len(q) = M
    BY <2>1 DEF Queue
  <2>3. Len(q) \in Nat
    BY <2>2
  <2> QED BY <2>1, <2>2, <2>3
<1>4. i \in 1 .. Len(q) /\ i \in DOMAIN proto.queue /\ x.frame.m = g + i
  <2>1. d \in 0 .. ring.len - 1 /\ Len(q) = ring.len
    BY <1>1, <1>2, <1>3
  <2>2. x.frame.m = g + 1 + d /\ g + 1 + d = g + i
    BY <1>2, <2>1
  <2> DEFINE n == Len(q)
  <2>3. n \in Nat /\ d \in 0 .. n - 1 /\ DOMAIN q = 1 .. n
    BY <1>3, <2>1
  <2> HIDE DEF n
  <2>4. i \in 1 .. n
    BY <2>3
  <2> QED BY <2>2, <2>3, <2>4 DEF n
<1>5. proto' = [proto EXCEPT !.queue[i].bad = what]
  BY <1>4 DEF Spoil
<1>6. Queue(Q, g, M, spoiled \cup {<<g + i, what>>})
  <2> HIDE DEF i, g, M, q
  <2> QED BY <1>2, <1>3, <1>4, QueueSpoils
<1>7. proto'.queue = Q /\ proto'.next = proto.next /\ proto'.closed = proto.closed /\ proto' \in ProtoSet
  <2>1. Q \in Seq(Items)
    BY <1>6 DEF Queue
  <2>2. proto' = [proto EXCEPT !.queue = Q]
    BY <1>5
  <2> HIDE DEF Q
  <2> QED BY <1>3, <2>1, <2>2 DEF ProtoSet
<1>8. ring'.closed = ring.closed
  <2>1. ring \in RingSet
    BY DEF Kept, Linked
  <2> QED BY <1>1, <2>1 DEF RingSet
<1>9. Queue(proto'.queue, Len(gone'), Len(accepted'), spoiled')
  BY <1>1, <1>4, <1>6, <1>7
<1>10. proto'.next = Len(accepted') % Width /\ Agree(result')
  BY <1>1, <1>7 DEF Twins
<1> QED BY <1>3, <1>7, <1>8, <1>9, <1>10 DEF Twins

-----------------------------------------------------------------------------
(* The invariant *)

\* What was plain after a step was plain before it.
LEMMA PlainBefore ==
  ASSUME accepted \in Seq(Nat), [RingNext]_ringVars, Plain'
  PROVE  Plain
<1>1. /\ accepted' \in Seq(Nat) /\ Len(accepted) <= Len(accepted')
      /\ \A i \in 1 .. Len(accepted) : accepted'[i] = accepted[i]
      /\ spoiled \subseteq spoiled'
  BY OnlyGrows
<1>2. ASSUME NEW i \in DOMAIN accepted PROVE Needed(accepted[i]) = 1
  <2>1. i \in 1 .. Len(accepted) /\ i \in DOMAIN accepted' /\ accepted'[i] = accepted[i]
    BY <1>1
  <2> QED BY <2>1 DEF Plain
<1>3. \A f \in spoiled : f[2] = "payload"
  BY <1>1 DEF Plain
<1> QED BY <1>2, <1>3 DEF Plain

\* A message in chunks is what Spoilt needs.
LEMMA PlainIsKept ==
  ASSUME Sound, Plain
  PROVE  accepted \in Seq(Nat) /\ Kept
<1>1. accepted \in Seq(Nat) /\ (Spoilt \/ Kept)
  BY DEF Sound
<1>2. ASSUME NEW f \in spoiled, f[1] \in 1 .. Len(accepted), Needed(accepted[f[1]]) # 1
      PROVE  FALSE
  <2>1. f[1] \in DOMAIN accepted
    BY <1>1, <1>2
  <2> QED BY <1>2, <2>1 DEF Plain
<1> QED BY <1>1, <1>2 DEF Spoilt

RingInv == Sound /\ (Plain => Twins)

LEMMA RingInvInit == RingInit => RingInv
<1> SUFFICES ASSUME RingInit PROVE RingInv
  OBVIOUS
<1>1. Sound
  BY Begins DEF Sound
<1>2. /\ accepted = <<>> /\ gone = <<>> /\ result = <<"none", "none">> /\ ring.closed = FALSE
      /\ proto = [queue |-> <<>>, next |-> 0, closed |-> FALSE]
  BY DEF RingInit
<1>3. proto \in ProtoSet /\ proto.queue = <<>> /\ proto.next = 0 /\ proto.closed = FALSE
  BY <1>2 DEF ProtoSet
<1>4. Len(gone) = 0 /\ Len(accepted) = 0 /\ Len(proto.queue) = 0 /\ proto.queue \in Seq(Items)
  BY <1>2, <1>3
<1>5. Queue(proto.queue, Len(gone), Len(accepted), spoiled)
  <2>1. 1 .. Len(proto.queue) = {}
    BY <1>4
  <2> QED BY <1>4, <2>1 DEF Queue
<1>6. 0 % Width = 0
  BY Sizes, LapAndSlot
<1>7. Agree(result)
  BY <1>2 DEF Agree
<1> QED BY <1>1, <1>2, <1>3, <1>4, <1>5, <1>6, <1>7 DEF RingInv, Twins

LEMMA RingInvStep == RingInv /\ [RingNext]_ringVars => RingInv'
<1> SUFFICES ASSUME RingInv, [RingNext]_ringVars PROVE RingInv'
  OBVIOUS
<1>1. Sound'
  BY SoundSteps DEF RingInv
<1>2. ASSUME Plain' PROVE Twins'
  <2>1. Plain
    BY <1>2, PlainBefore DEF RingInv, Sound
  <2>2. accepted \in Seq(Nat) /\ Kept /\ Twins
    BY <2>1, PlainIsKept DEF RingInv
  <2>3. ASSUME NEW n \in Lengths, Send(n) PROVE Twins'
    BY <1>2, <2>1, <2>2, <2>3, SendTwins, RingAssumption
  <2>4. CASE Recv
    BY <2>1, <2>2, <2>4, RecvTwins
  <2>5. CASE CloseRing
    BY <2>2, <2>5, CloseTwins
  <2>6. ASSUME NEW d \in Index, NEW what \in {"payload", "header"}, Spoil(d, what) PROVE Twins'
    BY <2>1, <2>2, <2>6, SpoilTwins
  <2>7. CASE UNCHANGED ringVars
    BY <2>2, <2>7 DEF ringVars, Twins
  <2> QED BY <2>3, <2>4, <2>5, <2>6, <2>7 DEF RingNext
<1> QED BY <1>1, <1>2 DEF RingInv

\* Twins answer alike and hold the same numbers.
LEMMA TwinsShow ==
  ASSUME accepted \in Seq(Nat), Kept, Plain, Twins
  PROVE  result[1] # "too large" /\ result[2] # "too large" => AnswersAsPrototype
<1> DEFINE g == Len(gone)
           M == Len(accepted)
           q == proto.queue
           L == ring.len
           F == [k \in 1 .. L |-> ring.slot[(ring.tail + k - 1) % Slots].seq]
           G == [k \in DOMAIN q |-> q[k].seq]
<1>1. result[1] # "too large" /\ result[2] # "too large" => result[1] = result[2]
  BY DEF Twins, Agree
<1>2. /\ g \in Nat /\ L \in Nat /\ g + L = M /\ M \in Nat
      /\ \A k \in 0 .. L - 1 : SlotAt(ring, k).seq = (g + k) % Width
  <2>1. L \in Nat /\ g + L = M /\ \A k \in 0 .. L - 1 : SlotAt(ring, k).seq = (g + k) % Width
    BY SameLength
  <2>2. g \in Nat
    BY DEF Kept
  <2>3. M \in Nat
    OBVIOUS
  <2> QED BY <2>1, <2>2, <2>3
<1>4. ring.tail \in Nat
  <2>1. ring \in RingSet
    BY DEF Kept, Linked
  <2>2. ring.tail \in Index
    BY <2>1, Fields
  <2> QED BY <2>2, Sizes DEF Index
<1> HIDE DEF g, M, L, F, G
<1>3. /\ q \in Seq(Items) /\ g + Len(q) = M
      /\ \A k \in 1 .. Len(q) : q[k].seq = (g + k - 1) % Width
  BY DEF Twins, Queue, g, M
<1> HIDE DEF q
<1>5. Len(q) = L /\ DOMAIN q = 1 .. L
  <2> DEFINE n == Len(q)
  <2>1. n \in Nat /\ DOMAIN q = 1 .. n
    BY <1>3
  <2>2. g + n = M
    BY <1>3
  <2> HIDE DEF n
  <2>3. n = L
    BY <1>2, <2>1, <2>2
  <2> QED BY <2>1, <2>3 DEF n
<1>6. ASSUME NEW k \in 1 .. L
      PROVE  ring.slot[(ring.tail + k - 1) % Slots].seq = q[k].seq
  <2> DEFINE j == k - 1
             t == ring.tail
  <2>6. t \in Nat
    BY <1>4
  <2> HIDE DEF t
  <2>1. j \in 0 .. L - 1 /\ j \in Nat /\ t + k - 1 = t + j /\ g + k - 1 = g + j
    BY <1>2, <2>6
  <2>2. q[k].seq = (g + j) % Width
    BY <1>3, <1>5, <2>1
  <2> HIDE DEF j
  <2>3. SlotAt(ring, j).seq = (g + j) % Width
    BY <1>2, <2>1
  <2>4. ring.slot[(t + j) % Slots].seq = (g + j) % Width
    BY <2>3 DEF SlotAt, t
  <2>5. ring.slot[(t + k - 1) % Slots].seq = (g + j) % Width
    BY <2>1, <2>4
  <2> QED BY <2>2, <2>5 DEF t
<1>7. F = G
  BY <1>5, <1>6 DEF F, G
<1> QED BY <1>1, <1>7 DEF AnswersAsPrototype, F, G, L, q

LEMMA RingInvShows == RingInv => RingHoldsTheRest
<1> SUFFICES ASSUME RingInv PROVE RingHoldsTheRest
  OBVIOUS
<1>1. ASSUME \A f \in spoiled : Needed(accepted[f[1]]) = 1
      PROVE  WindowHoldsTheRest
  <2>1. ~Spoilt
    BY <1>1 DEF Spoilt
  <2> QED BY <2>1, KeptShows DEF RingInv, Sound
<1>2. ASSUME Plain, result[1] # "too large", result[2] # "too large"
      PROVE  AnswersAsPrototype
  BY <1>2, PlainIsKept, TwinsShow DEF RingInv
<1>3. \A n \in Lengths : (Needed(n) # 0) = (n <= MaxMessageSize)
  BY LimitIsThePlans, RingAssumption
<1> QED BY <1>1, <1>2, <1>3 DEF RingHoldsTheRest, Plain

\* In-process rings: whatever the capacity, the slot size and the lengths, and
\* however the calls follow one another, the frames from the tail are those of
\* the messages accepted and not gone, in order and whole; messages leave in the
\* order they came, and are lost only if the storage spoiled them (recv_with_seq,
\* drop_oldest_message, prepare_send_slots).  Until a message takes several slots
\* or a header is spoiled, every call is answered as SpscBytesRing answers it,
\* and message_size_limits is the limit of send_plan.
THEOREM RingKeepsItsPromise == RingSpec => []RingHoldsTheRest
<1>1. RingInit => RingInv
  BY RingInvInit
<1>2. RingInv /\ [RingNext]_ringVars => RingInv'
  BY RingInvStep
<1>3. RingInv => RingHoldsTheRest
  BY RingInvShows
<1> QED BY <1>1, <1>2, <1>3, PTL DEF RingSpec
=============================================================================
