------------------------- MODULE SpscRecoveryProofs -------------------------
(***************************************************************************)
(* Proofs about SpscRecovery for every capacity and every scenario: types, *)
(* and that nobody touches the slot a live writer is writing, whoever dies *)
(* and whatever is reclaimed meanwhile, when handles open while the other  *)
(* side makes no call.                                                     *)
(*                                                                         *)
(* For one-slot messages, that what is received is in order, that the      *)
(* guard finds room and that the write position is recovered.  They rest   *)
(* on LineInv: from the consumer's place on, the slots that are not FREE   *)
(* are one line (Line), the messages in it rise (InTurn), and until an     *)
(* opening meets what recovery cannot repair the numbers in it follow one  *)
(* another and tie the consumer's expectation, the producer's next number  *)
(* and the bias together (Numbered).  A step takes a slot in at one end of *)
(* the line or out at the other, or frees a dead writer's at the end; a    *)
(* message refused for its number stays at the tail for good (Stuck).      *)
(***************************************************************************)
EXTENDS SpscRecovery, RingArithmetic

FrameSet == [id : Nat, seq : Nat, part : Nat, total : 0 .. Cap]
SlotSet == [state : SlotState, seq : Nat, owner : Nat, frame : FrameSet]
Ring == [0 .. Cap - 1 -> SlotSet]
Index == 0 .. Cap - 1
Upto == 0 .. Cap
ProducerPcs == {"idle", "dead", "publish"} \cup Opening \cup Writing
ProducerSet ==
  [pc : ProducerPcs, inc : Nat, idx : Index, bias : Upto, next : Nat, need : Upto, done : Upto,
   id : Nat, k : Upto, occ : Upto, pins : Upto]
ConsumerPcs == {"idle", "dead", "gate", "verify", "free", "second", "copy", "pin", "release",
                "advance", "reclaim", "scan", "expect"}
ConsumerSet ==
  [pc : ConsumerPcs, inc : Nat, h : Nat, t : Nat, expected : Nat, resync : BOOLEAN,
   took : BOOLEAN, seq : Nat, frame : FrameSet, first : FrameSet, part : Upto, k : Index,
   freed : Upto, readable : BOOLEAN]
Met == {"drained", "tailAhead", "partial"}

\* A send in hand has a number and a chunk left; a scan counts no slot twice.
ProducerBounds ==
  /\ pr.pc \in Writing => pr.next >= 1 /\ pr.done < pr.need
  /\ pr.pc \in {"dead", "reclaim"} => pr.occ = 0 /\ pr.pins = 0 /\ pr.k < Cap
  /\ pr.pc = "scan" => pr.occ + pr.pins <= pr.k /\ pr.k < Cap
  /\ pr.pc = "cursors" => pr.occ + pr.pins <= Cap

\* No message has more chunks than the ring has slots.
Typed ==
  /\ scenario \in Scenarios /\ head \in Nat /\ tail \in Nat /\ slots \in Ring
  /\ pr \in ProducerSet /\ cons \in ConsumerSet
  /\ sent \in Seq(Nat) /\ got \in Seq(Nat) /\ met \subseteq Met
  /\ ProducerBounds
  /\ cons.pc = "free" => cons.freed < Cap

LEMMA TypedTypeOK == Typed => TypeOK
<1>1. FrameSet \subseteq Frames
  BY CapAssumption DEF FrameSet, Frames
<1>2. Ring \subseteq Slots
  BY <1>1 DEF Ring, Slots, SlotSet
<1>3. ASSUME cons \in ConsumerSet
      PROVE  cons \in [pc : {"idle", "dead", "gate", "verify", "free", "second", "copy", "pin",
                             "release", "advance", "reclaim", "scan", "expect"},
                       inc : Nat, h : Nat, t : Nat, expected : Nat, resync : BOOLEAN,
                       took : BOOLEAN, seq : Nat, frame : Frames, first : Frames, part : 0 .. Cap,
                       k : 0 .. Cap - 1, freed : 0 .. Cap, readable : BOOLEAN]
  BY <1>1, <1>3 DEF ConsumerSet, ConsumerPcs, Index, Upto
<1>4. ASSUME pr \in ProducerSet
      PROVE  pr \in [pc : {"idle", "dead", "publish"} \cup Opening \cup Writing, inc : Nat,
                     idx : 0 .. Cap - 1, bias : 0 .. Cap, next : Nat, need : 0 .. Cap,
                     done : 0 .. Cap, id : Nat, k : 0 .. Cap, occ : 0 .. Cap, pins : 0 .. Cap]
  BY <1>4 DEF ProducerSet, ProducerPcs, Index, Upto
<1> QED BY <1>2, <1>3, <1>4 DEF Typed, TypeOK, Met

LEMMA Next1In ==
  ASSUME NEW i \in 0 .. Cap - 1
  PROVE  Next1(i) \in 0 .. Cap - 1 /\ (i + 1 < Cap => Next1(i) = i + 1)
<1>1. i + 1 \in Nat
  OBVIOUS
<1>2. Next1(i) \in 0 .. Cap - 1
  BY <1>1, CapAssumption, LapAndSlot DEF Next1
<1>3. ASSUME i + 1 < Cap PROVE Next1(i) = i + 1
  <2>1. i + 1 \in 0 .. Cap - 1 /\ i + 1 = Cap * 0 + (i + 1)
    BY <1>3, CapAssumption
  <2> QED BY <1>1, <2>1, CapAssumption, SlotOf DEF Next1
<1> QED BY <1>2, <1>3

LEMMA TailIdxIn ==
  ASSUME Typed
  PROVE  TailIdx \in 0 .. Cap - 1 /\ tail % Cap \in 0 .. Cap - 1
<1>1. cons.t \in Nat /\ tail \in Nat
  BY DEF Typed, ConsumerSet
<1> QED BY <1>1, CapAssumption, LapAndSlot DEF TailIdx

\* The region's own operations keep a ring a ring.
LEMMA RingStays ==
  ASSUME Typed, NEW i \in 0 .. Cap - 1
  PROVE  /\ \A state \in SlotState, seq \in Nat : WriteHeader(i, state, seq) => slots' \in Ring
         /\ PublishIdentity(i) => slots' \in Ring
         /\ ReleaseHeader(i) => slots' \in Ring
         /\ FreeSlot \in SlotSet /\ slots[i] \in SlotSet
<1>1. slots \in [0 .. Cap - 1 -> SlotSet] /\ slots[i] \in SlotSet
  BY DEF Typed, Ring
<1>2. FreeSlot \in SlotSet
  BY CapAssumption DEF FreeSlot, SlotSet, SlotState, FrameSet, Cleared
<1>3. \A x \in SlotSet : [slots EXCEPT ![i] = x] \in Ring
  BY <1>1 DEF Ring
<1>4. ASSUME NEW state \in SlotState, NEW seq \in Nat, WriteHeader(i, state, seq)
      PROVE  slots' \in Ring
  <2>1. [state |-> state, seq |-> seq, owner |-> 0, frame |-> slots[i].frame] \in SlotSet
    BY <1>1 DEF SlotSet
  <2> QED BY <1>3, <1>4, <2>1 DEF WriteHeader
<1>5. ASSUME PublishIdentity(i) PROVE slots' \in Ring
  <2>1. pr.inc \in Nat
    BY DEF Typed, ProducerSet
  <2>2. [slots[i] EXCEPT !.owner = pr.inc] \in SlotSet
    BY <1>1, <2>1 DEF SlotSet
  <2> QED BY <1>3, <1>5, <2>2 DEF PublishIdentity
<1>6. ASSUME ReleaseHeader(i) PROVE slots' \in Ring
  BY <1>2, <1>3, <1>6 DEF ReleaseHeader
<1> QED BY <1>1, <1>2, <1>4, <1>5, <1>6

LEMMA TypedInit == Init => Typed
<1> SUFFICES ASSUME Init PROVE Typed
  OBVIOUS
<1>1. FreeSlot \in SlotSet
  BY CapAssumption DEF FreeSlot, SlotSet, SlotState, FrameSet, Cleared
<1>2. slots \in Ring
  BY <1>1 DEF Init, Ring
<1>3. Producer \in ProducerSet /\ Producer.pc = "idle"
  BY CapAssumption DEF Producer, ProducerSet, ProducerPcs, Index, Upto
<1>4. Consumer \in ConsumerSet /\ Consumer.pc = "idle"
  BY CapAssumption DEF Consumer, ConsumerSet, Cleared, FrameSet, ConsumerPcs, Index, Upto
<1>5. cons \in ConsumerSet /\ cons.pc = "idle"
  BY <1>4 DEF Init, ConsumerSet
<1>6. sent \in Seq(Nat) /\ got \in Seq(Nat) /\ met \subseteq Met
  BY DEF Init
<1>7. pr = Producer /\ scenario \in Scenarios /\ head \in Nat /\ tail \in Nat
  BY DEF Init
<1> QED BY <1>2, <1>3, <1>5, <1>6, <1>7 DEF Typed, ProducerBounds, Opening, Writing

\* What changes on one side leaves the other side typed.
LEMMA ProducerChanged ==
  ASSUME Typed, UNCHANGED <<scenario, cons, got>>,
         head' \in Nat, tail' = tail, slots' \in Ring, pr' \in ProducerSet, ProducerBounds',
         sent' \in Seq(Nat), met' \subseteq Met
  PROVE  Typed'
  BY DEF Typed

LEMMA ConsumerChanged ==
  ASSUME Typed, UNCHANGED <<scenario, head, pr, sent, met>>,
         tail' \in Nat, slots' \in Ring, cons' \in ConsumerSet,
         cons'.pc = "free" => cons'.freed < Cap, got' \in Seq(Nat)
  PROVE  Typed'
  BY DEF Typed, ProducerBounds

LEMMA TypedProducer ==
  ASSUME Typed,
         \/ \E n \in scenario.sizes : SendBegin(n)
         \/ ProducerStep \/ Die \/ Open
  PROVE  Typed'
<1>f. /\ Cap \in Nat \ {0} /\ scenario \in Scenarios /\ head \in Nat /\ tail \in Nat
      /\ slots \in Ring /\ pr \in ProducerSet /\ sent \in Seq(Nat) /\ met \subseteq Met
      /\ ProducerBounds
  BY CapAssumption DEF Typed
<1>n. /\ pr.idx \in 0 .. Cap - 1 /\ Next1(pr.idx) \in 0 .. Cap - 1
      /\ pr.next \in Nat /\ pr.next + 1 \in Nat /\ pr.next + 1 >= 1
      /\ pr.id \in Nat /\ pr.id + 1 \in Nat /\ pr.inc \in Nat /\ pr.inc + 1 \in Nat
      /\ pr.need \in 0 .. Cap /\ pr.done \in 0 .. Cap /\ pr.k \in 0 .. Cap
      /\ pr.occ \in 0 .. Cap /\ pr.pins \in 0 .. Cap
  <2>1. /\ pr.idx \in 0 .. Cap - 1 /\ pr.next \in Nat /\ pr.id \in Nat /\ pr.inc \in Nat
        /\ pr.need \in 0 .. Cap /\ pr.done \in 0 .. Cap /\ pr.k \in 0 .. Cap
        /\ pr.occ \in 0 .. Cap /\ pr.pins \in 0 .. Cap
    BY <1>f DEF ProducerSet, Index, Upto
  <2>2. Next1(pr.idx) \in 0 .. Cap - 1
    BY <2>1, Next1In
  <2>3. pr.next + 1 \in Nat /\ pr.next + 1 >= 1 /\ pr.id + 1 \in Nat /\ pr.inc + 1 \in Nat
    BY <2>1
  <2> QED BY <2>1, <2>2, <2>3
<1>z. /\ 0 \in Upto /\ 0 \in Index /\ Next1(pr.idx) \in Index /\ Index = 0 .. Cap - 1
      /\ \A x : x \in Upto <=> x \in 0 .. Cap
  BY <1>f, <1>n DEF Upto, Index
<1>y. /\ {"idle", "dead", "publish"} \subseteq ProducerPcs
      /\ Writing = {"claim", "mark", "stamp", "fill", "commit"}
      /\ {"claim", "mark", "stamp", "fill", "commit"} \subseteq ProducerPcs
      /\ {"reclaim", "scan", "cursors", "infer"} \subseteq ProducerPcs
  BY DEF ProducerPcs, Opening, Writing
<1>w. pr.pc \in Writing => pr.next - 1 \in Nat /\ pr.done < pr.need /\ pr.next >= 1
  <2>1. pr.pc \in Writing => pr.next >= 1 /\ pr.done < pr.need
    BY <1>f DEF ProducerBounds
  <2>2. pr.next \in Nat
    BY <1>n
  <2> QED BY <2>1, <2>2
<1>d. ASSUME pr' = [Producer EXCEPT !.pc = "dead", !.inc = pr.inc, !.id = pr.id]
      PROVE  pr' \in ProducerSet /\ ProducerBounds'
  <2>1. pr' \in ProducerSet
    BY <1>d, <1>f, <1>n, <1>y, <1>z DEF Producer, ProducerSet
  <2>2. pr'.pc = "dead" /\ pr'.occ = 0 /\ pr'.pins = 0 /\ pr'.k = 0
    BY <1>d DEF Producer
  <2> QED BY <1>f, <2>1, <2>2 DEF ProducerBounds, Writing
\* Only the place in the protocol changes.
<1>g. ASSUME NEW to \in {"idle", "mark", "stamp", "fill", "commit"}, Goto(to),
             to # "idle" => pr.pc \in Writing
      PROVE  pr' \in ProducerSet /\ ProducerBounds'
  <2>1. pr' \in ProducerSet /\ pr'.pc = to /\ pr'.next = pr.next /\ pr'.done = pr.done
        /\ pr'.need = pr.need
    BY <1>f, <1>g, <1>y DEF Goto, ProducerSet
  <2> QED BY <1>g, <1>w, <2>1 DEF ProducerBounds, Writing
<1>s. \A m \in Nat : Append(sent, m) \in Seq(Nat)
  BY <1>f
<1>1. ASSUME NEW n \in scenario.sizes, SendBegin(n) PROVE Typed'
  <2>1. n \in 1 .. Cap
    BY <1>f, ScenariosAssumption
  <2>2. pr' = [pr EXCEPT !.pc = "claim", !.need = n, !.done = 0, !.next = pr.next + 1,
                         !.id = pr.id + 1]
    BY <1>1 DEF SendBegin
  <2>3. pr' \in ProducerSet /\ pr'.pc = "claim" /\ pr'.next >= 1 /\ pr'.done < pr'.need
    <3>1. n \in Upto /\ 0 < n
      BY <1>f, <1>z, <2>1
    <3>2. pr' \in ProducerSet
      BY <1>f, <1>n, <1>y, <1>z, <2>2, <3>1 DEF ProducerSet
    <3>3. pr'.pc = "claim" /\ pr'.next = pr.next + 1 /\ pr'.done = 0 /\ pr'.need = n
      BY <1>f, <2>2 DEF ProducerSet
    <3> QED BY <1>n, <3>1, <3>2, <3>3
  <2>4. ProducerBounds'
    BY <2>3 DEF ProducerBounds, Writing
  <2> QED BY <1>1, <1>f, <2>3, <2>4, ProducerChanged DEF SendBegin
<1>2. CASE ClaimSlot
  <2>1. pr.pc \in Writing /\ \E to \in {"mark", "idle"} : Goto(to)
    BY <1>2 DEF ClaimSlot, At, Writing
  <2> QED BY <1>2, <1>f, <1>g, <2>1, ProducerChanged DEF ClaimSlot
<1>3. CASE MarkSlot
  <2>1. pr.pc \in Writing
    BY <1>3 DEF MarkSlot, At, Writing
  <2>2. slots' \in Ring
    BY <1>3, <1>n, <1>w, <2>1, RingStays DEF MarkSlot, SlotState
  <2> QED BY <1>3, <1>f, <1>g, <2>1, <2>2, ProducerChanged DEF MarkSlot
<1>4. CASE StampSlot
  <2>1. pr.pc \in Writing
    BY <1>4 DEF StampSlot, At, Writing
  <2>2. slots' \in Ring
    BY <1>4, <1>n, RingStays DEF StampSlot
  <2> QED BY <1>4, <1>f, <1>g, <2>1, <2>2, ProducerChanged DEF StampSlot
<1>5. CASE FillSlot
  <2>1. pr.pc \in Writing
    BY <1>5, <1>y DEF FillSlot, At
  <2> DEFINE frame == [id |-> pr.id, seq |-> pr.next - 1, part |-> pr.done, total |-> pr.need]
  <2>2. frame \in FrameSet
    BY <1>n, <1>w, <2>1 DEF FrameSet
  <2>3. slots' = [slots EXCEPT ![pr.idx].frame = frame]
    BY <1>5 DEF FillSlot
  <2> HIDE DEF frame
  <2>4. slots' \in Ring
    BY <1>f, <1>n, <2>2, <2>3 DEF Ring, SlotSet
  <2> QED BY <1>5, <1>f, <1>g, <2>1, <2>4, ProducerChanged DEF FillSlot
<1>6. CASE CommitSlot
  <2>1. pr.pc \in Writing
    BY <1>6 DEF CommitSlot, At, Writing
  <2>2. slots' \in Ring
    BY <1>6, <1>n, <1>w, <2>1, RingStays DEF CommitSlot, SlotState
  <2>3. pr.done + 1 \in 0 .. Cap
    <3>1. pr.done < pr.need
      BY <1>w, <2>1
    <3>2. pr.done \in 0 .. Cap /\ pr.need \in 0 .. Cap /\ Cap \in Nat
      BY <1>f, <1>n
    <3> QED BY <3>1, <3>2
  <2> DEFINE to == IF pr.done + 1 >= pr.need THEN "publish" ELSE "claim"
  <2>4. pr' = [pr EXCEPT !.idx = Next1(pr.idx), !.done = pr.done + 1, !.pc = to]
    BY <1>6 DEF CommitSlot
  <2>5. to \in {"publish", "claim"} /\ (to = "claim" => pr.done + 1 < pr.need)
    BY <1>f, <1>n
  <2> HIDE DEF to
  <2>6. pr' \in ProducerSet /\ pr'.pc = to /\ pr'.done = pr.done + 1 /\ pr'.need = pr.need
        /\ pr'.next = pr.next
    BY <1>f, <1>y, <1>z, <2>3, <2>4, <2>5 DEF ProducerSet
  <2>7. ProducerBounds'
    BY <1>w, <2>1, <2>5, <2>6 DEF ProducerBounds, Writing
  <2>8. sent' \in Seq(Nat)
    BY <1>6, <1>f, <1>n, <1>s DEF CommitSlot
  <2> QED BY <1>6, <1>f, <2>2, <2>6, <2>7, <2>8, ProducerChanged DEF CommitSlot
<1>7. CASE PublishHead
  <2>1. head' \in Nat
    <3>1. head' = head + pr.need /\ pr.need \in Nat
      BY <1>7, <1>f, <1>n DEF PublishHead
    <3> QED BY <1>f, <3>1
  <2> QED BY <1>7, <1>f, <1>g, <2>1, ProducerChanged DEF PublishHead
<1>8. CASE Die
  BY <1>8, <1>d, <1>f, ProducerChanged DEF Die
<1>9. CASE Open
  <2>1. pr' = [pr EXCEPT !.pc = "reclaim", !.inc = pr.inc + 1] /\ pr.pc = "dead"
    BY <1>9 DEF Open, At
  <2>2. pr' \in ProducerSet /\ pr'.pc = "reclaim"
        /\ pr'.occ = pr.occ /\ pr'.pins = pr.pins /\ pr'.k = pr.k
    BY <1>f, <1>n, <1>y, <2>1 DEF ProducerSet
  <2>3. ProducerBounds'
    BY <1>f, <2>1, <2>2 DEF ProducerBounds, Writing
  <2> QED BY <1>9, <1>f, <2>2, <2>3, ProducerChanged DEF Open
<1>10. CASE OpenReclaim
  <2>1. pr.pc = "reclaim" /\ pr.k \in 0 .. Cap - 1 /\ pr.occ = 0 /\ pr.pins = 0
    BY <1>10, <1>f, <1>n DEF OpenReclaim, At, ProducerBounds
  <2>2. Next1(pr.k) \in 0 .. Cap - 1
    BY <2>1, Next1In
  <2> DEFINE to == ScanTo("scan")
  <2>3. pr' = [pr EXCEPT !.k = Next1(pr.k), !.pc = to]
    BY <1>10 DEF OpenReclaim
  <2>4. to \in {"reclaim", "scan"}
    BY <2>1 DEF ScanTo
  <2> HIDE DEF to
  <2>5. pr' \in ProducerSet /\ pr'.pc = to /\ pr'.k = Next1(pr.k) /\ pr'.occ = 0 /\ pr'.pins = 0
    <3>1. Next1(pr.k) \in Upto
      BY <1>f, <1>z, <2>2
    <3> QED BY <1>f, <1>y, <2>1, <2>3, <2>4, <3>1 DEF ProducerSet
  <2>6. ProducerBounds'
    BY <1>f, <2>2, <2>4, <2>5 DEF ProducerBounds, Writing
  <2>7. slots' \in Ring
    BY <1>10, <1>f, <2>1, RingStays DEF OpenReclaim
  <2> QED BY <1>10, <1>f, <2>5, <2>6, <2>7, ProducerChanged DEF OpenReclaim
<1>11. CASE OpenScan
  <2>1. pr.pc = "scan" /\ pr.k \in 0 .. Cap - 1 /\ pr.occ + pr.pins <= pr.k
    BY <1>11, <1>f, <1>n DEF OpenScan, At, ProducerBounds
  <2>2. Next1(pr.k) \in 0 .. Cap - 1 /\ (pr.k + 1 < Cap => Next1(pr.k) = pr.k + 1)
    BY <2>1, Next1In
  <2>3. slots[pr.k].seq \in Nat /\ SeqAfter(slots[pr.k]) \in Nat
    <3>1. slots[pr.k] \in SlotSet
      BY <2>1, RingStays
    <3>2. slots[pr.k].seq \in Nat
      BY <3>1 DEF SlotSet
    <3> QED BY <3>2 DEF SeqAfter
  <2> DEFINE st == slots[pr.k].state
             occ == IF st \in {"COMMITTED", "WRITING"} THEN pr.occ + 1 ELSE pr.occ
             pins == IF st = "PINNED" THEN pr.pins + 1 ELSE pr.pins
             next == IF st # "FREE" /\ SeqAfter(slots[pr.k]) > pr.next
                     THEN SeqAfter(slots[pr.k]) ELSE pr.next
             to == ScanTo("cursors")
  <2>4. pr' = [pr EXCEPT !.k = Next1(pr.k), !.pc = to, !.occ = occ, !.pins = pins, !.next = next]
    BY <1>11 DEF OpenScan
  <2>5. occ \in Nat /\ pins \in Nat /\ occ + pins <= pr.k + 1
    BY <1>n, <2>1
  <2>6. next \in Nat
    BY <1>n, <2>3
  <2>7. to = IF pr.k + 1 < Cap THEN "scan" ELSE "cursors"
    BY <2>1 DEF ScanTo
  <2> HIDE DEF occ, pins, next, to
  <2>8. occ \in 0 .. Cap /\ pins \in 0 .. Cap /\ occ + pins <= Cap
    BY <1>f, <2>1, <2>5
  <2>9. pr' \in ProducerSet /\ pr'.pc = to /\ pr'.k = Next1(pr.k) /\ pr'.occ = occ /\ pr'.pins = pins
    <3>1. Next1(pr.k) \in Upto
      BY <1>f, <1>z, <2>2
    <3>2. occ \in Upto /\ pins \in Upto
      BY <1>z, <2>8
    <3>3. to \in {"scan", "cursors"}
      BY <2>7
    <3> QED BY <1>f, <1>y, <2>4, <2>6, <3>1, <3>2, <3>3 DEF ProducerSet
  <2>10. ProducerBounds'
    BY <1>f, <2>1, <2>2, <2>5, <2>7, <2>8, <2>9 DEF ProducerBounds, Writing
  <2> QED BY <1>11, <1>f, <2>9, <2>10, ProducerChanged DEF OpenScan
<1>12. CASE OpenCursors
  <2>1. pr.pc = "cursors" /\ pr.occ + pr.pins <= Cap
    BY <1>12, <1>f DEF OpenCursors, At, ProducerBounds
  <2> DEFINE pool == IF tail > head THEN pr.occ + pr.pins ELSE pr.occ
             bias == Beyond(pool, CursorLen(head, tail))
  <2>2. bias \in 0 .. Cap
    <3>1. pool \in 0 .. Cap
      BY <1>f, <1>n, <2>1
    <3>2. CursorLen(head, tail) \in Nat
      BY <1>f DEF CursorLen, Beyond
    <3> HIDE DEF pool
    <3> QED BY <1>f, <3>1, <3>2 DEF Beyond
  <2>3. tail % Cap \in 0 .. Cap - 1
    BY TailIdxIn
  <2>4. met' \subseteq Met
    <3>1. met' \subseteq met \cup {"drained"} \cup {"tailAhead"} \cup {"partial"}
      BY <1>12 DEF OpenCursors
    <3> QED BY <1>f, <3>1 DEF Met
  <2>5. pr' \in ProducerSet /\ ProducerBounds'
    <3>1. CASE Inconsistent
      BY <1>12, <1>d, <3>1 DEF OpenCursors
    <3>2. CASE ~Inconsistent
      <4>1. pr' = [pr EXCEPT !.pc = "infer", !.idx = tail % Cap, !.k = 0, !.bias = bias]
        BY <1>12, <3>2 DEF OpenCursors
      <4> HIDE DEF bias
      <4>2. pr' \in ProducerSet /\ pr'.pc = "infer"
        BY <1>f, <1>y, <1>z, <2>2, <2>3, <4>1 DEF ProducerSet
      <4> QED BY <4>2 DEF ProducerBounds, Writing
    <3> QED BY <3>1, <3>2
  <2> QED BY <1>12, <1>f, <2>4, <2>5, ProducerChanged DEF OpenCursors
<1>13. CASE OpenInfer
  <2>1. \/ pr' = [pr EXCEPT !.idx = Next1(pr.idx), !.k = pr.k + 1] /\ pr.k < Cap /\ pr.pc = "infer"
        \/ pr' = [pr EXCEPT !.pc = "idle", !.k = 0, !.occ = 0, !.pins = 0]
    BY <1>13 DEF OpenInfer, At
  <2>2. pr.k < Cap => pr.k + 1 \in 0 .. Cap
    <3>1. pr.k \in 0 .. Cap /\ Cap \in Nat
      BY <1>f, <1>n
    <3> QED BY <3>1
  <2>3. pr' \in ProducerSet /\ pr'.pc \in {"infer", "idle"}
    BY <1>f, <1>y, <1>z, <2>1, <2>2 DEF ProducerSet
  <2>4. ProducerBounds'
    BY <2>3 DEF ProducerBounds, Writing
  <2> QED BY <1>13, <1>f, <2>3, <2>4, ProducerChanged DEF OpenInfer
<1> QED
  BY <1>1, <1>2, <1>3, <1>4, <1>5, <1>6, <1>7, <1>8, <1>9, <1>10, <1>11, <1>12, <1>13
  DEF ProducerStep

LEMMA TypedConsumer ==
  ASSUME Typed, ConsumerStep \/ ReclaimStale \/ ConsDie
  PROVE  Typed'
<1>f. /\ Cap \in Nat \ {0} /\ tail \in Nat /\ head \in Nat /\ slots \in Ring
      /\ cons \in ConsumerSet /\ got \in Seq(Nat) /\ pr \in ProducerSet
      /\ cons.pc = "free" => cons.freed < Cap
  BY CapAssumption DEF Typed
<1>n. /\ cons.t \in Nat /\ cons.t + 1 \in Nat /\ cons.inc \in Nat /\ cons.inc + 1 \in Nat
      /\ cons.expected \in Nat /\ cons.expected + 1 \in Nat
      /\ cons.resync \in BOOLEAN /\ cons.took \in BOOLEAN /\ cons.readable \in BOOLEAN
      /\ cons.seq \in Nat /\ cons.frame \in FrameSet /\ cons.first \in FrameSet
      /\ cons.part \in 0 .. Cap /\ cons.freed \in 0 .. Cap /\ cons.k \in 0 .. Cap - 1
  <2>1. /\ cons.t \in Nat /\ cons.inc \in Nat /\ cons.expected \in Nat
        /\ cons.resync \in BOOLEAN /\ cons.took \in BOOLEAN /\ cons.readable \in BOOLEAN
        /\ cons.seq \in Nat /\ cons.frame \in FrameSet /\ cons.first \in FrameSet
        /\ cons.part \in 0 .. Cap /\ cons.freed \in 0 .. Cap /\ cons.k \in 0 .. Cap - 1
    BY <1>f DEF ConsumerSet, Index, Upto
  <2>2. cons.t + 1 \in Nat /\ cons.inc + 1 \in Nat /\ cons.expected + 1 \in Nat
    BY <2>1
  <2> QED BY <2>1, <2>2
<1>i. TailIdx \in 0 .. Cap - 1 /\ TailIdx \in Index /\ Next1(cons.k) \in Index /\ 0 \in Index
      /\ 0 \in Upto
  <2>1. TailIdx \in 0 .. Cap - 1 /\ Next1(cons.k) \in 0 .. Cap - 1
    BY <1>n, TailIdxIn, Next1In
  <2> QED BY <1>f, <2>1 DEF Index, Upto
<1>j. \A i \in 0 .. Cap - 1 : slots[i].seq \in Nat /\ slots[i].frame \in FrameSet
  BY <1>f DEF Ring, SlotSet
<1>c. Consumer \in ConsumerSet /\ Consumer.pc = "idle"
  BY <1>i, <1>f DEF Consumer, ConsumerSet, ConsumerPcs, Cleared, FrameSet
\* A call that returns.
<1>e. ASSUME NEW c, RecvEnds(c), c.expected \in Nat, c.resync \in BOOLEAN
      PROVE  cons' \in ConsumerSet /\ cons'.pc = "idle"
  <2>1. cons' = [Consumer EXCEPT !.inc = cons.inc, !.expected = c.expected, !.resync = c.resync]
    BY <1>e DEF RecvEnds
  <2> QED BY <1>c, <1>e, <1>n, <2>1 DEF ConsumerSet
<1>o. RecvEnds(cons) => cons' \in ConsumerSet /\ cons'.pc = "idle"
  BY <1>e, <1>n
<1>r. ASSUME NEW b \in BOOLEAN, RecvEnds([cons EXCEPT !.resync = b])
      PROVE  cons' \in ConsumerSet /\ cons'.pc = "idle"
  <2> DEFINE c == [cons EXCEPT !.resync = b]
  <2>1. c.expected = cons.expected /\ c.resync = b
    BY <1>f DEF ConsumerSet
  <2> HIDE DEF c
  <2>2. RecvEnds(c)
    BY <1>r DEF c
  <2> QED BY <1>e, <1>n, <2>1, <2>2
<1>x. ASSUME NEW x \in Nat, RecvEnds([cons EXCEPT !.expected = x])
      PROVE  cons' \in ConsumerSet /\ cons'.pc = "idle"
  <2> DEFINE c == [cons EXCEPT !.expected = x]
  <2>1. c.expected = x /\ c.resync = cons.resync
    BY <1>f DEF ConsumerSet
  <2> HIDE DEF c
  <2>2. RecvEnds(c)
    BY <1>x DEF c
  <2> QED BY <1>e, <1>n, <2>1, <2>2
<1>1. CASE RecvBegin
  <2>1. cons' = [cons EXCEPT !.pc = "gate", !.h = head, !.t = tail, !.took = cons.resync,
                             !.resync = FALSE]
    BY <1>1 DEF RecvBegin
  <2>2. cons' \in ConsumerSet /\ cons'.pc = "gate"
    BY <1>f, <1>n, <2>1 DEF ConsumerSet, ConsumerPcs
  <2> QED BY <1>1, <1>f, <2>2, ConsumerChanged DEF RecvBegin
<1>2. CASE Gate
  <2>1. \/ cons' = [cons EXCEPT !.pc = "copy", !.seq = slots[TailIdx].seq]
        \/ cons' = [cons EXCEPT !.pc = "verify", !.k = TailIdx]
        \/ RecvEnds([cons EXCEPT !.resync = cons.took])
        \/ RecvEnds(cons)
    BY <1>2 DEF Gate
  <2>2. ASSUME cons' = [cons EXCEPT !.pc = "copy", !.seq = slots[TailIdx].seq]
        PROVE  cons' \in ConsumerSet /\ cons'.pc = "copy"
    <3>1. slots[TailIdx].seq \in Nat
      BY <1>i, <1>j
    <3> QED BY <1>f, <2>2, <3>1 DEF ConsumerSet, ConsumerPcs
  <2>3. ASSUME cons' = [cons EXCEPT !.pc = "verify", !.k = TailIdx]
        PROVE  cons' \in ConsumerSet /\ cons'.pc = "verify"
    BY <1>f, <1>i, <2>3 DEF ConsumerSet, ConsumerPcs
  <2>4. cons' \in ConsumerSet /\ cons'.pc # "free"
    BY <1>n, <1>o, <1>r, <2>1, <2>2, <2>3
  <2> QED BY <1>2, <1>f, <2>4, ConsumerChanged DEF Gate
<1>3. CASE Verify
  <2>1. \/ cons' = [cons EXCEPT !.pc = "free"] /\ cons.freed < Cap
        \/ RecvEnds([cons EXCEPT !.resync = cons.took])
        \/ cons' = [cons EXCEPT !.pc = "second", !.resync = TRUE]
    BY <1>3 DEF Verify
  <2>2. CASE cons' = [cons EXCEPT !.pc = "free"] /\ cons.freed < Cap
    <3>1. cons' \in ConsumerSet /\ cons'.freed < Cap
      BY <1>f, <2>2 DEF ConsumerSet, ConsumerPcs
    <3> QED BY <1>3, <1>f, <3>1, ConsumerChanged DEF Verify
  <2>3. CASE cons' = [cons EXCEPT !.pc = "second", !.resync = TRUE]
    <3>1. cons' \in ConsumerSet /\ cons'.pc = "second"
      BY <1>f, <2>3 DEF ConsumerSet, ConsumerPcs
    <3> QED BY <1>3, <1>f, <3>1, ConsumerChanged DEF Verify
  <2>4. CASE RecvEnds([cons EXCEPT !.resync = cons.took])
    <3>1. cons' \in ConsumerSet /\ cons'.pc = "idle"
      BY <1>n, <1>r, <2>4
    <3> QED BY <1>3, <1>f, <3>1, ConsumerChanged DEF Verify
  <2> QED BY <2>1, <2>2, <2>3, <2>4
<1>4. CASE FreeDead
  <2>1. cons' = [cons EXCEPT !.pc = "verify", !.k = Next1(cons.k), !.freed = cons.freed + 1]
        /\ cons.freed < Cap /\ ReleaseHeader(cons.k)
    BY <1>4, <1>f DEF FreeDead, ConsAt
  <2>f. cons.freed \in 0 .. Cap
    BY <1>f DEF ConsumerSet, Upto
  <2>2. cons.freed + 1 \in Upto
    BY <1>f, <2>1, <2>f DEF Upto
  <2>3. cons' \in ConsumerSet /\ cons'.pc = "verify"
    BY <1>f, <1>i, <2>1, <2>2 DEF ConsumerSet, ConsumerPcs
  <2>4. slots' \in Ring
    BY <1>n, <2>1, RingStays
  <2> QED BY <1>4, <1>f, <2>3, <2>4, ConsumerChanged DEF FreeDead
<1>5. CASE SecondLook
  <2>1. \/ cons' = [cons EXCEPT !.pc = "copy", !.seq = slots[TailIdx].seq]
        \/ RecvEnds(cons)
    BY <1>5 DEF SecondLook
  <2>2. slots[TailIdx].seq \in Nat
    BY <1>i, <1>j
  <2>3. cons' \in ConsumerSet /\ cons'.pc # "free"
    BY <1>f, <1>o, <2>1, <2>2 DEF ConsumerSet, ConsumerPcs
  <2> QED BY <1>5, <1>f, <2>3, ConsumerChanged DEF SecondLook
<1>6. CASE CopyPayload
  <2>1. slots[TailIdx].frame \in FrameSet
    BY <1>i, <1>j
  <2>2. cons' \in ConsumerSet /\ cons'.pc = "pin"
    BY <1>6, <1>f, <2>1 DEF CopyPayload, ConsumerSet, ConsumerPcs
  <2> QED BY <1>6, <1>f, <2>2, ConsumerChanged DEF CopyPayload
<1>7. CASE PinSlot
  <2>1. slots' \in Ring
    BY <1>7, <1>i, <1>n, RingStays DEF PinSlot, SlotState
  <2>2. CASE RecvEnds(cons)
    BY <1>7, <1>f, <1>o, <2>1, <2>2, ConsumerChanged DEF PinSlot
  <2>3. CASE ~RecvEnds(cons)
    <3> DEFINE first == IF cons.part = 0 THEN cons.frame ELSE cons.first
               expected == IF cons.part = 0 THEN cons.seq ELSE cons.expected
    <3>1. cons' = [cons EXCEPT !.pc = "release", !.first = first, !.expected = expected]
      BY <1>7, <2>3 DEF PinSlot
    <3>2. first \in FrameSet /\ expected \in Nat
      BY <1>n
    <3> HIDE DEF first, expected
    <3>3. cons' \in ConsumerSet /\ cons'.pc = "release"
      BY <1>f, <3>1, <3>2 DEF ConsumerSet, ConsumerPcs
    <3> QED BY <1>7, <1>f, <2>1, <3>3, ConsumerChanged DEF PinSlot
  <2> QED BY <2>2, <2>3
<1>8. CASE FreeTail
  <2>1. slots' \in Ring
    BY <1>8, <1>i, RingStays DEF FreeTail
  <2>2. cons' \in ConsumerSet /\ cons'.pc \in {"idle", "advance"}
    <3>1. CASE RecvEnds(cons)
      BY <1>f, <1>o, <3>1
    <3>2. CASE cons' = [cons EXCEPT !.pc = "advance"]
      BY <1>f, <3>2 DEF ConsumerSet, ConsumerPcs
    <3> QED BY <1>8, <3>1, <3>2 DEF FreeTail
  <2> QED BY <1>8, <1>f, <2>1, <2>2, ConsumerChanged DEF FreeTail
<1>9. CASE AdvanceTail
  <2>1. tail' \in Nat
    BY <1>9, <1>n DEF AdvanceTail
  <2>2. CASE Torn \/ cons.part + 1 >= cons.first.total
    <3>1. RecvEnds([cons EXCEPT !.expected = cons.expected + 1])
          /\ got' \in {got, Append(got, cons.first.id)}
      BY <1>9, <2>2 DEF AdvanceTail
    <3>2. cons' \in ConsumerSet /\ cons'.pc = "idle"
      BY <1>n, <1>x, <3>1
    <3>3. got' \in Seq(Nat)
      <4>1. cons.first.id \in Nat
        BY <1>n DEF FrameSet
      <4>2. got \in Seq(Nat)
        BY <1>f
      <4>3. Append(got, cons.first.id) \in Seq(Nat)
        BY <4>1, <4>2
      <4> QED BY <3>1, <4>2, <4>3
    <3> QED BY <1>9, <1>f, <2>1, <3>2, <3>3, ConsumerChanged DEF AdvanceTail
  <2>3. CASE ~(Torn \/ cons.part + 1 >= cons.first.total)
    <3>1. cons' = [cons EXCEPT !.pc = "gate", !.t = cons.t + 1, !.part = cons.part + 1]
          /\ got' = got
      BY <1>9, <2>3 DEF AdvanceTail
    <3>2. cons.part + 1 \in Upto
      <4>1. cons.first.total \in 0 .. Cap
        BY <1>n DEF FrameSet
      <4>2. cons.part + 1 < cons.first.total
        <5>0. cons.part \in 0 .. Cap /\ Cap \in Nat
          BY <1>f, <1>n
        <5>1. cons.part + 1 \in Nat /\ cons.first.total \in Nat
          BY <4>1, <5>0
        <5>2. ~(cons.part + 1 >= cons.first.total)
          BY <2>3
        <5> QED BY <5>1, <5>2
      <4>3. cons.part \in Nat /\ Cap \in Nat
        BY <1>f, <1>n
      <4> QED BY <4>1, <4>2, <4>3 DEF Upto
    <3>3. cons' \in ConsumerSet /\ cons'.pc = "gate"
      BY <1>f, <1>n, <3>1, <3>2 DEF ConsumerSet, ConsumerPcs
    <3> QED BY <1>9, <1>f, <2>1, <3>1, <3>3, ConsumerChanged DEF AdvanceTail
  <2> QED BY <2>2, <2>3
<1>10. CASE ConsOpen
  <2>1. cons' \in ConsumerSet /\ cons'.pc = "reclaim"
    BY <1>10, <1>f, <1>n DEF ConsOpen, ConsumerSet, ConsumerPcs
  <2> QED BY <1>10, <1>f, <2>1, ConsumerChanged DEF ConsOpen
<1>11. CASE ConsOpenReclaim
  <2> DEFINE resync == cons.resync \/ DeadWriting(cons.k)
             to == IF cons.k + 1 < Cap THEN "reclaim" ELSE "scan"
  <2>1. cons' = [cons EXCEPT !.k = Next1(cons.k), !.resync = resync, !.pc = to]
    BY <1>11 DEF ConsOpenReclaim
  <2>2. resync \in BOOLEAN /\ to \in {"reclaim", "scan"}
    OBVIOUS
  <2> HIDE DEF resync, to
  <2>3. cons' \in ConsumerSet /\ cons'.pc # "free"
    BY <1>f, <1>i, <2>1, <2>2 DEF ConsumerSet, ConsumerPcs
  <2>4. slots' \in Ring
    BY <1>11, <1>f, <1>n, RingStays DEF ConsOpenReclaim
  <2> QED BY <1>11, <1>f, <2>3, <2>4, ConsumerChanged DEF ConsOpenReclaim
<1>12. CASE ConsOpenScan
  <2> DEFINE readable == cons.readable \/ slots[cons.k].state \in {"COMMITTED", "PINNED"}
             to == IF cons.k + 1 < Cap THEN "scan" ELSE "expect"
  <2>1. cons' = [cons EXCEPT !.k = Next1(cons.k), !.pc = to, !.readable = readable]
    BY <1>12 DEF ConsOpenScan
  <2>2. readable \in BOOLEAN /\ to \in {"scan", "expect"}
    OBVIOUS
  <2> HIDE DEF readable, to
  <2>3. cons' \in ConsumerSet /\ cons'.pc # "free"
    BY <1>f, <1>i, <2>1, <2>2 DEF ConsumerSet, ConsumerPcs
  <2> QED BY <1>12, <1>f, <2>3, ConsumerChanged DEF ConsOpenScan
<1>13. CASE ConsOpenExpect
  <2>1. slots[tail % Cap].seq \in Nat
    BY <1>j, TailIdxIn
  <2>2. \/ cons' = [Consumer EXCEPT !.pc = "dead", !.inc = cons.inc]
        \/ RecvEnds([cons EXCEPT !.expected = slots[tail % Cap].seq])
        \/ RecvEnds([cons EXCEPT !.resync = TRUE])
    BY <1>13 DEF ConsOpenExpect
  <2>3. cons' \in ConsumerSet /\ cons'.pc \in {"idle", "dead"}
    <3>1. CASE cons' = [Consumer EXCEPT !.pc = "dead", !.inc = cons.inc]
      BY <1>c, <1>n, <3>1 DEF ConsumerSet, ConsumerPcs
    <3> QED BY <1>r, <1>x, <2>1, <2>2, <3>1
  <2> QED BY <1>13, <1>f, <2>3, ConsumerChanged DEF ConsOpenExpect
<1>14. CASE ReclaimStale
  <2>1. slots' \in Ring
    <3>1. PICK stale : slots' = [i \in 0 .. Cap - 1 |-> IF i \in stale THEN FreeSlot ELSE slots[i]]
      BY <1>14 DEF ReclaimStale
    <3>2. \A i \in 0 .. Cap - 1 : slots[i] \in SlotSet /\ FreeSlot \in SlotSet
      BY RingStays
    <3> QED BY <3>1, <3>2 DEF Ring
  <2>2. cons' \in ConsumerSet /\ cons'.pc = cons.pc /\ cons'.freed = cons.freed
    BY <1>14, <1>f DEF ReclaimStale, ConsumerSet
  <2> QED BY <1>14, <1>f, <2>1, <2>2, ConsumerChanged DEF ReclaimStale
<1>15. CASE ConsDie
  <2>1. cons' \in ConsumerSet /\ cons'.pc = "dead"
    BY <1>15, <1>c, <1>n DEF ConsDie, ConsumerSet, ConsumerPcs
  <2> QED BY <1>15, <1>f, <2>1, ConsumerChanged DEF ConsDie
<1> QED
  BY <1>1, <1>2, <1>3, <1>4, <1>5, <1>6, <1>7, <1>8, <1>9, <1>10, <1>11, <1>12, <1>13, <1>14,
     <1>15
  DEF ConsumerStep

LEMMA TypedNext == Typed /\ [Next]_vars => Typed'
<1>1. CASE UNCHANGED vars
  BY <1>1 DEF vars, Typed, ProducerBounds
<1>2. CASE Next
  BY <1>2, TypedProducer, TypedConsumer DEF Next
<1> QED BY <1>1, <1>2

\* Every variable keeps its type through kills and reopenings: no count of a
\* recovery scan exceeds the ring, and no message more chunks than it has slots.
THEOREM RecoveryTypeCorrect == Spec => []TypeOK
<1> QED BY TypedInit, TypedNext, TypedTypeOK, PTL DEF Spec

-----------------------------------------------------------------------------
(* A live writer's slot                                                    *)

\* The slot the producer is at: FREE when it is about to be marked, then
\* WRITING, nameless until it is stamped, then with the writer's own identity.
WriterInv ==
  /\ At("mark") => slots[pr.idx].state = "FREE"
  /\ At("stamp") => slots[pr.idx].state = "WRITING" /\ slots[pr.idx].owner = 0
  /\ pr.pc \in {"fill", "commit"} =>
       slots[pr.idx].state = "WRITING" /\ slots[pr.idx].owner = pr.inc

\* The slot the consumer is at: what it has read there still holds when it
\* writes, as nobody opens the region under it.
ReaderInv ==
  /\ ConsAt("free") => DeadWriting(cons.k)
  /\ cons.pc \in {"copy", "pin"} => slots[TailIdx].state = "COMMITTED"
  /\ ConsAt("release") => slots[TailIdx].state = "PINNED"
  /\ pr.pc \in Opening => cons.pc \in {"idle", "dead"}

IInv == Typed /\ (scenario.quiet => WriterInv /\ ReaderInv)

\* What the consumer may write: a message, or what a dead writer left.
Theirs(i) == DeadWriting(i) \/ slots[i].state \in {"COMMITTED", "PINNED"}
OnlyTheirs == \A i \in 0 .. Cap - 1 : Theirs(i) \/ slots'[i] = slots[i]

LEMMA WriterStays ==
  ASSUME Typed, WriterInv, UNCHANGED pr, OnlyTheirs
  PROVE  /\ WriterInv'
         /\ pr.pc \in {"stamp", "fill", "commit"} => slots'[pr.idx] = slots[pr.idx]
<1>1. pr.idx \in 0 .. Cap - 1
  BY DEF Typed, ProducerSet, Index
<1>2. pr.pc \in {"mark", "stamp", "fill", "commit"} => ~Theirs(pr.idx)
  BY DEF WriterInv, At, Theirs, DeadWriting, Gone
<1>3. pr.pc \in {"mark", "stamp", "fill", "commit"} => slots'[pr.idx] = slots[pr.idx]
  BY <1>1, <1>2 DEF OnlyTheirs
<1> QED BY <1>3 DEF WriterInv, At

LEMMA ReaderStays ==
  ASSUME Typed, ReaderInv, UNCHANGED cons, pr'.inc = pr.inc, pr.pc = "dead" => pr'.pc = "dead",
         pr'.pc \in Opening => pr.pc \in Opening,
         \A i \in 0 .. Cap - 1 : Theirs(i) => slots'[i] = slots[i]
  PROVE  ReaderInv'
<1>1. TailIdx \in 0 .. Cap - 1 /\ TailIdx' = TailIdx /\ cons.k \in 0 .. Cap - 1
  BY TailIdxIn DEF TailIdx, Typed, ConsumerSet, Index
<1>2. ConsAt("free") => slots'[cons.k] = slots[cons.k]
  BY <1>1 DEF ReaderInv, Theirs
<1>3. cons.pc \in {"copy", "pin", "release"} => slots'[TailIdx] = slots[TailIdx]
  BY <1>1 DEF ReaderInv, Theirs, ConsAt
<1>4. ConsAt("free") => DeadWriting(cons.k)'
  BY <1>2 DEF ReaderInv, DeadWriting, Gone
<1> QED BY <1>1, <1>3, <1>4 DEF ReaderInv, ConsAt

LEMMA QuietInit == Init => WriterInv /\ ReaderInv
  BY DEF Init, WriterInv, ReaderInv, Producer, Consumer, At, ConsAt, Opening

LEMMA QuietProducer ==
  ASSUME Typed, scenario.quiet, WriterInv, ReaderInv,
         \/ \E n \in scenario.sizes : SendBegin(n)
         \/ ProducerStep \/ Die \/ Open
  PROVE  /\ WriterInv' /\ ReaderInv'
         /\ ~(pr.pc \in {"stamp", "fill", "commit"} /\ pr' = pr)
<1>f. /\ slots \in [0 .. Cap - 1 -> SlotSet] /\ pr \in ProducerSet /\ pr.idx \in 0 .. Cap - 1
  BY DEF Typed, Ring, ProducerSet, Index
<1>p. ASSUME NEW to, Goto(to) PROVE pr'.pc = to /\ pr'.inc = pr.inc /\ pr'.idx = pr.idx
  BY <1>f, <1>p DEF Goto, ProducerSet
\* A write to the producer's own slot.
<1>o. ASSUME NEW x, slots' = [slots EXCEPT ![pr.idx] = x],
             pr.pc \in {"mark", "stamp", "fill", "commit"}
      PROVE  slots'[pr.idx] = x /\ \A i \in 0 .. Cap - 1 : Theirs(i) => slots'[i] = slots[i]
  <2>1. ~Theirs(pr.idx)
    BY <1>o DEF WriterInv, At, Theirs, DeadWriting, Gone
  <2> QED BY <1>f, <1>o, <2>1
<1>1. ASSUME NEW n \in scenario.sizes, SendBegin(n)
      PROVE  WriterInv' /\ ReaderInv' /\ pr.pc = "idle"
  <2>1. pr'.pc = "claim" /\ pr'.inc = pr.inc /\ pr.pc = "idle" /\ UNCHANGED <<slots, cons>>
    BY <1>1, <1>f DEF SendBegin, At, ProducerSet
  <2> QED BY <2>1, ReaderStays DEF WriterInv, At, Opening
<1>2. CASE ClaimSlot
  <2>1. pr.pc = "claim" /\ pr'.pc \in {"mark", "idle"} /\ pr'.inc = pr.inc /\ pr'.idx = pr.idx
        /\ (pr'.pc = "mark" => slots[pr.idx].state = "FREE") /\ UNCHANGED <<slots, cons>>
    BY <1>2, <1>p DEF ClaimSlot, At
  <2> QED BY <2>1, ReaderStays DEF WriterInv, At, Opening
<1>3. CASE MarkSlot
  <2>1. pr.pc = "mark" /\ pr'.pc = "stamp" /\ pr'.inc = pr.inc /\ pr'.idx = pr.idx /\ cons' = cons
    BY <1>3, <1>p DEF MarkSlot, At
  <2> DEFINE x == [state |-> "WRITING", seq |-> pr.next - 1, owner |-> 0,
                   frame |-> slots[pr.idx].frame]
  <2>2. slots' = [slots EXCEPT ![pr.idx] = x]
    BY <1>3 DEF MarkSlot, WriteHeader
  <2>3. x.state = "WRITING" /\ x.owner = 0
    OBVIOUS
  <2> HIDE DEF x
  <2>4. slots'[pr.idx] = x /\ \A i \in 0 .. Cap - 1 : Theirs(i) => slots'[i] = slots[i]
    BY <1>o, <2>1, <2>2
  <2>5. ReaderInv'
    BY <2>1, <2>4, ReaderStays DEF Opening
  <2> QED BY <2>1, <2>3, <2>4, <2>5 DEF WriterInv, At
<1>4. CASE StampSlot
  <2>1. pr.pc = "stamp" /\ pr'.pc = "fill" /\ pr'.inc = pr.inc /\ pr'.idx = pr.idx /\ cons' = cons
    BY <1>4, <1>p DEF StampSlot, At
  <2> DEFINE x == [slots[pr.idx] EXCEPT !.owner = pr.inc]
  <2>2. slots' = [slots EXCEPT ![pr.idx] = x]
    BY <1>4 DEF StampSlot, PublishIdentity
  <2>3. x.state = "WRITING" /\ x.owner = pr.inc
    <3>1. slots[pr.idx] \in SlotSet /\ slots[pr.idx].state = "WRITING"
      BY <1>f, <2>1 DEF WriterInv, At
    <3> QED BY <3>1 DEF SlotSet
  <2> HIDE DEF x
  <2>4. slots'[pr.idx] = x /\ \A i \in 0 .. Cap - 1 : Theirs(i) => slots'[i] = slots[i]
    BY <1>o, <2>1, <2>2
  <2>5. ReaderInv'
    BY <2>1, <2>4, ReaderStays DEF Opening
  <2> QED BY <2>1, <2>3, <2>4, <2>5 DEF WriterInv, At
<1>5. CASE FillSlot
  <2>1. pr.pc = "fill" /\ pr'.pc = "commit" /\ pr'.inc = pr.inc /\ pr'.idx = pr.idx /\ cons' = cons
    BY <1>5, <1>p DEF FillSlot, At
  <2>2. PICK frame : slots' = [slots EXCEPT ![pr.idx] = [slots[pr.idx] EXCEPT !.frame = frame]]
    BY <1>5 DEF FillSlot
  <2> DEFINE x == [slots[pr.idx] EXCEPT !.frame = frame]
  <2>3. x.state = "WRITING" /\ x.owner = pr.inc
    <3>1. slots[pr.idx] \in SlotSet /\ slots[pr.idx].state = "WRITING"
          /\ slots[pr.idx].owner = pr.inc
      BY <1>f, <2>1 DEF WriterInv, At
    <3> QED BY <3>1 DEF SlotSet
  <2>4. slots'[pr.idx] = x /\ \A i \in 0 .. Cap - 1 : Theirs(i) => slots'[i] = slots[i]
    BY <1>o, <2>1, <2>2
  <2> HIDE DEF x
  <2>5. ReaderInv'
    BY <2>1, <2>4, ReaderStays DEF Opening
  <2> QED BY <2>1, <2>3, <2>4, <2>5 DEF WriterInv, At
<1>6. CASE CommitSlot
  <2>1. pr.pc = "commit" /\ pr'.pc \in {"publish", "claim"} /\ pr'.inc = pr.inc /\ cons' = cons
    BY <1>6, <1>f DEF CommitSlot, At, ProducerSet
  <2>2. \A i \in 0 .. Cap - 1 : Theirs(i) => slots'[i] = slots[i]
    BY <1>6, <1>o, <2>1 DEF CommitSlot, WriteHeader
  <2>3. ReaderInv'
    BY <2>1, <2>2, ReaderStays DEF Opening
  <2> QED BY <2>1, <2>3 DEF WriterInv, At
<1>7. CASE PublishHead
  <2>1. pr.pc = "publish" /\ pr'.pc = "idle" /\ pr'.inc = pr.inc /\ UNCHANGED <<slots, cons>>
    BY <1>7, <1>p DEF PublishHead, At
  <2> QED BY <2>1, ReaderStays DEF WriterInv, At, Opening
<1>8. CASE Die
  <2>1. pr'.pc = "dead" /\ pr'.inc = pr.inc /\ UNCHANGED <<slots, cons>>
    BY <1>8 DEF Die, Producer
  <2>2. WriterInv' /\ ReaderInv'
    BY <2>1, ReaderStays DEF WriterInv, At, Opening
  <2> QED BY <2>1, <2>2
\* Opening, the consumer is between calls or dead.
<1>9. CASE Open
  <2>1. pr.pc = "dead" /\ pr'.pc = "reclaim" /\ cons.pc \in {"idle", "dead"} /\ cons' = cons
    BY <1>9, <1>f DEF Open, At, ProducerSet
  <2> QED BY <2>1 DEF WriterInv, ReaderInv, At, ConsAt
<1>10. CASE OpenReclaim \/ OpenScan \/ OpenCursors \/ OpenInfer
  <2>1. pr.pc \in Opening /\ cons' = cons /\ cons.pc \in {"idle", "dead"}
    BY <1>10
    DEF OpenReclaim, OpenScan, OpenCursors, OpenInfer, At, Opening, ReaderInv
  <2>2. pr'.pc \in Opening \cup {"dead", "idle"}
    <3>1. CASE OpenReclaim \/ OpenScan
      BY <1>f, <3>1, <2>1 DEF OpenReclaim, OpenScan, ScanTo, ProducerSet, Opening
    <3>2. CASE OpenCursors
      BY <1>f, <3>2 DEF OpenCursors, Producer, ProducerSet, Opening
    <3>3. CASE OpenInfer
      BY <1>f, <3>3, <2>1 DEF OpenInfer, ProducerSet, Opening
    <3> QED BY <1>10, <3>1, <3>2, <3>3
  <2> QED BY <2>1, <2>2 DEF WriterInv, ReaderInv, At, ConsAt, Opening
<1> QED
  BY <1>1, <1>2, <1>3, <1>4, <1>5, <1>6, <1>7, <1>8, <1>9, <1>10
  DEF ProducerStep, MarkSlot, StampSlot, FillSlot, CommitSlot, At

LEMMA QuietConsumer ==
  ASSUME Typed, scenario.quiet, WriterInv, ReaderInv,
         ConsumerStep \/ ReclaimStale \/ ConsDie
  PROVE  /\ WriterInv' /\ ReaderInv'
         /\ pr.pc \in {"stamp", "fill", "commit"} => slots'[pr.idx] = slots[pr.idx]
<1>f. /\ slots \in [0 .. Cap - 1 -> SlotSet] /\ cons \in ConsumerSet
      /\ TailIdx \in 0 .. Cap - 1 /\ cons.k \in 0 .. Cap - 1
  BY TailIdxIn DEF Typed, Ring, ConsumerSet, Index
<1>e. \A c : RecvEnds(c) => cons'.pc = "idle"
  BY DEF RecvEnds, Consumer
<1>p. UNCHANGED pr
  BY DEF ConsumerStep, ReclaimStale, ConsDie, RecvBegin, Gate, Verify, FreeDead, SecondLook,
         CopyPayload, PinSlot, FreeTail, AdvanceTail, ConsOpen, ConsOpenReclaim, ConsOpenScan,
         ConsOpenExpect
\* Where nothing is written, only the consumer's own place matters.
<1>u. ASSUME UNCHANGED slots PROVE OnlyTheirs
  BY <1>u DEF OnlyTheirs
<1>o. ASSUME NEW i \in 0 .. Cap - 1, NEW x, slots' = [slots EXCEPT ![i] = x], Theirs(i)
      PROVE  OnlyTheirs /\ slots'[i] = x
  BY <1>f, <1>o DEF OnlyTheirs
<1>w. ASSUME OnlyTheirs, ReaderInv'
      PROVE  /\ WriterInv' /\ ReaderInv'
             /\ pr.pc \in {"stamp", "fill", "commit"} => slots'[pr.idx] = slots[pr.idx]
  BY <1>p, <1>w, WriterStays
<1>1. CASE RecvBegin
  <2>1. cons'.pc = "gate" /\ pr.pc \notin Opening
    BY <1>1, <1>f DEF RecvBegin, ConsumerSet
  <2>2. ReaderInv'
    BY <1>p, <2>1 DEF ReaderInv, ConsAt
  <2> QED BY <1>1, <1>u, <1>w, <2>2 DEF RecvBegin
<1>2. CASE Gate
  <2>1. pr.pc \notin Opening /\ UNCHANGED slots
    BY <1>2 DEF Gate, ConsAt, ReaderInv
  <2>2. \/ cons'.pc = "copy" /\ cons'.t = cons.t /\ slots[TailIdx].state = "COMMITTED"
        \/ cons'.pc \in {"idle", "verify"}
    BY <1>2, <1>e, <1>f DEF Gate, ConsumerSet
  <2>3. ReaderInv'
    BY <1>p, <2>1, <2>2 DEF ReaderInv, ConsAt, TailIdx
  <2> QED BY <1>u, <1>w, <2>1, <2>3
<1>3. CASE Verify
  <2>1. pr.pc \notin Opening /\ UNCHANGED slots
    BY <1>3 DEF Verify, ConsAt, ReaderInv
  <2>2. \/ cons'.pc = "free" /\ cons'.k = cons.k /\ DeadWriting(cons.k)
        \/ cons'.pc \in {"idle", "second"}
    BY <1>3, <1>e, <1>f DEF Verify, ConsumerSet
  <2>3. DeadWriting(cons.k) /\ cons'.k = cons.k => DeadWriting(cons.k)'
    BY <1>p, <2>1 DEF DeadWriting, Gone
  <2>4. ReaderInv'
    BY <1>p, <2>1, <2>2, <2>3 DEF ReaderInv, ConsAt
  <2> QED BY <1>u, <1>w, <2>1, <2>4
<1>4. CASE FreeDead
  <2>1. pr.pc \notin Opening /\ Theirs(cons.k) /\ slots' = [slots EXCEPT ![cons.k] = FreeSlot]
    BY <1>4 DEF FreeDead, ConsAt, ReaderInv, Theirs, ReleaseHeader
  <2>2. cons'.pc = "verify"
    BY <1>4, <1>f DEF FreeDead, ConsumerSet
  <2>3. ReaderInv'
    BY <1>p, <2>1, <2>2 DEF ReaderInv, ConsAt
  <2> QED BY <1>f, <1>o, <1>w, <2>1, <2>3
<1>5. CASE SecondLook
  <2>1. pr.pc \notin Opening /\ UNCHANGED slots
    BY <1>5 DEF SecondLook, ConsAt, ReaderInv
  <2>2. \/ cons'.pc = "copy" /\ cons'.t = cons.t /\ slots[TailIdx].state = "COMMITTED"
        \/ cons'.pc = "idle"
    BY <1>5, <1>e, <1>f DEF SecondLook, ConsumerSet
  <2>3. ReaderInv'
    BY <1>p, <2>1, <2>2 DEF ReaderInv, ConsAt, TailIdx
  <2> QED BY <1>u, <1>w, <2>1, <2>3
<1>6. CASE CopyPayload
  <2>1. pr.pc \notin Opening /\ UNCHANGED slots /\ slots[TailIdx].state = "COMMITTED"
    BY <1>6 DEF CopyPayload, ConsAt, ReaderInv
  <2>2. cons'.pc = "pin" /\ cons'.t = cons.t
    BY <1>6, <1>f DEF CopyPayload, ConsumerSet
  <2>3. ReaderInv'
    BY <1>p, <2>1, <2>2 DEF ReaderInv, ConsAt, TailIdx
  <2> QED BY <1>u, <1>w, <2>1, <2>3
<1>7. CASE PinSlot
  <2> DEFINE x == [state |-> "PINNED", seq |-> cons.seq, owner |-> 0,
                   frame |-> slots[TailIdx].frame]
  <2>1. pr.pc \notin Opening /\ Theirs(TailIdx) /\ slots' = [slots EXCEPT ![TailIdx] = x]
    BY <1>7 DEF PinSlot, ConsAt, ReaderInv, Theirs, WriteHeader
  <2>2. x.state = "PINNED"
    OBVIOUS
  <2> HIDE DEF x
  <2>3. OnlyTheirs /\ slots'[TailIdx].state = "PINNED"
    BY <1>f, <1>o, <2>1, <2>2
  <2>4. cons'.pc = "idle" \/ (cons'.pc = "release" /\ cons'.t = cons.t)
    BY <1>7, <1>e, <1>f DEF PinSlot, ConsumerSet
  <2>5. ReaderInv'
    BY <1>p, <2>1, <2>3, <2>4 DEF ReaderInv, ConsAt, TailIdx
  <2> QED BY <1>w, <2>3, <2>5
<1>8. CASE FreeTail
  <2>1. pr.pc \notin Opening /\ Theirs(TailIdx) /\ slots' = [slots EXCEPT ![TailIdx] = FreeSlot]
    BY <1>8 DEF FreeTail, ConsAt, ReaderInv, Theirs, ReleaseHeader
  <2>2. cons'.pc \in {"idle", "advance"}
    BY <1>8, <1>e, <1>f DEF FreeTail, ConsumerSet
  <2>3. ReaderInv'
    BY <1>p, <2>1, <2>2 DEF ReaderInv, ConsAt
  <2> QED BY <1>f, <1>o, <1>w, <2>1, <2>3
<1>9. CASE AdvanceTail
  <2>1. pr.pc \notin Opening /\ UNCHANGED slots
    BY <1>9 DEF AdvanceTail, ConsAt, ReaderInv
  <2>2. cons'.pc \in {"idle", "gate"}
    BY <1>9, <1>e, <1>f DEF AdvanceTail, ConsumerSet
  <2>3. ReaderInv'
    BY <1>p, <2>1, <2>2 DEF ReaderInv, ConsAt
  <2> QED BY <1>u, <1>w, <2>1, <2>3
<1>10. CASE ConsOpen
  <2>1. pr.pc \notin Opening /\ UNCHANGED slots /\ cons'.pc = "reclaim"
    BY <1>10, <1>f DEF ConsOpen, ConsumerSet
  <2>2. ReaderInv'
    BY <1>p, <2>1 DEF ReaderInv, ConsAt
  <2> QED BY <1>u, <1>w, <2>1, <2>2
<1>11. CASE ConsOpenReclaim
  <2>1. pr.pc \notin Opening
    BY <1>11 DEF ConsOpenReclaim, ConsAt, ReaderInv
  <2>2. OnlyTheirs
    <3>1. CASE DeadWriting(cons.k)
      BY <1>11, <1>f, <1>o, <3>1 DEF ConsOpenReclaim, ReleaseHeader, Theirs
    <3>2. CASE ~DeadWriting(cons.k)
      BY <1>11, <1>u, <3>2 DEF ConsOpenReclaim
    <3> QED BY <3>1, <3>2
  <2>3. cons'.pc \in {"reclaim", "scan"}
    BY <1>11, <1>f DEF ConsOpenReclaim, ConsumerSet
  <2>4. ReaderInv'
    BY <1>p, <2>1, <2>3 DEF ReaderInv, ConsAt
  <2> QED BY <1>w, <2>2, <2>4
<1>12. CASE ConsOpenScan
  <2>1. pr.pc \notin Opening /\ UNCHANGED slots
    BY <1>12 DEF ConsOpenScan, ConsAt, ReaderInv
  <2>2. cons'.pc \in {"scan", "expect"}
    BY <1>12, <1>f DEF ConsOpenScan, ConsumerSet
  <2>3. ReaderInv'
    BY <1>p, <2>1, <2>2 DEF ReaderInv, ConsAt
  <2> QED BY <1>u, <1>w, <2>1, <2>3
<1>13. CASE ConsOpenExpect
  <2>1. cons'.pc \in {"idle", "dead"} /\ UNCHANGED slots
    <3>1. CASE Inconsistent
      BY <1>13, <3>1 DEF ConsOpenExpect, Consumer
    <3> QED BY <1>13, <1>e, <3>1 DEF ConsOpenExpect
  <2>2. ReaderInv'
    BY <1>p, <2>1 DEF ReaderInv, ConsAt
  <2> QED BY <1>u, <1>w, <2>1, <2>2
<1>14. CASE ReclaimStale
  <2>1. OnlyTheirs
    BY <1>14 DEF ReclaimStale, OnlyTheirs, Theirs
  <2>2. cons'.pc = "idle"
    BY <1>14, <1>f DEF ReclaimStale, ConsAt, ConsumerSet
  <2>3. ReaderInv'
    BY <1>p, <2>2 DEF ReaderInv, ConsAt
  <2> QED BY <1>w, <2>1, <2>3
<1>15. CASE ConsDie
  <2>1. cons'.pc = "dead" /\ UNCHANGED slots
    BY <1>15 DEF ConsDie, Consumer
  <2>2. ReaderInv'
    BY <1>p, <2>1 DEF ReaderInv, ConsAt
  <2> QED BY <1>u, <1>w, <2>1, <2>2
<1> QED
  BY <1>1, <1>2, <1>3, <1>4, <1>5, <1>6, <1>7, <1>8, <1>9, <1>10, <1>11, <1>12, <1>13, <1>14,
     <1>15
  DEF ConsumerStep

LEMMA ScenarioFixed == [Next]_vars => scenario' = scenario
  BY DEF Next, vars, SendBegin, ProducerStep, Die, Open, ConsumerStep, ReclaimStale, ConsDie,
         ClaimSlot, MarkSlot, StampSlot, FillSlot, CommitSlot, PublishHead, OpenReclaim, OpenScan,
         OpenCursors, OpenInfer, RecvBegin, Gate, Verify, FreeDead, SecondLook, CopyPayload,
         PinSlot, FreeTail, AdvanceTail, ConsOpen, ConsOpenReclaim, ConsOpenScan, ConsOpenExpect

LEMMA QuietNext ==
  IInv /\ [Next]_vars =>
    /\ IInv'
    /\ scenario.quiet /\ pr.pc \in {"stamp", "fill", "commit"} /\ pr' = pr =>
         slots'[pr.idx] = slots[pr.idx]
<1>1. ASSUME IInv, Next, scenario.quiet
      PROVE  /\ WriterInv' /\ ReaderInv'
             /\ pr.pc \in {"stamp", "fill", "commit"} /\ pr' = pr =>
                  slots'[pr.idx] = slots[pr.idx]
  BY <1>1, QuietProducer, QuietConsumer DEF IInv, Next
<1>2. ASSUME IInv, UNCHANGED vars, scenario.quiet
      PROVE  /\ WriterInv' /\ ReaderInv' /\ slots'[pr.idx] = slots[pr.idx]
  BY <1>2
  DEF IInv, vars, WriterInv, ReaderInv, At, ConsAt, DeadWriting, Gone, TailIdx
<1> QED BY <1>1, <1>2, TypedNext, ScenarioFixed DEF IInv

\* "A live writer's in-flight slots classify as Alive and are left alone": from
\* the moment its slot is marked, no step but the writer's own changes it,
\* whatever was killed and reclaimed before, when handles open beside a side
\* that makes no call.
THEOREM RecoveryLeavesWritersAlone == Spec => WriterUndisturbed
<1>1. Init => IInv
  BY TypedInit, QuietInit DEF IInv
<1>2. IInv /\ [Next]_vars => IInv'
  BY QuietNext
<1>3. IInv /\ [Next]_vars =>
        [scenario.quiet /\ pr.pc \in {"stamp", "fill", "commit"} /\ pr' = pr =>
           slots'[pr.idx] = slots[pr.idx]]_vars
  BY QuietNext
<1> QED BY <1>1, <1>2, <1>3, PTL DEF Spec, WriterUndisturbed

-----------------------------------------------------------------------------
(* One-slot messages: the ring is one line of slots from the tail on       *)

\* Scenarios of one-slot messages, whose consumer is not killed between
\* pinning a slot and moving the tail past it.
SingleSlot ==
  /\ scenario.quiet /\ scenario.sizes \subseteq {1}
  /\ scenario.ckill \cap {"release", "advance"} = {}

Base == Typed /\ SingleSlot /\ WriterInv /\ ReaderInv

LEMMA NextOrWrap ==
  ASSUME NEW i \in 0 .. Cap - 1
  PROVE  IF i + 1 < Cap THEN Next1(i) = i + 1 ELSE Next1(i) = 0
<1>1. CASE i + 1 < Cap
  BY <1>1, Next1In
<1>2. CASE ~(i + 1 < Cap)
  <2>1. i + 1 = Cap * 1 + 0 /\ 0 \in 0 .. Cap - 1 /\ i + 1 \in Nat
    BY <1>2, CapAssumption
  <2>2. (i + 1) % Cap = 0
    BY <2>1, CapAssumption, SlotOf
  <2> QED BY <1>2, <2>2 DEF Next1
<1> QED BY <1>1, <1>2

\* What a step leaves of the producer's handle.
HandleKept ==
  /\ pr'.inc = pr.inc /\ pr'.bias = pr.bias /\ pr'.need = pr.need
  /\ pr'.id = pr.id /\ pr'.k = pr.k /\ pr'.occ = pr.occ /\ pr'.pins = pr.pins

LEMMA PrTyped ==
  ASSUME Typed
  PROVE  /\ pr \in ProducerSet /\ pr.idx \in 0 .. Cap - 1 /\ pr.inc \in Nat /\ pr.next \in Nat
         /\ pr.id \in Nat /\ pr.bias \in 0 .. Cap /\ pr.k \in 0 .. Cap /\ pr.occ \in 0 .. Cap
         /\ pr.pins \in 0 .. Cap /\ pr.need \in 0 .. Cap /\ pr.done \in 0 .. Cap
         /\ pr.pc \in ProducerPcs
         /\ slots \in [0 .. Cap - 1 -> SlotSet]
         /\ \A i \in 0 .. Cap - 1 : slots[i] \in SlotSet
BY DEF Typed, ProducerSet, Index, Upto, Ring

\* A step of a send that only moves on in the protocol.
LEMMA GotoEffect ==
  ASSUME Typed, NEW to, Goto(to)
  PROVE  pr'.pc = to /\ HandleKept /\ pr'.idx = pr.idx /\ pr'.next = pr.next /\ pr'.done = pr.done
BY PrTyped DEF Goto, ProducerSet, HandleKept

LEMMA SendBeginEffect ==
  ASSUME Base, NEW n \in scenario.sizes, SendBegin(n)
  PROVE  /\ pr.pc = "idle" /\ pr'.pc = "claim" /\ n = 1 /\ HasRoom(1)
         /\ pr'.inc = pr.inc /\ pr'.bias = pr.bias /\ pr'.idx = pr.idx /\ pr'.k = pr.k
         /\ pr'.need = 1 /\ pr'.done = 0 /\ pr'.next = pr.next + 1 /\ pr'.id = pr.id + 1
         /\ UNCHANGED <<scenario, head, tail, slots, cons, sent, got, met>>
<1>1. pr \in ProducerSet /\ scenario.sizes \subseteq {1}
  BY PrTyped DEF Base, SingleSlot
<1>2. n = 1
  BY <1>1
<1> QED BY <1>1, <1>2 DEF SendBegin, At, ProducerSet

LEMMA ClaimEffect ==
  ASSUME Typed, ClaimSlot
  PROVE  /\ pr.pc = "claim" /\ pr'.pc \in {"mark", "idle"}
         /\ pr'.pc = "mark" <=> slots[pr.idx].state = "FREE"
         /\ HandleKept /\ pr'.idx = pr.idx /\ pr'.next = pr.next /\ pr'.done = pr.done
         /\ UNCHANGED <<scenario, head, tail, slots, cons, sent, got, met>>
BY GotoEffect DEF ClaimSlot, At

\* A slot of a send is written.
Lot(x) == slots' = [slots EXCEPT ![pr.idx] = x]
Marked == [state |-> "WRITING", seq |-> pr.next - 1, owner |-> 0, frame |-> slots[pr.idx].frame]
Stamped == [slots[pr.idx] EXCEPT !.owner = pr.inc]
Filled == [slots[pr.idx] EXCEPT !.frame = [id |-> pr.id, seq |-> pr.next - 1, part |-> pr.done,
                                           total |-> pr.need]]
Committed == [state |-> "COMMITTED", seq |-> pr.next - 1, owner |-> 0,
              frame |-> slots[pr.idx].frame]

LEMMA MarkEffect ==
  ASSUME Typed, MarkSlot
  PROVE  /\ pr.pc = "mark" /\ pr'.pc = "stamp" /\ Lot(Marked)
         /\ HandleKept /\ pr'.idx = pr.idx /\ pr'.next = pr.next /\ pr'.done = pr.done
         /\ UNCHANGED <<scenario, head, tail, cons, sent, got, met>>
BY GotoEffect DEF MarkSlot, At, WriteHeader, Lot, Marked

LEMMA StampEffect ==
  ASSUME Typed, StampSlot
  PROVE  /\ pr.pc = "stamp" /\ pr'.pc = "fill" /\ Lot(Stamped)
         /\ Stamped.state = slots[pr.idx].state /\ Stamped.seq = slots[pr.idx].seq
         /\ Stamped.frame = slots[pr.idx].frame /\ Stamped.owner = pr.inc
         /\ HandleKept /\ pr'.idx = pr.idx /\ pr'.next = pr.next /\ pr'.done = pr.done
         /\ UNCHANGED <<scenario, head, tail, cons, sent, got, met>>
<1>1. slots[pr.idx] \in SlotSet
  BY PrTyped
<1>2. /\ Stamped.state = slots[pr.idx].state /\ Stamped.seq = slots[pr.idx].seq
      /\ Stamped.frame = slots[pr.idx].frame /\ Stamped.owner = pr.inc
  BY <1>1 DEF Stamped, SlotSet
<1> QED BY <1>2, GotoEffect DEF StampSlot, At, PublishIdentity, Lot, Stamped

LEMMA FillEffect ==
  ASSUME Typed, FillSlot
  PROVE  /\ pr.pc = "fill" /\ pr'.pc = "commit" /\ Lot(Filled)
         /\ Filled.state = slots[pr.idx].state /\ Filled.seq = slots[pr.idx].seq
         /\ Filled.owner = slots[pr.idx].owner /\ Filled.frame.id = pr.id
         /\ Filled.frame.part = pr.done /\ Filled.frame.total = pr.need
         /\ HandleKept /\ pr'.idx = pr.idx /\ pr'.next = pr.next /\ pr'.done = pr.done
         /\ UNCHANGED <<scenario, head, tail, cons, sent, got, met>>
<1>1. slots[pr.idx] \in SlotSet
  BY PrTyped
<1>2. /\ Filled.state = slots[pr.idx].state /\ Filled.seq = slots[pr.idx].seq
      /\ Filled.owner = slots[pr.idx].owner /\ Filled.frame.id = pr.id
      /\ Filled.frame.part = pr.done /\ Filled.frame.total = pr.need
  BY <1>1 DEF Filled, SlotSet
<1> QED BY <1>2, GotoEffect DEF FillSlot, At, Lot, Filled

LEMMA PublishEffect ==
  ASSUME Typed, PublishHead
  PROVE  /\ pr.pc = "publish" /\ pr'.pc = "idle" /\ head' = head + pr.need
         /\ HandleKept /\ pr'.idx = pr.idx /\ pr'.next = pr.next /\ pr'.done = pr.done
         /\ UNCHANGED <<scenario, tail, slots, cons, sent, got, met>>
BY GotoEffect DEF PublishHead, At

LEMMA DieEffect ==
  ASSUME Typed, Die
  PROVE  /\ pr'.pc = "dead" /\ pr'.inc = pr.inc /\ pr'.id = pr.id
         /\ pr'.next = 0 /\ pr'.k = 0 /\ pr'.occ = 0 /\ pr'.pins = 0
         /\ UNCHANGED <<scenario, head, tail, slots, cons, sent, got, met>>
BY DEF Die, Producer

LEMMA OpenEffect ==
  ASSUME Typed, Open
  PROVE  /\ pr.pc = "dead" /\ pr'.pc = "reclaim" /\ pr'.inc = pr.inc + 1
         /\ pr'.id = pr.id /\ pr'.next = pr.next /\ pr'.k = pr.k /\ pr'.occ = pr.occ
         /\ pr'.pins = pr.pins
         /\ UNCHANGED <<scenario, head, tail, slots, cons, sent, got, met>>
BY PrTyped DEF Open, At, ProducerSet

\* The last slot of an index is followed by a step to the next phase.
LEMMA ReclaimEffect ==
  ASSUME Typed, OpenReclaim
  PROVE  /\ pr.pc = "reclaim" /\ pr.k \in 0 .. Cap - 1
         /\ IF pr.k + 1 < Cap THEN pr'.pc = "reclaim" /\ pr'.k = pr.k + 1
                              ELSE pr'.pc = "scan" /\ pr'.k = 0
         /\ IF DeadWriting(pr.k) THEN slots' = [slots EXCEPT ![pr.k] = FreeSlot]
                                 ELSE slots' = slots
         /\ pr'.inc = pr.inc /\ pr'.id = pr.id /\ pr'.next = pr.next
         /\ pr'.occ = 0 /\ pr'.pins = 0
         /\ UNCHANGED <<scenario, head, tail, cons, sent, got, met>>
<1>1. pr.pc = "reclaim" /\ pr.k \in 0 .. Cap - 1 /\ pr.occ = 0 /\ pr.pins = 0
  <2>1. pr.pc = "reclaim" /\ pr.k < Cap /\ pr.occ = 0 /\ pr.pins = 0
    BY DEF OpenReclaim, At, Typed, ProducerBounds
  <2>2. pr.k \in 0 .. Cap
    BY PrTyped
  <2> QED BY <2>1, <2>2, CapAssumption
<1>2. pr' = [pr EXCEPT !.k = Next1(pr.k), !.pc = ScanTo("scan")]
  BY DEF OpenReclaim
<1>3. /\ pr'.k = Next1(pr.k) /\ pr'.pc = ScanTo("scan") /\ pr'.inc = pr.inc /\ pr'.id = pr.id
      /\ pr'.next = pr.next /\ pr'.occ = 0 /\ pr'.pins = 0
  BY <1>1, <1>2, PrTyped DEF ProducerSet
<1>4. IF pr.k + 1 < Cap THEN Next1(pr.k) = pr.k + 1 ELSE Next1(pr.k) = 0
  BY <1>1, NextOrWrap
<1> QED BY <1>1, <1>3, <1>4 DEF OpenReclaim, ScanTo, ReleaseHeader

ScanOcc == IF slots[pr.k].state \in {"COMMITTED", "WRITING"} THEN pr.occ + 1 ELSE pr.occ
ScanPins == IF slots[pr.k].state = "PINNED" THEN pr.pins + 1 ELSE pr.pins
ScanNext == IF slots[pr.k].state # "FREE" /\ slots[pr.k].seq + 1 > pr.next
              THEN slots[pr.k].seq + 1 ELSE pr.next

LEMMA ScanEffect ==
  ASSUME Typed, OpenScan
  PROVE  /\ pr.pc = "scan" /\ pr.k \in 0 .. Cap - 1
         /\ IF pr.k + 1 < Cap THEN pr'.pc = "scan" /\ pr'.k = pr.k + 1
                              ELSE pr'.pc = "cursors" /\ pr'.k = 0
         /\ pr'.inc = pr.inc /\ pr'.id = pr.id
         /\ pr'.occ = ScanOcc /\ pr'.pins = ScanPins /\ pr'.next = ScanNext
         /\ UNCHANGED <<scenario, head, tail, slots, cons, sent, got, met>>
<1>1. pr.pc = "scan" /\ pr.k \in 0 .. Cap - 1
  <2>1. pr.pc = "scan" /\ pr.k < Cap
    BY DEF OpenScan, At, Typed, ProducerBounds
  <2>2. pr.k \in 0 .. Cap
    BY PrTyped
  <2> QED BY <2>1, <2>2, CapAssumption
<1>2. pr' = [pr EXCEPT !.k = Next1(pr.k), !.pc = ScanTo("cursors"),
                      !.occ = ScanOcc, !.pins = ScanPins, !.next = ScanNext]
  BY DEF OpenScan, ScanOcc, ScanPins, ScanNext, SeqAfter
<1>3. /\ pr'.k = Next1(pr.k) /\ pr'.pc = ScanTo("cursors") /\ pr'.inc = pr.inc /\ pr'.id = pr.id
      /\ pr'.occ = ScanOcc /\ pr'.pins = ScanPins /\ pr'.next = ScanNext
  BY <1>1, <1>2, PrTyped DEF ProducerSet
<1>4. IF pr.k + 1 < Cap THEN Next1(pr.k) = pr.k + 1 ELSE Next1(pr.k) = 0
  BY <1>1, NextOrWrap
<1> QED BY <1>1, <1>3, <1>4 DEF OpenScan, ScanTo

\* The opening fails, or goes on to look for the write position.  In either
\* case what it met is noted.
Pool == IF tail > head THEN pr.occ + pr.pins ELSE pr.occ
Drained == pr.occ + pr.pins = 0 /\ cons.expected > 0 /\ ~cons.resync

LEMMA CursorsEffect ==
  ASSUME Typed, OpenCursors
  PROVE  /\ pr.pc = "cursors"
         /\ \/ pr'.pc = "dead" /\ pr'.next = 0 /\ pr'.k = 0 /\ Inconsistent
            \/ /\ pr'.pc = "infer" /\ pr'.idx = tail % Cap /\ pr'.k = 0 /\ pr'.next = pr.next
               /\ pr'.bias = Beyond(Pool, Beyond(head, tail))
         /\ pr'.inc = pr.inc /\ pr'.id = pr.id
         /\ met \subseteq met' /\ (Drained \/ tail > head => met' # {})
         /\ UNCHANGED <<scenario, head, tail, slots, cons, sent, got>>
<1>1. pr.pc = "cursors"
  BY DEF OpenCursors, At
<1>2. \/ pr' = [Producer EXCEPT !.pc = "dead", !.inc = pr.inc, !.id = pr.id] /\ Inconsistent
      \/ pr' = [pr EXCEPT !.pc = "infer", !.idx = tail % Cap, !.k = 0,
                          !.bias = Beyond(Pool, Beyond(head, tail))]
  BY DEF OpenCursors, Pool, CursorLen
<1>3. \/ pr'.pc = "dead" /\ pr'.next = 0 /\ pr'.k = 0 /\ Inconsistent
         /\ pr'.inc = pr.inc /\ pr'.id = pr.id
      \/ /\ pr'.pc = "infer" /\ pr'.idx = tail % Cap /\ pr'.k = 0 /\ pr'.next = pr.next
         /\ pr'.bias = Beyond(Pool, Beyond(head, tail))
         /\ pr'.inc = pr.inc /\ pr'.id = pr.id
  <2>1. CASE pr' = [Producer EXCEPT !.pc = "dead", !.inc = pr.inc, !.id = pr.id] /\ Inconsistent
    BY <2>1 DEF Producer
  <2>2. CASE pr' = [pr EXCEPT !.pc = "infer", !.idx = tail % Cap, !.k = 0,
                             !.bias = Beyond(Pool, Beyond(head, tail))]
    BY <2>2, PrTyped DEF ProducerSet
  <2> QED BY <1>2, <2>1, <2>2
<1>4. met \subseteq met'
  BY DEF OpenCursors
<1>5. ASSUME Drained PROVE "drained" \in met'
  BY <1>5 DEF OpenCursors, Drained
<1>6. ASSUME tail > head PROVE "tailAhead" \in met'
  BY <1>6 DEF OpenCursors
<1> QED BY <1>1, <1>3, <1>4, <1>5, <1>6 DEF OpenCursors

LEMMA InferEffect ==
  ASSUME Typed, OpenInfer
  PROVE  /\ pr.pc = "infer"
         /\ IF slots[pr.idx].state # "FREE" /\ pr.k < Cap
              THEN pr'.pc = "infer" /\ pr'.idx = Next1(pr.idx) /\ pr'.k = pr.k + 1
              ELSE pr'.pc = "idle" /\ pr'.idx = pr.idx
         /\ pr'.inc = pr.inc /\ pr'.id = pr.id /\ pr'.next = pr.next /\ pr'.bias = pr.bias
         /\ UNCHANGED <<scenario, head, tail, slots, cons, sent, got, met>>
BY PrTyped DEF OpenInfer, Taken, At, ProducerSet

\* What one-slot messages and a consumer that reads at the tail have in common.
Reading == {"gate", "verify", "free", "second", "copy", "pin", "release", "advance"}
Single ==
  /\ pr.pc \in Writing => pr.need = 1 /\ pr.done = 0
  /\ pr.pc = "publish" => pr.need = 1
  /\ pr.pc \in {"dead", "reclaim"} => pr.next = 0
  /\ pr.pc = "dead" => pr.k = 0
  /\ \A i \in Index : slots[i].frame.part = 0 /\ slots[i].frame.total <= 1
  /\ cons.frame.part = 0 /\ cons.frame.total <= 1 /\ cons.first.total <= 1
  /\ cons.part = 0
  /\ cons.pc \in Reading => cons.t = tail
  /\ cons.pc = "second" => cons.resync
  /\ cons.pc \in {"dead", "reclaim"} => ~cons.readable

LEMMA CommitEffect ==
  ASSUME Typed, Single, CommitSlot
  PROVE  /\ pr.pc = "commit" /\ pr'.pc = "publish" /\ Lot(Committed)
         /\ HandleKept /\ pr'.idx = Next1(pr.idx) /\ pr'.next = pr.next /\ pr'.done = 1
         /\ sent' = Append(sent, pr.id)
         /\ UNCHANGED <<scenario, head, tail, cons, got, met>>
<1>1. pr.pc = "commit" /\ pr.need = 1 /\ pr.done = 0
  BY DEF CommitSlot, At, Single, Writing
<1>2. pr.done + 1 >= pr.need /\ pr.done + 1 = 1
  BY <1>1
<1>3. pr' = [pr EXCEPT !.idx = Next1(pr.idx), !.done = 1, !.pc = "publish"]
  BY <1>2 DEF CommitSlot
<1>4. /\ pr'.pc = "publish" /\ HandleKept /\ pr'.idx = Next1(pr.idx) /\ pr'.next = pr.next
      /\ pr'.done = 1
  BY <1>3, PrTyped DEF ProducerSet, HandleKept
<1> QED BY <1>1, <1>2, <1>4 DEF CommitSlot, WriteHeader, Lot, Committed

-----------------------------------------------------------------------------

LEMMA ConsTyped ==
  ASSUME Typed
  PROVE  /\ cons \in ConsumerSet /\ cons.t \in Nat /\ cons.expected \in Nat /\ cons.seq \in Nat
         /\ cons.frame \in FrameSet /\ cons.first \in FrameSet /\ cons.k \in 0 .. Cap - 1
         /\ cons.freed \in 0 .. Cap /\ cons.inc \in Nat
         /\ TailIdx \in 0 .. Cap - 1 /\ tail % Cap \in 0 .. Cap - 1
         /\ head \in Nat /\ tail \in Nat /\ Cap \in Nat \ {0}
BY TailIdxIn, CapAssumption DEF Typed, ConsumerSet, Index, Upto

\* A call that returns, and what a step of a call leaves.
Ended(e, r) ==
  /\ cons'.pc = "idle" /\ cons'.expected = e /\ cons'.resync = r
  /\ cons'.part = 0 /\ cons'.frame = Cleared /\ cons'.first = Cleared
CallKept ==
  /\ cons'.t = cons.t /\ cons'.took = cons.took /\ cons'.expected = cons.expected
  /\ cons'.part = cons.part /\ cons'.first = cons.first

LEMMA EndsEffect ==
  ASSUME NEW c, RecvEnds(c)
  PROVE  Ended(c.expected, c.resync)
BY DEF RecvEnds, Consumer, Ended

LEMMA RecvBeginEffect ==
  ASSUME Base, RecvBegin
  PROVE  /\ cons.pc = "idle" /\ cons'.pc = "gate" /\ pr.pc \notin Opening
         /\ cons'.t = tail /\ cons'.took = cons.resync /\ cons'.expected = cons.expected
         /\ cons'.part = cons.part /\ cons'.frame = cons.frame /\ cons'.first = cons.first
         /\ UNCHANGED <<scenario, head, tail, slots, pr, sent, got, met>>
BY ConsTyped DEF Base, SingleSlot, RecvBegin, ConsAt, ConsumerSet

LEMMA GateEffect ==
  ASSUME Typed, Single, Gate
  PROVE  /\ cons.pc = "gate"
         /\ \/ /\ slots[TailIdx].state = "COMMITTED" /\ cons'.pc = "copy"
               /\ cons'.seq = slots[TailIdx].seq /\ CallKept /\ cons'.frame = cons.frame
            \/ /\ slots[TailIdx].state # "COMMITTED" /\ cons'.pc = "verify"
               /\ cons'.k = TailIdx /\ cons'.freed = cons.freed /\ CallKept
               /\ cons'.frame = cons.frame
            \/ /\ slots[TailIdx].state # "COMMITTED" /\ Ended(cons.expected, cons.took)
         /\ UNCHANGED <<scenario, head, tail, slots, pr, sent, got, met>>
<1> DEFINE c == [cons EXCEPT !.resync = cons.took]
<1>1. cons \in ConsumerSet
  BY ConsTyped
<1>2. c.expected = cons.expected /\ c.resync = cons.took
  BY <1>1 DEF ConsumerSet
<1>3. cons.part = 0 /\ ~(cons.part > 0)
  BY DEF Single
<1> HIDE DEF c
<1>4. \/ slots[TailIdx].state = "COMMITTED" /\ cons' = [cons EXCEPT !.pc = "copy", !.seq = slots[TailIdx].seq]
      \/ slots[TailIdx].state # "COMMITTED" /\ cons' = [cons EXCEPT !.pc = "verify", !.k = TailIdx]
      \/ slots[TailIdx].state # "COMMITTED" /\ RecvEnds(c)
  BY <1>3 DEF Gate, c
<1>5. CASE cons' = [cons EXCEPT !.pc = "copy", !.seq = slots[TailIdx].seq]
  <2>1. cons'.pc = "copy" /\ cons'.seq = slots[TailIdx].seq /\ CallKept /\ cons'.frame = cons.frame
    BY <1>1, <1>5 DEF ConsumerSet, CallKept
  <2>2. cons'.pc # "verify" /\ ~RecvEnds(c)
    BY <2>1, EndsEffect DEF Ended
  <2>3. slots[TailIdx].state = "COMMITTED"
    <3>1. cons' # [cons EXCEPT !.pc = "verify", !.k = TailIdx]
      BY <1>1, <2>2 DEF ConsumerSet
    <3> QED BY <1>4, <2>2, <3>1
  <2> QED BY <2>1, <2>3 DEF Gate, ConsAt
<1>6. CASE slots[TailIdx].state # "COMMITTED" /\ cons' = [cons EXCEPT !.pc = "verify", !.k = TailIdx]
  <2>1. /\ cons'.pc = "verify" /\ cons'.k = TailIdx /\ CallKept /\ cons'.frame = cons.frame
        /\ cons'.freed = cons.freed
    BY <1>1, <1>6 DEF ConsumerSet, CallKept
  <2> QED BY <1>6, <2>1 DEF Gate, ConsAt
<1>7. CASE slots[TailIdx].state # "COMMITTED" /\ RecvEnds(c)
  BY <1>2, <1>7, EndsEffect DEF Gate, ConsAt
<1> QED BY <1>4, <1>5, <1>6, <1>7

LEMMA VerifyEffect ==
  ASSUME Typed, Verify
  PROVE  /\ cons.pc = "verify"
         /\ \/ /\ DeadWriting(cons.k) /\ cons'.pc = "free" /\ cons'.k = cons.k /\ CallKept
               /\ cons'.frame = cons.frame
            \/ Ended(cons.expected, cons.took)
            \/ /\ cons.freed # 0 /\ cons'.pc = "second" /\ cons'.resync = TRUE /\ CallKept
               /\ cons'.frame = cons.frame
         /\ UNCHANGED <<scenario, head, tail, slots, pr, sent, got, met>>
<1> DEFINE c == [cons EXCEPT !.resync = cons.took]
<1>1. cons \in ConsumerSet
  BY ConsTyped
<1>2. c.expected = cons.expected /\ c.resync = cons.took
  BY <1>1 DEF ConsumerSet
<1> HIDE DEF c
<1>3. \/ DeadWriting(cons.k) /\ cons' = [cons EXCEPT !.pc = "free"]
      \/ RecvEnds(c)
      \/ cons.freed # 0 /\ cons' = [cons EXCEPT !.pc = "second", !.resync = TRUE]
  BY DEF Verify, c
<1>4. CASE DeadWriting(cons.k) /\ cons' = [cons EXCEPT !.pc = "free"]
  BY <1>1, <1>4 DEF ConsumerSet, CallKept, Verify, ConsAt
<1>5. CASE RecvEnds(c)
  BY <1>2, <1>5, EndsEffect DEF Verify, ConsAt
<1>6. CASE cons.freed # 0 /\ cons' = [cons EXCEPT !.pc = "second", !.resync = TRUE]
  BY <1>1, <1>6 DEF ConsumerSet, CallKept, Verify, ConsAt
<1> QED BY <1>3, <1>4, <1>5, <1>6

LEMMA FreeDeadEffect ==
  ASSUME Typed, FreeDead
  PROVE  /\ cons.pc = "free" /\ cons'.pc = "verify" /\ CallKept /\ cons'.frame = cons.frame
         /\ slots' = [slots EXCEPT ![cons.k] = FreeSlot]
         /\ UNCHANGED <<scenario, head, tail, pr, sent, got, met>>
BY ConsTyped DEF FreeDead, ConsAt, ConsumerSet, CallKept, ReleaseHeader

LEMMA SecondEffect ==
  ASSUME Typed, SecondLook
  PROVE  /\ cons.pc = "second"
         /\ \/ /\ slots[TailIdx].state = "COMMITTED" /\ cons'.pc = "copy"
               /\ cons'.seq = slots[TailIdx].seq /\ CallKept /\ cons'.frame = cons.frame
            \/ Ended(cons.expected, cons.resync)
         /\ UNCHANGED <<scenario, head, tail, slots, pr, sent, got, met>>
<1>1. cons \in ConsumerSet
  BY ConsTyped
<1>2. \/ slots[TailIdx].state = "COMMITTED" /\ cons' = [cons EXCEPT !.pc = "copy", !.seq = slots[TailIdx].seq]
      \/ RecvEnds(cons)
  BY DEF SecondLook
<1>3. CASE slots[TailIdx].state = "COMMITTED" /\ cons' = [cons EXCEPT !.pc = "copy", !.seq = slots[TailIdx].seq]
  BY <1>1, <1>3 DEF ConsumerSet, CallKept, SecondLook, ConsAt
<1>4. CASE RecvEnds(cons)
  BY <1>4, EndsEffect DEF SecondLook, ConsAt
<1> QED BY <1>2, <1>3, <1>4

LEMMA CopyEffect ==
  ASSUME Typed, CopyPayload
  PROVE  /\ cons.pc = "copy" /\ cons'.pc = "pin" /\ CallKept /\ cons'.seq = cons.seq
         /\ cons'.frame = slots[TailIdx].frame
         /\ UNCHANGED <<scenario, head, tail, slots, pr, sent, got, met>>
BY ConsTyped DEF CopyPayload, ConsAt, ConsumerSet, CallKept

Pinned == [state |-> "PINNED", seq |-> cons.seq, owner |-> 0, frame |-> slots[TailIdx].frame]

LEMMA PinEffect ==
  ASSUME Typed, Single, PinSlot
  PROVE  /\ cons.pc = "pin" /\ slots' = [slots EXCEPT ![TailIdx] = Pinned]
         /\ \/ Rejected /\ Ended(cons.expected, cons.resync)
            \/ /\ ~Rejected /\ cons'.pc = "release" /\ cons'.t = cons.t /\ cons'.part = 0
               /\ cons'.first = cons.frame /\ cons'.frame = cons.frame
               /\ cons'.expected = cons.seq
         /\ UNCHANGED <<scenario, head, tail, pr, sent, got, met>>
<1>1. cons \in ConsumerSet /\ cons.part = 0
  BY ConsTyped DEF Single
<1>2. CASE Rejected
  <2>1. RecvEnds(cons)
    BY <1>2 DEF PinSlot
  <2> QED BY <1>2, <2>1, EndsEffect DEF PinSlot, ConsAt, WriteHeader, Pinned
<1>3. CASE ~Rejected
  <2>1. cons' = [cons EXCEPT !.pc = "release", !.first = cons.frame, !.expected = cons.seq]
    BY <1>1, <1>3 DEF PinSlot
  <2>2. /\ cons'.pc = "release" /\ cons'.t = cons.t /\ cons'.part = 0
        /\ cons'.first = cons.frame /\ cons'.frame = cons.frame /\ cons'.expected = cons.seq
    BY <1>1, <2>1 DEF ConsumerSet
  <2> QED BY <1>3, <2>2 DEF PinSlot, ConsAt, WriteHeader, Pinned
<1> QED BY <1>2, <1>3

LEMMA FreeTailEffect ==
  ASSUME Typed, Single, FreeTail
  PROVE  /\ cons.pc = "release" /\ cons'.pc = "advance" /\ CallKept /\ cons'.frame = cons.frame
         /\ slots' = [slots EXCEPT ![TailIdx] = FreeSlot]
         /\ UNCHANGED <<scenario, head, tail, pr, sent, got, met>>
<1>1. cons \in ConsumerSet /\ cons.part = 0 /\ cons.frame.part = 0
  BY ConsTyped DEF Single
<1>2. ~WrongPart
  BY <1>1 DEF WrongPart
<1>3. cons' = [cons EXCEPT !.pc = "advance"]
  BY <1>2 DEF FreeTail
<1>4. cons'.pc = "advance" /\ CallKept /\ cons'.frame = cons.frame
  BY <1>1, <1>3 DEF ConsumerSet, CallKept
<1> QED BY <1>4 DEF FreeTail, ConsAt, ReleaseHeader

LEMMA AdvanceEffect ==
  ASSUME Typed, Single, AdvanceTail
  PROVE  /\ cons.pc = "advance" /\ tail' = cons.t + 1 /\ Ended(cons.expected + 1, cons.resync)
         /\ got' = got \/ got' = Append(got, cons.first.id)
         /\ UNCHANGED <<scenario, head, slots, pr, sent, met>>
<1> DEFINE c == [cons EXCEPT !.expected = cons.expected + 1]
<1>1. cons \in ConsumerSet /\ cons.part = 0 /\ cons.first.total <= 1 /\ cons.first.total \in Nat
  <2>1. cons.first \in FrameSet
    BY ConsTyped
  <2>2. cons.first.total \in 0 .. Cap /\ Cap \in Nat
    BY <2>1, CapAssumption DEF FrameSet
  <2> QED BY <2>2, ConsTyped DEF Single
<1>2. c.expected = cons.expected + 1 /\ c.resync = cons.resync
  BY <1>1 DEF ConsumerSet
<1> HIDE DEF c
<1>3. cons.part + 1 >= cons.first.total
  BY <1>1
<1>4. RecvEnds(c) /\ (got' = got \/ got' = Append(got, cons.first.id))
  BY <1>3 DEF AdvanceTail, c
<1> QED BY <1>2, <1>4, EndsEffect DEF AdvanceTail, ConsAt

LEMMA ConsOpenEffect ==
  ASSUME Base, ConsOpen
  PROVE  /\ cons.pc = "dead" /\ cons'.pc = "reclaim" /\ pr.pc \notin Opening /\ CallKept
         /\ cons'.frame = cons.frame /\ cons'.readable = cons.readable
         /\ UNCHANGED <<scenario, head, tail, slots, pr, sent, got, met>>
BY ConsTyped DEF Base, SingleSlot, ConsOpen, ConsAt, ConsumerSet, CallKept

LEMMA ConsReclaimEffect ==
  ASSUME Typed, ConsOpenReclaim
  PROVE  /\ cons.pc = "reclaim" /\ cons'.pc \in {"reclaim", "scan"} /\ CallKept
         /\ cons'.frame = cons.frame /\ cons'.readable = cons.readable
         /\ IF DeadWriting(cons.k) THEN slots' = [slots EXCEPT ![cons.k] = FreeSlot]
                                   ELSE slots' = slots
         /\ UNCHANGED <<scenario, head, tail, pr, sent, got, met>>
BY ConsTyped DEF ConsOpenReclaim, ConsAt, ConsumerSet, CallKept, ReleaseHeader

LEMMA ConsScanEffect ==
  ASSUME Typed, ConsOpenScan
  PROVE  /\ cons.pc = "scan" /\ cons'.pc \in {"scan", "expect"} /\ CallKept
         /\ cons'.frame = cons.frame
         /\ cons'.readable = (cons.readable \/ slots[cons.k].state \in {"COMMITTED", "PINNED"})
         /\ UNCHANGED <<scenario, head, tail, slots, pr, sent, got, met>>
BY ConsTyped DEF ConsOpenScan, ConsAt, ConsumerSet, CallKept

\* The successor's open ends with InvalidConfig.
Refused ==
  /\ cons'.pc = "dead" /\ cons'.part = 0 /\ cons'.frame = Cleared /\ cons'.first = Cleared
  /\ cons'.readable = FALSE

LEMMA ConsExpectEffect ==
  ASSUME Typed, ConsOpenExpect
  PROVE  /\ cons.pc = "expect"
         /\ \/ Refused
            \/ cons.readable /\ Ended(slots[tail % Cap].seq, cons.resync)
            \/ Ended(cons.expected, TRUE)
         /\ UNCHANGED <<scenario, head, tail, slots, pr, sent, got, met>>
<1>1. cons \in ConsumerSet
  BY ConsTyped
<1> DEFINE c == IF cons.readable THEN [cons EXCEPT !.expected = slots[tail % Cap].seq]
                                 ELSE [cons EXCEPT !.resync = TRUE]
<1>2. IF cons.readable THEN c.expected = slots[tail % Cap].seq /\ c.resync = cons.resync
                       ELSE c.expected = cons.expected /\ c.resync = TRUE
  BY <1>1 DEF ConsumerSet
<1>3. Refused \/ RecvEnds(c)
  BY DEF ConsOpenExpect, Refused, Consumer
<1> HIDE DEF c
<1> QED BY <1>2, <1>3, EndsEffect DEF ConsOpenExpect, ConsAt

LEMMA StaleEffect ==
  ASSUME Typed, ReclaimStale
  PROVE  /\ cons.pc = "idle" /\ pr.pc \notin Opening /\ cons'.pc = "idle" /\ cons'.resync = TRUE
         /\ CallKept /\ cons'.frame = cons.frame
         /\ \E stale \in SUBSET (0 .. Cap - 1) :
              /\ \A i \in stale : DeadWriting(i)
              /\ stale # {}
              /\ slots' = [i \in 0 .. Cap - 1 |-> IF i \in stale THEN FreeSlot ELSE slots[i]]
         /\ UNCHANGED <<scenario, head, tail, pr, sent, got, met>>
<1>1. cons \in ConsumerSet
  BY ConsTyped
<1> DEFINE stale == {i \in 0 .. Cap - 1 : ~Covered(i) /\ DeadWriting(i)}
<1>2. /\ stale \in SUBSET (0 .. Cap - 1) /\ \A i \in stale : DeadWriting(i)
      /\ stale # {}
      /\ slots' = [i \in 0 .. Cap - 1 |-> IF i \in stale THEN FreeSlot ELSE slots[i]]
  BY DEF ReclaimStale
<1>3. /\ cons'.pc = cons.pc /\ cons'.resync = TRUE /\ CallKept /\ cons'.frame = cons.frame
  BY <1>1 DEF ReclaimStale, ConsumerSet, CallKept
<1> HIDE DEF stale
<1> QED BY <1>2, <1>3 DEF ReclaimStale, ConsAt

LEMMA ConsDieEffect ==
  ASSUME Base, ConsDie
  PROVE  /\ cons.pc \notin {"release", "advance"} /\ cons'.pc = "dead" /\ cons'.part = 0
         /\ cons'.frame = Cleared /\ cons'.first = Cleared /\ cons'.readable = FALSE
         /\ UNCHANGED <<scenario, head, tail, slots, pr, sent, got, met>>
BY DEF Base, SingleSlot, ConsDie, Consumer

-----------------------------------------------------------------------------
(* Who is named in a WRITING slot                                          *)

Named(i) == slots[i].state = "WRITING" /\ slots[i].owner # 0

\* A slot that names its writer is the live writer's own, or is left by a gone
\* one until somebody reclaims it: an opening reclaims all there are.
Names ==
  /\ \A i \in Index : slots[i].owner <= pr.inc
  /\ pr.pc = "reclaim" => \A i \in Index : slots[i].owner < pr.inc /\ (i < pr.k => ~Named(i))
  /\ pr.pc \in {"idle", "claim", "mark", "stamp", "publish", "scan", "cursors", "infer"} =>
       \A i \in Index : ~Named(i)
  /\ pr.pc \in {"fill", "commit"} => \A i \in Index : Named(i) => i = pr.idx

LEMMA NamesKept ==
  ASSUME Typed, Names, UNCHANGED pr,
         \A i \in Index : slots'[i] = slots[i] \/ slots'[i].owner = 0
  PROVE  Names'
<1>1. \A i \in Index : Named(i)' => Named(i)
  BY DEF Named
<1>2. pr.inc \in Nat /\ \A i \in Index : slots[i].owner \in Nat
  BY PrTyped DEF SlotSet, Index
<1>3. \A i \in Index : slots'[i].owner <= pr.inc
  BY <1>2 DEF Names
<1>4. ASSUME pr.pc = "reclaim" PROVE \A i \in Index : slots'[i].owner < pr.inc
  <2>1. SUFFICES ASSUME NEW i \in Index PROVE slots'[i].owner < pr.inc
    OBVIOUS
  <2>2. slots[i].owner < pr.inc /\ slots[i].owner \in Nat
    BY <1>2, <1>4 DEF Names
  <2>3. 0 < pr.inc
    BY <1>2, <2>2
  <2> QED BY <2>2, <2>3
<1> QED BY <1>1, <1>3, <1>4 DEF Names

LEMMA NamesConsumer ==
  ASSUME Base, Single, Names, ConsumerStep \/ ReclaimStale \/ ConsDie
  PROVE  Names'
<1>f. Typed /\ slots \in [0 .. Cap - 1 -> SlotSet] /\ Index = 0 .. Cap - 1
  BY PrTyped DEF Base, Index
<1>1. UNCHANGED pr
  BY DEF ConsumerStep, ReclaimStale, ConsDie, RecvBegin, Gate, Verify, FreeDead, SecondLook,
         CopyPayload, PinSlot, FreeTail, AdvanceTail, ConsOpen, ConsOpenReclaim, ConsOpenScan,
         ConsOpenExpect
<1>2. ASSUME NEW j, NEW x, x.owner = 0, slots' = [slots EXCEPT ![j] = x]
      PROVE  \A i \in Index : slots'[i] = slots[i] \/ slots'[i].owner = 0
  BY <1>f, <1>2
<1>3. FreeSlot.owner = 0 /\ Pinned.owner = 0
  BY DEF FreeSlot, Pinned
<1>4. \A i \in Index : slots'[i] = slots[i] \/ slots'[i].owner = 0
  <2>1. CASE FreeDead
    BY <1>2, <1>3, <1>f, <2>1, FreeDeadEffect
  <2>2. CASE PinSlot
    BY <1>2, <1>3, <1>f, <2>2, PinEffect
  <2>3. CASE FreeTail
    BY <1>2, <1>3, <1>f, <2>3, FreeTailEffect
  <2>4. CASE ConsOpenReclaim
    BY <1>2, <1>3, <1>f, <2>4, ConsReclaimEffect
  <2>5. CASE ReclaimStale
    BY <1>3, <1>f, <2>5, StaleEffect
  <2>6. CASE RecvBegin \/ Gate \/ Verify \/ SecondLook \/ CopyPayload \/ AdvanceTail
             \/ ConsOpen \/ ConsOpenScan \/ ConsOpenExpect \/ ConsDie
    BY <2>6 DEF RecvBegin, Gate, Verify, SecondLook, CopyPayload, AdvanceTail, ConsOpen,
                ConsOpenScan, ConsOpenExpect, ConsDie
  <2> QED BY <2>1, <2>2, <2>3, <2>4, <2>5, <2>6 DEF ConsumerStep
<1> QED BY <1>1, <1>4, <1>f, NamesKept

LEMMA NamesProducer ==
  ASSUME Base, Single, Names,
         \/ \E n \in scenario.sizes : SendBegin(n)
         \/ ProducerStep \/ Die \/ Open
  PROVE  Names'
<1>f. /\ Typed /\ slots \in [0 .. Cap - 1 -> SlotSet] /\ Index = 0 .. Cap - 1
      /\ pr.idx \in Index /\ pr.inc \in Nat /\ WriterInv
      /\ \A i \in Index : slots[i].owner \in Nat /\ slots[i].owner <= pr.inc
  BY PrTyped DEF Base, Index, SlotSet, Names
\* Nothing is written.
<1>k. ASSUME UNCHANGED slots, pr'.inc = pr.inc,
             \/ pr'.pc = "dead"
             \/ /\ pr.pc \in {"idle", "claim", "mark", "publish", "scan", "cursors", "infer"}
                /\ pr'.pc \in {"idle", "claim", "mark", "publish", "scan", "cursors", "infer"}
      PROVE  Names'
  BY <1>k DEF Names, Named
\* The producer's own slot is written.
<1>w. ASSUME NEW x, Lot(x), pr'.inc = pr.inc, x.owner \in {0, pr.inc},
             \/ pr'.pc \in {"fill", "commit"} /\ pr'.idx = pr.idx /\ pr.pc \in {"stamp", "fill", "commit"}
             \/ pr'.pc \in {"stamp", "publish"} /\ x.owner = 0 /\ pr.pc \in {"mark", "commit"}
      PROVE  Names'
  <2>1. slots'[pr.idx] = x /\ \A i \in Index : i # pr.idx => slots'[i] = slots[i]
    BY <1>f, <1>w DEF Lot
  <2>2. \A i \in Index : slots'[i].owner <= pr'.inc
    BY <1>f, <1>w, <2>1
  <2>3. \A i \in Index : i # pr.idx => ~Named(i)
    BY <1>w DEF Names
  <2>4. \A i \in Index : i # pr.idx => ~Named(i)'
    BY <2>1, <2>3 DEF Named
  <2>5. x.owner = 0 => \A i \in Index : i = pr.idx => ~Named(i)'
    BY <2>1 DEF Named
  <2>6. x.owner = 0 => \A i \in Index : ~Named(i)'
    BY <2>4, <2>5
  <2>7. pr'.idx = pr.idx => \A i \in Index : Named(i)' => i = pr'.idx
    BY <2>4
  <2>8. /\ pr'.pc # "reclaim"
        /\ pr'.pc \in {"idle", "claim", "mark", "stamp", "publish", "scan", "cursors", "infer"} => x.owner = 0
        /\ pr'.pc \in {"fill", "commit"} => pr'.idx = pr.idx
    BY <1>w
  <2> QED BY <2>2, <2>6, <2>7, <2>8 DEF Names
<1>1. ASSUME NEW n \in scenario.sizes, SendBegin(n) PROVE Names'
  BY <1>1, <1>k, SendBeginEffect
<1>2. CASE ClaimSlot
  BY <1>2, <1>f, <1>k, ClaimEffect DEF HandleKept
<1>3. CASE MarkSlot
  BY <1>3, <1>f, <1>w, MarkEffect DEF HandleKept, Marked
<1>4. CASE StampSlot
  BY <1>4, <1>f, <1>w, StampEffect DEF HandleKept
<1>5. CASE FillSlot
  <2>1. pr.pc = "fill" => slots[pr.idx].owner = pr.inc
    BY <1>f DEF WriterInv
  <2> QED BY <1>5, <1>f, <1>w, <2>1, FillEffect DEF HandleKept
<1>6. CASE CommitSlot
  BY <1>6, <1>f, <1>w, CommitEffect DEF HandleKept, Committed
<1>7. CASE PublishHead
  BY <1>7, <1>f, <1>k, PublishEffect DEF HandleKept
<1>8. CASE Die
  BY <1>8, <1>f, <1>k, DieEffect
<1>9. CASE Open
  <2>1. pr.pc = "dead" /\ pr'.pc = "reclaim" /\ pr'.inc = pr.inc + 1 /\ pr'.k = pr.k
        /\ slots' = slots /\ pr.k = 0
    BY <1>9, <1>f, OpenEffect DEF Single
  <2>2. \A i \in Index : slots'[i].owner < pr'.inc /\ slots'[i].owner <= pr'.inc
    BY <1>f, <2>1
  <2>3. \A i \in Index : ~(i < pr'.k)
    BY <1>f, <2>1
  <2> QED BY <2>1, <2>2, <2>3 DEF Names
<1>10. CASE OpenReclaim
  <2>1. /\ pr.pc = "reclaim" /\ pr.k \in 0 .. Cap - 1 /\ pr'.inc = pr.inc
        /\ IF pr.k + 1 < Cap THEN pr'.pc = "reclaim" /\ pr'.k = pr.k + 1
                             ELSE pr'.pc = "scan" /\ pr'.k = 0
        /\ IF DeadWriting(pr.k) THEN slots' = [slots EXCEPT ![pr.k] = FreeSlot]
                                ELSE slots' = slots
    BY <1>10, <1>f, ReclaimEffect
  <2>2. \A i \in Index : slots[i].owner < pr.inc /\ (i < pr.k => ~Named(i))
    BY <2>1 DEF Names
  <2>3. FreeSlot.owner = 0
    BY DEF FreeSlot
  <2>4. Named(pr.k) => DeadWriting(pr.k)
    <3>1. slots[pr.k].owner # pr.inc
      BY <1>f, <2>1, <2>2
    <3> QED BY <3>1 DEF Named, DeadWriting, Gone
  <2>5. /\ \A i \in Index : i = pr.k => ~Named(i)'
        /\ \A i \in Index : i # pr.k => slots'[i] = slots[i]
    BY <1>f, <2>1, <2>3, <2>4 DEF Named
  <2>6. \A i \in Index : slots'[i].owner < pr.inc
    <3>1. SUFFICES ASSUME NEW i \in Index PROVE slots'[i].owner < pr.inc
      OBVIOUS
    <3>2. slots[i].owner < pr.inc /\ slots[i].owner \in Nat
      BY <1>f, <2>2
    <3>3. slots'[i] = slots[i] \/ slots'[i].owner = 0
      BY <1>f, <2>1, <2>3
    <3> QED BY <1>f, <3>2, <3>3
  <2>7. \A i \in Index : i < pr.k + 1 => ~Named(i)'
    <3>1. SUFFICES ASSUME NEW i \in Index, i < pr.k + 1 PROVE ~Named(i)'
      OBVIOUS
    <3>2. i = pr.k \/ (i < pr.k /\ i # pr.k)
      BY <1>f, <2>1, <3>1
    <3> QED BY <2>2, <2>5, <3>2 DEF Named
  <2>8. \A i \in Index : slots'[i].owner <= pr.inc
    <3>1. \A i \in Index : slots'[i] = slots[i] \/ slots'[i].owner = 0
      BY <1>f, <2>1, <2>3
    <3> QED BY <1>f, <2>1, <3>1
  <2>9. CASE pr.k + 1 < Cap
    BY <2>1, <2>6, <2>7, <2>8, <2>9 DEF Names
  <2>10. CASE ~(pr.k + 1 < Cap)
    <3>1. \A i \in Index : i < pr.k + 1
      <4>1. PICK n \in 0 .. Cap - 1 : n = pr.k
        BY <2>1
      <4>2. n + 1 >= Cap
        BY <2>10, <4>1, CapAssumption
      <4> QED BY <1>f, <4>1, <4>2, CapAssumption
    <3> QED BY <2>1, <2>7, <2>8, <2>10, <3>1 DEF Names
  <2> QED BY <2>9, <2>10
<1>11. CASE OpenScan
  BY <1>11, <1>f, <1>k, ScanEffect
<1>12. CASE OpenCursors
  BY <1>12, <1>f, <1>k, CursorsEffect
<1>13. CASE OpenInfer
  BY <1>13, <1>f, <1>k, InferEffect
<1> QED
  BY <1>1, <1>2, <1>3, <1>4, <1>5, <1>6, <1>7, <1>8, <1>9, <1>10, <1>11, <1>12, <1>13
  DEF ProducerStep

-----------------------------------------------------------------------------
(* One slot a message                                                      *)

LEMMA ClearedFields == Cleared.part = 0 /\ Cleared.total = 0 /\ Cleared.id = 0 /\ Cleared.seq = 0
BY DEF Cleared

LEMMA SingleConsumer ==
  ASSUME Base, Single, ConsumerStep \/ ReclaimStale \/ ConsDie
  PROVE  Single'
<1>f. /\ Typed /\ slots \in [0 .. Cap - 1 -> SlotSet] /\ Index = 0 .. Cap - 1
      /\ TailIdx \in Index /\ cons.k \in Index
  BY PrTyped, ConsTyped DEF Base, Index
\* The slots keep one-slot frames.
<1>o. ASSUME UNCHANGED pr, \A i \in Index : slots'[i] = slots[i] \/ slots'[i].frame = Cleared
                                         \/ slots'[i].frame = slots[i].frame
      PROVE  /\ pr'.pc \in Writing => pr'.need = 1 /\ pr'.done = 0
             /\ pr'.pc = "publish" => pr'.need = 1
             /\ pr'.pc \in {"dead", "reclaim"} => pr'.next = 0
             /\ pr'.pc = "dead" => pr'.k = 0
             /\ \A i \in Index : slots'[i].frame.part = 0 /\ slots'[i].frame.total <= 1
  <2>1. \A i \in Index : Cleared.part = 0 /\ Cleared.total <= 1
    BY ClearedFields
  <2> QED BY <1>o, <2>1 DEF Single
<1>p. UNCHANGED pr
  BY DEF ConsumerStep, ReclaimStale, ConsDie, RecvBegin, Gate, Verify, FreeDead, SecondLook,
         CopyPayload, PinSlot, FreeTail, AdvanceTail, ConsOpen, ConsOpenReclaim, ConsOpenScan,
         ConsOpenExpect
<1>x. ASSUME NEW j, NEW x, x.frame \in {Cleared, slots[j].frame}, slots' = [slots EXCEPT ![j] = x]
      PROVE  \A i \in Index : slots'[i] = slots[i] \/ slots'[i].frame = Cleared
                             \/ slots'[i].frame = slots[i].frame
  BY <1>f, <1>x
<1>y. FreeSlot.frame = Cleared /\ Pinned.frame = slots[TailIdx].frame
  BY DEF FreeSlot, Pinned
\* The call goes on, or ends.
<1>c. ASSUME CallKept, cons'.frame = cons.frame \/ cons'.frame = slots[TailIdx].frame, tail' = tail,
             cons.pc \in Reading \/ cons'.pc \notin Reading
      PROVE  /\ cons'.frame.part = 0 /\ cons'.frame.total <= 1 /\ cons'.first.total <= 1
             /\ cons'.part = 0 /\ (cons'.pc \in Reading => cons'.t = tail')
  BY <1>c, <1>f DEF Single, CallKept
<1>e. ASSUME NEW e, NEW r, Ended(e, r)
      PROVE  /\ cons'.frame.part = 0 /\ cons'.frame.total <= 1 /\ cons'.first.total <= 1
             /\ cons'.part = 0 /\ cons'.pc = "idle"
  <2>1. Cleared.total <= 1
    BY ClearedFields
  <2> QED BY <1>e, <2>1, ClearedFields DEF Ended
<1>s. ASSUME \A i \in Index : slots'[i] = slots[i] \/ slots'[i].frame = Cleared
                              \/ slots'[i].frame = slots[i].frame,
             cons'.frame.part = 0, cons'.frame.total <= 1, cons'.first.total <= 1, cons'.part = 0,
             cons'.pc \in Reading => cons'.t = tail', cons'.pc = "second" => cons'.resync,
             cons'.pc \in {"dead", "reclaim"} => ~cons'.readable
      PROVE  Single'
  BY <1>o, <1>p, <1>s DEF Single
<1>u. ASSUME UNCHANGED slots
      PROVE  \A i \in Index : slots'[i] = slots[i] \/ slots'[i].frame = Cleared
                             \/ slots'[i].frame = slots[i].frame
  BY <1>u
<1>z. /\ {"idle", "dead", "reclaim", "scan", "expect"} \cap Reading = {}
      /\ {"gate", "verify", "free", "second", "copy", "pin", "release", "advance"} = Reading
  BY DEF Reading
<1>1. CASE RecvBegin
  BY <1>1, <1>f, <1>s, <1>u, RecvBeginEffect DEF Single
<1>2. CASE Gate
  <2>1. UNCHANGED slots /\ cons'.pc \notin {"second", "dead", "reclaim"}
    BY <1>2, <1>f, GateEffect DEF Ended
  <2>2. CASE \E e, r : Ended(e, r)
    BY <1>e, <1>s, <1>u, <1>z, <2>1, <2>2
  <2>3. CASE ~\E e, r : Ended(e, r)
    <3>1. CallKept /\ cons'.frame = cons.frame /\ tail' = tail /\ cons.pc \in Reading
      BY <1>2, <1>f, <1>z, <2>3, GateEffect
    <3> QED BY <1>c, <1>s, <1>u, <2>1, <3>1
  <2> QED BY <2>2, <2>3
<1>3. CASE Verify
  <2>1. UNCHANGED slots /\ cons'.pc \notin {"dead", "reclaim"} /\ (cons'.pc = "second" => cons'.resync)
    BY <1>3, <1>f, VerifyEffect DEF Ended
  <2>2. CASE \E e, r : Ended(e, r)
    BY <1>e, <1>s, <1>u, <1>z, <2>1, <2>2
  <2>3. CASE ~\E e, r : Ended(e, r)
    <3>1. CallKept /\ cons'.frame = cons.frame /\ tail' = tail /\ cons.pc \in Reading
      BY <1>3, <1>f, <1>z, <2>3, VerifyEffect
    <3> QED BY <1>c, <1>s, <1>u, <2>1, <3>1
  <2> QED BY <2>2, <2>3
<1>4. CASE FreeDead
  <2>1. cons'.pc = "verify" /\ CallKept /\ cons'.frame = cons.frame /\ tail' = tail
        /\ cons.pc \in Reading /\ slots' = [slots EXCEPT ![cons.k] = FreeSlot]
    BY <1>4, <1>f, <1>z, FreeDeadEffect
  <2> QED BY <1>c, <1>s, <1>x, <1>y, <2>1
<1>5. CASE SecondLook
  <2>1. UNCHANGED slots /\ cons'.pc \notin {"second", "dead", "reclaim"}
    BY <1>5, <1>f, SecondEffect DEF Ended
  <2>2. CASE \E e, r : Ended(e, r)
    BY <1>e, <1>s, <1>u, <1>z, <2>1, <2>2
  <2>3. CASE ~\E e, r : Ended(e, r)
    <3>1. CallKept /\ cons'.frame = cons.frame /\ tail' = tail /\ cons.pc \in Reading
      BY <1>5, <1>f, <1>z, <2>3, SecondEffect
    <3> QED BY <1>c, <1>s, <1>u, <2>1, <3>1
  <2> QED BY <2>2, <2>3
<1>6. CASE CopyPayload
  <2>1. cons'.pc = "pin" /\ CallKept /\ cons'.frame = slots[TailIdx].frame /\ tail' = tail
        /\ cons.pc \in Reading /\ UNCHANGED slots
    BY <1>6, <1>f, <1>z, CopyEffect
  <2> QED BY <1>c, <1>s, <1>u, <2>1
<1>7. CASE PinSlot
  <2>1. slots' = [slots EXCEPT ![TailIdx] = Pinned] /\ tail' = tail /\ cons.pc \in Reading
    BY <1>7, <1>f, <1>z, PinEffect
  <2>2. CASE \E e, r : Ended(e, r)
    BY <1>e, <1>s, <1>x, <1>y, <1>z, <2>1, <2>2
  <2>3. CASE ~\E e, r : Ended(e, r)
    <3>1. cons'.pc = "release" /\ cons'.t = cons.t /\ cons'.part = 0 /\ cons'.first = cons.frame
          /\ cons'.frame = cons.frame
      BY <1>7, <1>f, <2>3, PinEffect
    <3>2. cons.frame.part = 0 /\ cons.frame.total <= 1 /\ cons.t = tail
      BY <2>1 DEF Single
    <3> QED BY <1>s, <1>x, <1>y, <2>1, <3>1, <3>2
  <2> QED BY <2>2, <2>3
<1>8. CASE FreeTail
  <2>1. cons'.pc = "advance" /\ CallKept /\ cons'.frame = cons.frame /\ tail' = tail
        /\ cons.pc \in Reading /\ slots' = [slots EXCEPT ![TailIdx] = FreeSlot]
    BY <1>8, <1>f, <1>z, FreeTailEffect
  <2> QED BY <1>c, <1>s, <1>x, <1>y, <2>1
<1>9. CASE AdvanceTail
  <2>1. UNCHANGED slots /\ \E e, r : Ended(e, r)
    BY <1>9, <1>f, AdvanceEffect
  <2> QED BY <1>e, <1>s, <1>u, <1>z, <2>1
<1>10. CASE ConsOpen
  <2>1. cons'.pc = "reclaim" /\ CallKept /\ cons'.frame = cons.frame /\ tail' = tail
        /\ cons'.pc \notin Reading /\ UNCHANGED slots /\ cons'.readable = cons.readable
        /\ cons.pc = "dead"
    BY <1>10, <1>f, <1>z, ConsOpenEffect
  <2>2. ~cons'.readable
    BY <2>1 DEF Single
  <2> QED BY <1>c, <1>s, <1>u, <2>1, <2>2
<1>11. CASE ConsOpenReclaim
  <2>1. cons'.pc \in {"reclaim", "scan"} /\ CallKept /\ cons'.frame = cons.frame /\ tail' = tail
        /\ cons'.pc \notin Reading /\ cons'.readable = cons.readable /\ cons.pc = "reclaim"
        /\ (slots' = slots \/ slots' = [slots EXCEPT ![cons.k] = FreeSlot])
    BY <1>11, <1>f, <1>z, ConsReclaimEffect
  <2>2. ~cons'.readable
    BY <2>1 DEF Single
  <2> QED BY <1>c, <1>s, <1>u, <1>x, <1>y, <2>1, <2>2
<1>12. CASE ConsOpenScan
  <2>1. cons'.pc \in {"scan", "expect"} /\ CallKept /\ cons'.frame = cons.frame /\ tail' = tail
        /\ cons'.pc \notin Reading /\ UNCHANGED slots
    BY <1>12, <1>f, <1>z, ConsScanEffect
  <2> QED BY <1>c, <1>s, <1>u, <2>1
<1>13. CASE ConsOpenExpect
  <2>1. UNCHANGED slots /\ (Refused \/ \E e, r : Ended(e, r))
    BY <1>13, <1>f, ConsExpectEffect
  <2>2. CASE Refused
    BY <1>s, <1>u, <1>z, <2>1, <2>2, ClearedFields DEF Refused
  <2> QED BY <1>e, <1>s, <1>u, <1>z, <2>1, <2>2
<1>14. CASE ReclaimStale
  <2>1. cons'.pc = "idle" /\ CallKept /\ cons'.frame = cons.frame /\ tail' = tail
        /\ cons'.pc \notin Reading
        /\ \A i \in Index : slots'[i] = slots[i] \/ slots'[i] = FreeSlot
    BY <1>14, <1>f, <1>z, StaleEffect
  <2> QED BY <1>c, <1>s, <1>y, <2>1
<1>15. CASE ConsDie
  <2>1. cons'.pc = "dead" /\ cons'.part = 0 /\ cons'.frame = Cleared /\ cons'.first = Cleared
        /\ cons'.readable = FALSE /\ UNCHANGED slots
    BY <1>15, ConsDieEffect
  <2>2. Cleared.total <= 1
    BY ClearedFields
  <2> QED BY <1>s, <1>u, <1>z, <2>1, <2>2, ClearedFields
<1> QED
  BY <1>1, <1>2, <1>3, <1>4, <1>5, <1>6, <1>7, <1>8, <1>9, <1>10, <1>11, <1>12, <1>13, <1>14,
     <1>15
  DEF ConsumerStep

\* What only a producer's handle and slot decide of Single.
Handled ==
  /\ pr.pc \in Writing => pr.need = 1 /\ pr.done = 0
  /\ pr.pc = "publish" => pr.need = 1
  /\ pr.pc \in {"dead", "reclaim"} => pr.next = 0
  /\ pr.pc = "dead" => pr.k = 0

OneSlotFrame(i, x) == x.frame = slots[i].frame \/ (x.frame.part = 0 /\ x.frame.total <= 1)

LEMMA SingleProducer ==
  ASSUME Base, Single,
         \/ \E n \in scenario.sizes : SendBegin(n)
         \/ ProducerStep \/ Die \/ Open
  PROVE  Single'
<1>f. /\ Typed /\ slots \in [0 .. Cap - 1 -> SlotSet] /\ Index = 0 .. Cap - 1 /\ pr.idx \in Index
  BY PrTyped DEF Base, Index
<1>p. UNCHANGED <<cons, tail>>
  BY DEF SendBegin, ProducerStep, Die, Open, ClaimSlot, MarkSlot, StampSlot, FillSlot, CommitSlot,
         PublishHead, OpenReclaim, OpenScan, OpenCursors, OpenInfer
<1>s. ASSUME Handled', \A i \in Index : slots'[i].frame.part = 0 /\ slots'[i].frame.total <= 1
      PROVE  Single'
  BY <1>p, <1>s DEF Single, Handled
<1>u. ASSUME Handled', UNCHANGED slots PROVE Single'
  BY <1>s, <1>u DEF Single
\* The producer's slot keeps its frame, or gets that of a one-slot message.
<1>w. ASSUME NEW i \in Index, NEW x, slots' = [slots EXCEPT ![i] = x],
             OneSlotFrame(i, x), Handled'
      PROVE  Single'
  <2>1. slots[i].frame.part = 0 /\ slots[i].frame.total <= 1
    BY DEF Single
  <2>2. \A j \in Index : slots'[j].frame.part = 0 /\ slots'[j].frame.total <= 1
    BY <1>f, <1>w, <2>1 DEF Single, OneSlotFrame
  <2> QED BY <1>s, <1>w, <2>2
<1>g. ASSUME pr.pc \in Writing, pr'.need = pr.need, pr'.done = pr.done,
             pr'.pc \in Writing \cup {"idle"}
      PROVE  Handled'
  BY <1>g DEF Handled, Single, Writing
<1>1. ASSUME NEW n \in scenario.sizes, SendBegin(n) PROVE Single'
  BY <1>1, <1>u, SendBeginEffect DEF Handled
<1>2. CASE ClaimSlot
  <2>1. Handled' /\ UNCHANGED slots
    BY <1>2, <1>f, <1>g, ClaimEffect DEF HandleKept, Writing
  <2> QED BY <1>u, <2>1
<1>3. CASE MarkSlot
  <2>1. Handled' /\ Lot(Marked)
    BY <1>3, <1>f, <1>g, MarkEffect DEF HandleKept, Writing
  <2>2. OneSlotFrame(pr.idx, Marked)
    BY DEF Marked, OneSlotFrame
  <2>3. slots' = [slots EXCEPT ![pr.idx] = Marked] /\ Handled' /\ pr.idx \in Index
    BY <1>f, <2>1 DEF Lot
  <2> QED BY <1>w, <2>2, <2>3
<1>4. CASE StampSlot
  <2>1. Handled' /\ Lot(Stamped) /\ Stamped.frame = slots[pr.idx].frame
    BY <1>4, <1>f, <1>g, StampEffect DEF HandleKept, Writing
  <2>2. slots' = [slots EXCEPT ![pr.idx] = Stamped] /\ pr.idx \in Index /\ OneSlotFrame(pr.idx, Stamped)
    BY <1>f, <2>1 DEF Lot, OneSlotFrame
  <2> QED BY <1>w, <2>1, <2>2
<1>5. CASE FillSlot
  <2>1. Handled' /\ Lot(Filled) /\ Filled.frame.part = pr.done /\ Filled.frame.total = pr.need
        /\ pr.pc = "fill"
    BY <1>5, <1>f, <1>g, FillEffect DEF HandleKept, Writing
  <2>2. pr.done = 0 /\ pr.need = 1 /\ pr.need <= 1
    BY <2>1 DEF Single, Writing
  <2>3. slots' = [slots EXCEPT ![pr.idx] = Filled] /\ OneSlotFrame(pr.idx, Filled)
    BY <2>1, <2>2 DEF Lot, OneSlotFrame
  <2> QED BY <1>f, <1>w, <2>1, <2>3
<1>6. CASE CommitSlot
  <2>1. Lot(Committed) /\ pr'.pc = "publish" /\ pr'.need = pr.need /\ pr.pc = "commit"
    BY <1>6, <1>f, CommitEffect DEF HandleKept
  <2>2. Handled'
    BY <2>1 DEF Handled, Single, Writing
  <2>3. OneSlotFrame(pr.idx, Committed)
    BY DEF Committed, OneSlotFrame
  <2>4. slots' = [slots EXCEPT ![pr.idx] = Committed] /\ pr.idx \in Index
    BY <1>f, <2>1 DEF Lot
  <2> QED BY <1>w, <2>2, <2>3, <2>4
<1>7. CASE PublishHead
  BY <1>7, <1>f, <1>u, PublishEffect DEF Handled, Writing
<1>8. CASE Die
  BY <1>8, <1>f, <1>u, DieEffect DEF Handled, Writing
<1>9. CASE Open
  <2>1. pr.pc = "dead" /\ pr'.pc = "reclaim" /\ pr'.next = pr.next /\ UNCHANGED slots
    BY <1>9, <1>f, OpenEffect
  <2>2. Handled'
    BY <2>1 DEF Single, Handled, Writing
  <2> QED BY <1>u, <2>1, <2>2
<1>10. CASE OpenReclaim
  <2>1. /\ pr.pc = "reclaim" /\ pr'.pc \in {"reclaim", "scan"} /\ pr'.next = pr.next
        /\ pr.k \in Index
        /\ slots' = slots \/ slots' = [slots EXCEPT ![pr.k] = FreeSlot]
    BY <1>10, <1>f, ReclaimEffect
  <2>2. Handled'
    BY <2>1 DEF Single, Handled, Writing
  <2>3. FreeSlot.frame.part = 0 /\ FreeSlot.frame.total <= 1
    BY DEF FreeSlot, Cleared
  <2>4. OneSlotFrame(pr.k, FreeSlot)
    BY <2>3 DEF OneSlotFrame
  <2> QED BY <1>u, <1>w, <2>1, <2>2, <2>4
<1>11. CASE OpenScan
  BY <1>11, <1>f, <1>u, ScanEffect DEF Handled, Writing
<1>12. CASE OpenCursors
  BY <1>12, <1>f, <1>u, CursorsEffect DEF Handled, Writing
<1>13. CASE OpenInfer
  BY <1>13, <1>f, <1>u, InferEffect DEF Handled, Writing
<1> QED
  BY <1>1, <1>2, <1>3, <1>4, <1>5, <1>6, <1>7, <1>8, <1>9, <1>10, <1>11, <1>12, <1>13
  DEF ProducerStep

-----------------------------------------------------------------------------
(* The messages on their way were sent, and begun before the next one      *)

Holds(i) == slots[i].state \in {"COMMITTED", "PINNED"}
Known ==
  {id \in Nat : /\ \E j \in 1 .. Len(sent) : sent[j] = id
                /\ id <= pr.id /\ (pr.pc \in Writing => id < pr.id)}

Ids ==
  /\ \A i \in 1 .. Len(got) : got[i] \in Known
  /\ \A i \in Index : Holds(i) => slots[i].frame.id \in Known
  /\ At("commit") => slots[pr.idx].frame.id = pr.id
  /\ cons.pc \in {"pin", "release"} => cons.frame = slots[TailIdx].frame
  /\ ConsAt("release") => cons.first = cons.frame
  /\ ConsAt("advance") => cons.first.id \in Known

LessHeld ==
  \A i \in Index : slots'[i] = slots[i] \/ slots'[i].state = "FREE"
                   \/ (Holds(i) /\ slots'[i].frame = slots[i].frame)

LEMMA IdsConsumer ==
  ASSUME Base, Single, Ids, ConsumerStep \/ ReclaimStale \/ ConsDie
  PROVE  Ids'
<1>f. /\ Typed /\ slots \in [0 .. Cap - 1 -> SlotSet] /\ Index = 0 .. Cap - 1 /\ ReaderInv
      /\ TailIdx \in Index /\ cons.k \in Index /\ got \in Seq(Nat)
  BY PrTyped, ConsTyped DEF Base, Index, Typed
<1>p. UNCHANGED <<pr, sent>>
  BY DEF ConsumerStep, ReclaimStale, ConsDie, RecvBegin, Gate, Verify, FreeDead, SecondLook,
         CopyPayload, PinSlot, FreeTail, AdvanceTail, ConsOpen, ConsOpenReclaim, ConsOpenScan,
         ConsOpenExpect
<1>k. Known' = Known
  BY <1>p DEF Known
\* The slots keep what they hold, or are FREE, or PINNED with the same frame.
<1>s. ASSUME LessHeld,
             At("commit") => slots'[pr.idx] = slots[pr.idx],
             \A i \in 1 .. Len(got') : got'[i] \in Known',
             cons'.pc \in {"pin", "release"} => cons'.frame = slots'[TailIdx'].frame,
             cons'.pc = "release" => cons'.first = cons'.frame,
             cons'.pc = "advance" => cons'.first.id \in Known'
      PROVE  Ids'
  <2>1. \A i \in Index : Holds(i)' => Holds(i) /\ slots'[i].frame = slots[i].frame
    BY <1>s DEF Holds, LessHeld
  <2>2. \A i \in Index : Holds(i)' => slots[i].frame.id \in Known'
    BY <1>k, <2>1 DEF Ids
  <2> QED BY <1>p, <1>s, <2>1, <2>2 DEF Ids, At, ConsAt
<1>c. At("commit") => slots'[pr.idx] = slots[pr.idx]
  BY QuietConsumer DEF Base, SingleSlot, At
<1>g. UNCHANGED got => \A i \in 1 .. Len(got') : got'[i] \in Known'
  BY <1>k DEF Ids
\* The consumer takes nothing over from a slot.
<1>q. ASSUME LessHeld,
             UNCHANGED got, cons'.pc \notin {"pin", "release", "advance"}
      PROVE  Ids'
  BY <1>c, <1>g, <1>q, <1>s
<1>y. FreeSlot.state = "FREE" /\ (UNCHANGED slots => LessHeld)
  BY DEF FreeSlot, LessHeld
<1>1. CASE RecvBegin
  BY <1>1, <1>q, <1>y, RecvBeginEffect
<1>2. CASE Gate
  <2>1. UNCHANGED <<slots, got>> /\ cons'.pc \in {"copy", "verify", "idle"}
    BY <1>2, <1>f, GateEffect DEF Ended
  <2> QED BY <1>q, <1>y, <2>1
<1>3. CASE Verify
  <2>1. UNCHANGED <<slots, got>> /\ cons'.pc \in {"free", "second", "idle"}
    BY <1>3, <1>f, VerifyEffect DEF Ended
  <2> QED BY <1>q, <1>y, <2>1
<1>4. CASE FreeDead
  <2>1. slots' = [slots EXCEPT ![cons.k] = FreeSlot] /\ UNCHANGED got /\ cons'.pc = "verify"
    BY <1>4, <1>f, FreeDeadEffect
  <2>2. LessHeld
    BY <1>f, <2>1, <1>y DEF LessHeld
  <2> QED BY <1>q, <1>y, <2>1, <2>2
<1>5. CASE SecondLook
  <2>1. UNCHANGED <<slots, got>> /\ cons'.pc \in {"copy", "idle"}
    BY <1>5, <1>f, SecondEffect DEF Ended
  <2> QED BY <1>q, <1>y, <2>1
<1>6. CASE CopyPayload
  <2>1. UNCHANGED <<slots, got>> /\ cons'.pc = "pin" /\ cons'.frame = slots[TailIdx].frame
        /\ cons'.t = cons.t
    BY <1>6, <1>f, CopyEffect DEF CallKept
  <2>2. slots'[TailIdx'].frame = slots[TailIdx].frame
    BY <2>1 DEF TailIdx
  <2> QED BY <1>c, <1>g, <1>s, <1>y, <2>1, <2>2
<1>7. CASE PinSlot
  <2>1. /\ cons.pc = "pin" /\ slots' = [slots EXCEPT ![TailIdx] = Pinned] /\ UNCHANGED got
        /\ \/ cons'.pc = "idle"
           \/ cons'.pc = "release" /\ cons'.t = cons.t /\ cons'.first = cons.frame
              /\ cons'.frame = cons.frame
    BY <1>7, <1>f, PinEffect DEF Ended
  <2>2. Holds(TailIdx) /\ cons.frame = slots[TailIdx].frame
    BY <1>f, <2>1 DEF ReaderInv, Holds, Ids
  <2>3. Pinned.frame = slots[TailIdx].frame
    BY DEF Pinned
  <2>4. LessHeld
    BY <1>f, <2>1, <2>2, <2>3 DEF LessHeld
  <2>5. cons'.pc = "release" => slots'[TailIdx'].frame = slots[TailIdx].frame
    <3>1. cons'.pc = "release" => TailIdx' = TailIdx
      BY <2>1 DEF TailIdx
    <3>2. slots'[TailIdx] = Pinned
      BY <1>f, <2>1
    <3> QED BY <2>3, <3>1, <3>2
  <2> QED BY <1>c, <1>g, <1>s, <1>y, <2>1, <2>2, <2>4, <2>5
<1>8. CASE FreeTail
  <2>1. /\ cons.pc = "release" /\ slots' = [slots EXCEPT ![TailIdx] = FreeSlot] /\ UNCHANGED got
        /\ cons'.pc = "advance" /\ cons'.first = cons.first
    BY <1>8, <1>f, FreeTailEffect DEF CallKept
  <2>2. cons.first.id \in Known
    <3>1. cons.first = slots[TailIdx].frame
      BY <2>1 DEF Ids, ConsAt
    <3>2. Holds(TailIdx)
      BY <1>f, <2>1 DEF ReaderInv, ConsAt, Holds
    <3> QED BY <1>f, <3>1, <3>2 DEF Ids
  <2>3. LessHeld
    BY <1>f, <2>1, <1>y DEF LessHeld
  <2>4. cons'.first.id \in Known'
    BY <1>k, <2>1, <2>2
  <2> QED BY <1>c, <1>g, <1>s, <1>y, <2>1, <2>3, <2>4
<1>9. CASE AdvanceTail
  <2>1. /\ cons.pc = "advance" /\ cons'.pc = "idle" /\ UNCHANGED slots
        /\ got' = got \/ got' = Append(got, cons.first.id)
    BY <1>9, <1>f, AdvanceEffect DEF Ended
  <2>2. cons.first.id \in Known' /\ cons.first.id \in Nat
    <3>1. cons.first.id \in Known
      BY <2>1 DEF Ids, ConsAt
    <3>3. cons.first \in FrameSet
      BY <1>f, ConsTyped
    <3> QED BY <1>k, <3>1, <3>3 DEF FrameSet
  <2>3. \A i \in 1 .. Len(got') : got'[i] \in Known'
    <3>1. CASE got' = got
      BY <1>g, <3>1
    <3>2. CASE got' = Append(got, cons.first.id)
      <4>1. /\ Len(got') = Len(got) + 1 /\ Len(got) \in Nat /\ got'[Len(got) + 1] = cons.first.id
            /\ \A i \in 1 .. Len(got) : got'[i] = got[i]
        BY <1>f, <2>2, <3>2
      <4>2. SUFFICES ASSUME NEW i \in 1 .. Len(got') PROVE got'[i] \in Known'
        OBVIOUS
      <4>3. i \in 1 .. Len(got) \/ i = Len(got) + 1
        BY <4>1
      <4> QED BY <1>k, <2>2, <4>1, <4>3 DEF Ids
    <3> QED BY <2>1, <3>1, <3>2
  <2> QED BY <1>c, <1>s, <1>y, <2>1, <2>3
<1>10. CASE ConsOpen
  BY <1>10, <1>f, <1>q, <1>y, ConsOpenEffect
<1>11. CASE ConsOpenReclaim
  <2>1. (slots' = slots \/ slots' = [slots EXCEPT ![cons.k] = FreeSlot]) /\ UNCHANGED got
        /\ cons'.pc \in {"reclaim", "scan"}
    BY <1>11, <1>f, ConsReclaimEffect
  <2>2. LessHeld
    BY <1>f, <2>1, <1>y DEF LessHeld
  <2> QED BY <1>q, <1>y, <2>1, <2>2
<1>12. CASE ConsOpenScan
  BY <1>12, <1>f, <1>q, <1>y, ConsScanEffect
<1>13. CASE ConsOpenExpect
  <2>1. UNCHANGED <<slots, got>> /\ cons'.pc \in {"idle", "dead"}
    BY <1>13, <1>f, ConsExpectEffect DEF Ended, Refused
  <2> QED BY <1>q, <1>y, <2>1
<1>14. CASE ReclaimStale
  <2>1. UNCHANGED got /\ cons'.pc = "idle"
        /\ \A i \in Index : slots'[i] = slots[i] \/ slots'[i] = FreeSlot
    BY <1>14, <1>f, StaleEffect
  <2>2. LessHeld
    BY <1>y, <2>1 DEF LessHeld
  <2> QED BY <1>q, <1>y, <2>1, <2>2
<1>15. CASE ConsDie
  BY <1>15, <1>q, <1>y, ConsDieEffect
<1> QED
  BY <1>1, <1>2, <1>3, <1>4, <1>5, <1>6, <1>7, <1>8, <1>9, <1>10, <1>11, <1>12, <1>13, <1>14,
     <1>15
  DEF ConsumerStep

\* A step of the producer that commits nothing.
HeldSame ==
  /\ \A i \in Index : Holds(i) => slots'[i] = slots[i]
  /\ \A i \in Index : slots'[i].state \in {"COMMITTED", "PINNED"} => Holds(i)

LEMMA IdsProducer ==
  ASSUME Base, Single, Ids,
         \/ \E n \in scenario.sizes : SendBegin(n)
         \/ ProducerStep \/ Die \/ Open
  PROVE  Ids'
<1>f. /\ Typed /\ slots \in [0 .. Cap - 1 -> SlotSet] /\ Index = 0 .. Cap - 1 /\ pr.idx \in Index
      /\ TailIdx \in Index /\ pr.id \in Nat /\ sent \in Seq(Nat) /\ WriterInv /\ ReaderInv
  BY PrTyped, ConsTyped DEF Base, Index, Typed
<1>p. UNCHANGED <<cons, got>>
  BY DEF SendBegin, ProducerStep, Die, Open, ClaimSlot, MarkSlot, StampSlot, FillSlot, CommitSlot,
         PublishHead, OpenReclaim, OpenScan, OpenCursors, OpenInfer
<1>k. ASSUME sent' = sent \/ sent' = Append(sent, pr.id),
             \/ pr'.id = pr.id /\ (pr'.pc \in Writing => pr.pc \in Writing)
             \/ pr'.id = pr.id + 1
      PROVE  Known \subseteq Known'
  <2>1. SUFFICES ASSUME NEW id \in Known PROVE id \in Known'
    OBVIOUS
  <2>2. PICK j \in 1 .. Len(sent) : sent[j] = id
    BY <2>1 DEF Known
  <2>3. j \in 1 .. Len(sent') /\ sent'[j] = id
    <3>1. CASE sent' = sent
      BY <2>2, <3>1
    <3>2. CASE sent' = Append(sent, pr.id)
      BY <1>f, <2>2, <3>2
    <3> QED BY <1>k, <3>1, <3>2
  <2>4. id \in Nat /\ id <= pr.id /\ (pr.pc \in Writing => id < pr.id)
    BY <2>1 DEF Known
  <2>5. id <= pr'.id /\ (pr'.pc \in Writing => id < pr'.id)
    BY <1>f, <1>k, <2>4
  <2> QED BY <2>3, <2>4, <2>5 DEF Known
\* The consumer's part of the invariant.
<1>c. ASSUME \A i \in Index : Holds(i) => slots'[i] = slots[i], Known \subseteq Known'
      PROVE  /\ \A i \in 1 .. Len(got') : got'[i] \in Known'
             /\ cons'.pc \in {"pin", "release"} => cons'.frame = slots'[TailIdx'].frame
             /\ cons'.pc = "release" => cons'.first = cons'.frame
             /\ cons'.pc = "advance" => cons'.first.id \in Known'
  <2>1. cons.pc \in {"pin", "release"} => Holds(TailIdx)
    BY <1>f DEF ReaderInv, ConsAt, Holds
  <2>2. TailIdx' = TailIdx
    BY <1>p DEF TailIdx
  <2>3. cons'.pc \in {"pin", "release"} => cons'.frame = slots'[TailIdx'].frame
    BY <1>c, <1>f, <1>p, <2>1, <2>2 DEF Ids
  <2> QED BY <1>c, <1>p, <2>3 DEF Ids, ConsAt
<1>s. ASSUME HeldSame, Known \subseteq Known',
             pr'.pc = "commit" => slots'[pr'.idx].frame.id = pr'.id
      PROVE  Ids'
  <2>1. \A i \in Index : Holds(i) => slots'[i] = slots[i]
    BY <1>s DEF HeldSame
  <2>2. \A i \in Index : slots'[i].state \in {"COMMITTED", "PINNED"} => slots'[i].frame.id \in Known'
    BY <1>s DEF HeldSame, Ids
  <2> QED BY <1>c, <1>s, <2>1, <2>2 DEF Ids, At, ConsAt, Holds
<1>u. UNCHANGED slots => HeldSame
  BY DEF HeldSame, Holds
\* The producer's own slot holds nothing yet.
<1>o. pr.pc \in {"mark", "stamp", "fill", "commit"} => ~Holds(pr.idx)
  BY <1>f DEF WriterInv, At, Holds
<1>w. ASSUME NEW i \in Index, NEW x, slots' = [slots EXCEPT ![i] = x], ~Holds(i),
             x.state \in {"FREE", "WRITING"}
      PROVE  HeldSame
  <2>1. slots'[i] = x /\ \A j \in Index : j # i => slots'[j] = slots[j]
    BY <1>f, <1>w
  <2> QED BY <1>w, <2>1 DEF HeldSame, Holds
<1>1. ASSUME NEW n \in scenario.sizes, SendBegin(n) PROVE Ids'
  BY <1>1, <1>k, <1>s, <1>u, SendBeginEffect
<1>2. CASE ClaimSlot
  <2>1. UNCHANGED <<slots, sent>> /\ pr'.id = pr.id /\ pr.pc = "claim" /\ pr'.pc # "commit"
    BY <1>2, <1>f, ClaimEffect DEF HandleKept
  <2>2. Known \subseteq Known'
    BY <1>k, <2>1 DEF Writing
  <2> QED BY <1>s, <1>u, <2>1, <2>2
<1>3. CASE MarkSlot
  <2>1. UNCHANGED sent /\ pr'.id = pr.id /\ pr.pc = "mark" /\ pr'.pc # "commit"
        /\ slots' = [slots EXCEPT ![pr.idx] = Marked]
    BY <1>3, <1>f, MarkEffect DEF HandleKept, Lot
  <2>2. Known \subseteq Known'
    BY <1>k, <2>1 DEF Writing
  <2>3. Marked.state = "WRITING"
    BY DEF Marked
  <2>4. HeldSame
    BY <1>f, <1>o, <1>w, <2>1, <2>3
  <2> QED BY <1>s, <2>1, <2>2, <2>4
<1>4. CASE StampSlot
  <2>1. UNCHANGED sent /\ pr'.id = pr.id /\ pr.pc = "stamp" /\ pr'.pc # "commit"
        /\ slots' = [slots EXCEPT ![pr.idx] = Stamped] /\ Stamped.state = slots[pr.idx].state
    BY <1>4, <1>f, StampEffect DEF HandleKept, Lot
  <2>2. Known \subseteq Known'
    BY <1>k, <2>1 DEF Writing
  <2>3. slots[pr.idx].state = "WRITING"
    BY <1>f, <2>1 DEF WriterInv, At
  <2>4. HeldSame
    BY <1>f, <1>o, <1>w, <2>1, <2>3
  <2> QED BY <1>s, <2>1, <2>2, <2>4
<1>5. CASE FillSlot
  <2>1. UNCHANGED sent /\ pr'.id = pr.id /\ pr.pc = "fill" /\ pr'.idx = pr.idx
        /\ slots' = [slots EXCEPT ![pr.idx] = Filled] /\ Filled.state = slots[pr.idx].state
        /\ Filled.frame.id = pr.id
    BY <1>5, <1>f, FillEffect DEF HandleKept, Lot
  <2>2. Known \subseteq Known'
    BY <1>k, <2>1 DEF Writing
  <2>3. slots[pr.idx].state = "WRITING"
    BY <1>f, <2>1 DEF WriterInv
  <2>4. HeldSame
    BY <1>f, <1>o, <1>w, <2>1, <2>3
  <2>5. slots'[pr'.idx].frame.id = pr'.id
    BY <1>f, <2>1
  <2> QED BY <1>s, <2>2, <2>4, <2>5
<1>6. CASE CommitSlot
  <2>1. sent' = Append(sent, pr.id) /\ pr'.id = pr.id /\ pr.pc = "commit" /\ pr'.pc = "publish"
        /\ slots' = [slots EXCEPT ![pr.idx] = Committed]
    BY <1>6, <1>f, CommitEffect DEF HandleKept, Lot
  <2>2. Known \subseteq Known'
    BY <1>k, <2>1 DEF Writing
  <2>3. slots'[pr.idx] = Committed /\ \A j \in Index : j # pr.idx => slots'[j] = slots[j]
    BY <1>f, <2>1
  <2>4. Committed.frame.id = pr.id
    BY <2>1 DEF Ids, At, Committed
  <2>5. pr.id \in Known'
    <3>1. Len(sent') \in 1 .. Len(sent') /\ sent'[Len(sent')] = pr.id
      BY <1>f, <2>1
    <3>2. pr.id <= pr'.id /\ pr'.pc \notin Writing
      BY <1>f, <2>1 DEF Writing
    <3> QED BY <1>f, <3>1, <3>2 DEF Known
  <2>6. \A i \in Index : slots'[i].state \in {"COMMITTED", "PINNED"} => slots'[i].frame.id \in Known'
    BY <2>2, <2>3, <2>4, <2>5 DEF Ids, Holds
  <2>7. \A i \in Index : Holds(i) => slots'[i] = slots[i]
    BY <1>o, <2>1, <2>3
  <2> QED BY <1>c, <2>1, <2>2, <2>6, <2>7 DEF Ids, At, ConsAt, Holds
<1>7. CASE PublishHead
  <2>1. UNCHANGED <<slots, sent>> /\ pr'.id = pr.id /\ pr'.pc = "idle"
    BY <1>7, <1>f, PublishEffect DEF HandleKept
  <2>2. Known \subseteq Known'
    BY <1>k, <2>1 DEF Writing
  <2> QED BY <1>s, <1>u, <2>1, <2>2
<1>8. CASE Die \/ Open \/ OpenScan \/ OpenCursors \/ OpenInfer
  <2>1. UNCHANGED <<slots, sent>> /\ pr'.id = pr.id
        /\ pr'.pc \in {"dead", "reclaim", "scan", "cursors", "infer", "idle"}
    BY <1>8, <1>f, DieEffect, OpenEffect, ScanEffect, CursorsEffect, InferEffect
  <2>2. Known \subseteq Known'
    BY <1>k, <2>1 DEF Writing
  <2> QED BY <1>s, <1>u, <2>1, <2>2
<1>9. CASE OpenReclaim
  <2>1. /\ UNCHANGED sent /\ pr'.id = pr.id /\ pr'.pc \in {"reclaim", "scan"} /\ pr.k \in Index
        /\ IF DeadWriting(pr.k) THEN slots' = [slots EXCEPT ![pr.k] = FreeSlot]
                                ELSE slots' = slots
    BY <1>9, <1>f, ReclaimEffect
  <2>2. Known \subseteq Known'
    BY <1>k, <2>1 DEF Writing
  <2>3. DeadWriting(pr.k) => ~Holds(pr.k)
    BY DEF DeadWriting, Holds
  <2>4. FreeSlot.state = "FREE"
    BY DEF FreeSlot
  <2>5. HeldSame
    BY <1>u, <1>w, <2>1, <2>3, <2>4
  <2> QED BY <1>s, <2>1, <2>2, <2>5
<1> QED
  BY <1>1, <1>2, <1>3, <1>4, <1>5, <1>6, <1>7, <1>8, <1>9 DEF ProducerStep

-----------------------------------------------------------------------------
(* A line of slots: the occupied slots follow one another from f up to b   *)

Cell(s, q) == s[q % Cap]
Span(f) == f .. f + Cap - 1
Held(s, q) == Cell(s, q).state \in {"COMMITTED", "PINNED"}
NamedIn(s, q) == Cell(s, q).state = "WRITING" /\ Cell(s, q).owner # 0

Run(s, f, b) ==
  /\ b \in f .. f + Cap
  /\ \A q \in Span(f) : Cell(s, q).state # "FREE" <=> q < b
LastNamed(s, f, b) == \A q \in Span(f) : NamedIn(s, q) => q = b - 1
Rising(s, f) ==
  \A p, q \in Span(f) : p < q /\ Held(s, p) /\ Held(s, q) => Cell(s, p).frame.id < Cell(s, q).frame.id
Behind(s, f, x) == \A q \in Span(f) : Held(s, q) => x < Cell(s, q).frame.id
\* The numbers are consecutive, and n is the one that follows.
Numbers(s, f, b, n) == \A q \in f .. b - 1 : Cell(s, q).seq + (b - q) = n

LEMMA SpanIndex ==
  ASSUME NEW f \in Nat, NEW i \in 0 .. Cap - 1
  PROVE  \E q \in Span(f) : q \in Nat /\ q % Cap = i
<1> DEFINE x == f \div Cap
           r == f % Cap
<1>1. x \in Nat /\ r \in 0 .. Cap - 1 /\ f = Cap * x + r
  BY CapAssumption, LapAndSlot
<1>2. Cap \in Nat \ {0} /\ Cap * x \in Nat
  BY <1>1, CapAssumption
<1>3. Cap * (x + 1) = Cap * x + Cap
  BY <1>1, <1>2
<1> HIDE DEF x, r
<1>4. CASE r <= i
  <2>1. Cap * x + i \in f .. f + Cap - 1 /\ Cap * x + i \in Nat
    BY <1>1, <1>2, <1>4
  <2>2. (Cap * x + i) % Cap = i
    BY <1>1, <1>2, <2>1, SlotOf
  <2> QED BY <2>1, <2>2 DEF Span
<1>5. CASE i < r
  <2>1. Cap * x + Cap + i \in f .. f + Cap - 1 /\ Cap * x + Cap + i \in Nat
    BY <1>1, <1>2, <1>5
  <2>2. Cap * x + Cap + i = Cap * (x + 1) + i /\ x + 1 \in Nat
    BY <1>1, <1>3
  <2>3. (Cap * x + Cap + i) % Cap = i
    BY <1>2, <2>1, <2>2, SlotOf
  <2> QED BY <2>1, <2>3 DEF Span
<1> QED BY <1>1, <1>4, <1>5

LEMMA SpanDistinct ==
  ASSUME NEW f \in Nat, NEW p \in Span(f), NEW q \in Span(f), p # q
  PROVE  p % Cap # q % Cap
<1>1. p \in Nat /\ q \in Nat /\ f <= p /\ p < f + Cap /\ f <= q /\ q < f + Cap
  BY CapAssumption DEF Span
<1>2. CASE p < q
  <2>1. q < p + Cap
    BY <1>1, CapAssumption
  <2> QED BY <1>1, <1>2, <2>1, CapAssumption, WindowDistinct
<1>3. CASE q < p
  <2>1. p < q + Cap
    BY <1>1, CapAssumption
  <2> QED BY <1>1, <1>3, <2>1, CapAssumption, WindowDistinct
<1> QED BY <1>1, <1>2, <1>3

LEMMA SpanIn ==
  ASSUME NEW f \in Nat, NEW q \in Span(f)
  PROVE  q \in Nat /\ f <= q /\ q < f + Cap /\ q % Cap \in 0 .. Cap - 1 /\ Cap \in Nat \ {0}
<1>1. q \in Nat /\ f <= q /\ q < f + Cap
  BY CapAssumption DEF Span
<1> QED BY <1>1, CapAssumption, LapAndSlot

Writes(t, s, p, x) == t = [s EXCEPT ![p % Cap] = x]

\* No slot is pinned that was not.
PinsOld(t, s, f) == \A q \in Span(f) : Cell(t, q).state = "PINNED" => Cell(s, q).state = "PINNED"

\* Writing one slot leaves the others.
LEMMA OneWritten ==
  ASSUME NEW s \in [0 .. Cap - 1 -> SlotSet], NEW f \in Nat, NEW p \in Span(f), NEW x, NEW t,
         Writes(t, s, p, x)
  PROVE  Cell(t, p) = x /\ \A q \in Span(f) : q # p => Cell(t, q) = Cell(s, q)
<1>1. p % Cap \in 0 .. Cap - 1
  BY SpanIn
<1>2. ASSUME NEW q \in Span(f), q # p PROVE Cell(t, q) = Cell(s, q)
  <2>1. q % Cap # p % Cap /\ q % Cap \in 0 .. Cap - 1
    BY <1>2, SpanIn, SpanDistinct
  <2> QED BY <1>1, <2>1 DEF Cell, Writes
<1> QED BY <1>1, <1>2 DEF Cell, Writes

\* A slot is taken behind the line.
LEMMA RunTakes ==
  ASSUME NEW s \in [0 .. Cap - 1 -> SlotSet], NEW f \in Nat, NEW b \in Nat, NEW x, NEW t,
         Run(s, f, b), b < f + Cap, Writes(t, s, b, x),
         x.state = "WRITING", x.owner = 0
  PROVE  /\ Run(t, f, b + 1)
         /\ (\A q \in Span(f) : ~NamedIn(s, q)) => LastNamed(t, f, b + 1)
         /\ Rising(s, f) => Rising(t, f)
         /\ \A y : Behind(s, f, y) => Behind(t, f, y)
         /\ \A n \in Nat : Numbers(s, f, b, n) /\ x.seq = n => Numbers(t, f, b + 1, n + 1)
         /\ PinsOld(t, s, f)
<1>1. b \in Span(f) /\ Cap \in Nat \ {0} /\ b \in f .. f + Cap
  BY CapAssumption DEF Run, Span
<1>2. Cell(t, b) = x /\ \A q \in Span(f) : q # b => Cell(t, q) = Cell(s, q)
  BY <1>1, OneWritten
<1>3. \A q \in Span(f) : q \in Nat /\ f <= q /\ q < f + Cap
  BY SpanIn
<1>4. \A q \in Span(f) : Held(t, q) => Held(s, q) /\ Cell(t, q) = Cell(s, q)
  BY <1>2 DEF Held
<1>5. Run(t, f, b + 1)
  <2>1. b + 1 \in f .. f + Cap
    BY <1>1
  <2>2. SUFFICES ASSUME NEW q \in Span(f) PROVE Cell(t, q).state # "FREE" <=> q < b + 1
    BY <2>1 DEF Run
  <2>3. CASE q = b
    BY <1>2, <2>3
  <2>4. CASE q # b
    <3>1. Cell(t, q) = Cell(s, q) /\ (Cell(s, q).state # "FREE" <=> q < b)
      BY <1>2, <2>4 DEF Run
    <3>2. q \in Nat
      BY <1>3
    <3> QED BY <2>4, <3>1, <3>2
  <2> QED BY <2>3, <2>4
<1>6. ASSUME \A q \in Span(f) : ~NamedIn(s, q) PROVE LastNamed(t, f, b + 1)
  <2>1. SUFFICES ASSUME NEW q \in Span(f) PROVE ~NamedIn(t, q)
    BY DEF LastNamed
  <2>2. CASE q = b
    BY <1>2, <2>2 DEF NamedIn
  <2>3. CASE q # b
    BY <1>2, <1>6, <2>3 DEF NamedIn
  <2> QED BY <2>2, <2>3
<1>7. Rising(s, f) => Rising(t, f)
  BY <1>4 DEF Rising
<1>8. \A y : Behind(s, f, y) => Behind(t, f, y)
  BY <1>4 DEF Behind
<1>9. ASSUME NEW n \in Nat, Numbers(s, f, b, n), x.seq = n PROVE Numbers(t, f, b + 1, n + 1)
  <2>0. (b + 1) - 1 = b
    BY <1>1
  <2>1. SUFFICES ASSUME NEW q \in f .. b PROVE Cell(t, q).seq + ((b + 1) - q) = n + 1
    BY <2>0 DEF Numbers
  <2>2. CASE q = b
    BY <1>1, <1>2, <1>9, <2>2
  <2>3. CASE q # b
    <3>1. q \in f .. b - 1 /\ q \in Nat
      BY <1>1, <2>3
    <3>2. q \in Span(f)
      BY <1>1, <3>1 DEF Span
    <3>3. Cell(t, q) = Cell(s, q) /\ Cell(s, q).seq + (b - q) = n
      BY <1>2, <1>9, <2>3, <3>1, <3>2 DEF Numbers
    <3>4. Cell(s, q).seq \in Nat
      BY <3>2, SpanIn DEF Cell, SlotSet
    <3> QED BY <1>1, <3>1, <3>3, <3>4
  <2> QED BY <2>2, <2>3
<1>10. ASSUME NEW q \in Span(f), Cell(t, q).state = "PINNED" PROVE Cell(s, q).state = "PINNED"
  BY <1>2, <1>10
<1> QED BY <1>5, <1>6, <1>7, <1>8, <1>9, <1>10 DEF PinsOld

\* A slot of the line changes and stays occupied.
LEMMA RunRewrites ==
  ASSUME NEW s \in [0 .. Cap - 1 -> SlotSet], NEW f \in Nat, NEW b \in Nat, NEW p \in Span(f), NEW x,
         NEW t, Run(s, f, b), p < b, Writes(t, s, p, x), x.state # "FREE"
  PROVE  /\ Run(t, f, b)
         /\ LastNamed(s, f, b) /\ (x.state = "WRITING" => p = b - 1) => LastNamed(t, f, b)
         /\ \A n : Numbers(s, f, b, n) /\ x.seq = Cell(s, p).seq => Numbers(t, f, b, n)
         /\ \A q \in Span(f) : q # p => Cell(t, q) = Cell(s, q)
         /\ Cell(t, p) = x
<1>1. b \in f .. f + Cap
  BY DEF Run
<1>2. Cell(t, p) = x /\ \A q \in Span(f) : q # p => Cell(t, q) = Cell(s, q)
  BY OneWritten
<1>3. Run(t, f, b)
  <2>1. SUFFICES ASSUME NEW q \in Span(f) PROVE Cell(t, q).state # "FREE" <=> q < b
    BY <1>1 DEF Run
  <2>2. CASE q = p
    BY <1>2, <2>2
  <2>3. CASE q # p
    BY <1>2, <2>3 DEF Run
  <2> QED BY <2>2, <2>3
<1>4. ASSUME LastNamed(s, f, b), x.state = "WRITING" => p = b - 1 PROVE LastNamed(t, f, b)
  <2>1. SUFFICES ASSUME NEW q \in Span(f), NamedIn(t, q) PROVE q = b - 1
    BY DEF LastNamed
  <2>2. CASE q = p
    BY <1>2, <1>4, <2>1, <2>2 DEF NamedIn
  <2>3. CASE q # p
    <3>1. NamedIn(s, q)
      BY <1>2, <2>1, <2>3 DEF NamedIn
    <3> QED BY <1>4, <3>1 DEF LastNamed
  <2> QED BY <2>2, <2>3
<1>5. ASSUME NEW n, Numbers(s, f, b, n), x.seq = Cell(s, p).seq PROVE Numbers(t, f, b, n)
  <2>1. SUFFICES ASSUME NEW q \in f .. b - 1 PROVE Cell(t, q).seq + (b - q) = n
    BY DEF Numbers
  <2>2. q \in Span(f)
    BY <1>1, CapAssumption DEF Span
  <2>3. Cell(t, q).seq = Cell(s, q).seq
    BY <1>2, <1>5, <2>2
  <2>4. Cell(s, q).seq + (b - q) = n
    BY <1>5 DEF Numbers
  <2> QED BY <2>3, <2>4
<1> QED BY <1>2, <1>3, <1>4, <1>5

\* What is rewritten held nothing and holds nothing.
LEMMA RewritesNothing ==
  ASSUME NEW s, NEW f, NEW p \in Span(f), NEW t,
         \A q \in Span(f) : q # p => Cell(t, q) = Cell(s, q), ~Held(t, p)
  PROVE  /\ Rising(s, f) => Rising(t, f)
         /\ \A y : Behind(s, f, y) => Behind(t, f, y)
<1>1. \A q \in Span(f) : Held(t, q) => Held(s, q) /\ Cell(t, q) = Cell(s, q)
  BY DEF Held
<1> QED BY <1>1 DEF Rising, Behind

\* It keeps what it held.
LEMMA RewritesHeld ==
  ASSUME NEW s, NEW f, NEW p \in Span(f), NEW t,
         \A q \in Span(f) : q # p => Cell(t, q) = Cell(s, q), Held(s, p),
         Cell(t, p).frame = Cell(s, p).frame
  PROVE  /\ Rising(s, f) => Rising(t, f)
         /\ \A y : Behind(s, f, y) => Behind(t, f, y)
<1>1. \A q \in Span(f) : Held(t, q) => Held(s, q) /\ Cell(t, q).frame = Cell(s, q).frame
  <2>1. SUFFICES ASSUME NEW q \in Span(f), Held(t, q)
                 PROVE  Held(s, q) /\ Cell(t, q).frame = Cell(s, q).frame
    OBVIOUS
  <2>2. CASE q = p
    BY <2>2
  <2>3. CASE q # p
    BY <2>1, <2>3 DEF Held
  <2> QED BY <2>2, <2>3
<1> QED BY <1>1 DEF Rising, Behind

\* The end of the line is committed, after all that is held.
LEMMA RewritesLast ==
  ASSUME NEW s, NEW f \in Nat, NEW b \in Nat, NEW t, b - 1 \in Span(f), Run(s, f, b),
         \A q \in Span(f) : q # b - 1 => Cell(t, q) = Cell(s, q),
         \A q \in Span(f) : Held(s, q) => Cell(s, q).frame.id < Cell(t, b - 1).frame.id
  PROVE  /\ Rising(s, f) => Rising(t, f)
         /\ \A y : Behind(s, f, y) /\ y < Cell(t, b - 1).frame.id => Behind(t, f, y)
<1>1. \A q \in Span(f) : q \in Nat /\ f <= q /\ q < f + Cap
  BY SpanIn
<1>2. \A q \in Span(f) : q # b - 1 => (Held(t, q) <=> Held(s, q))
  BY DEF Held
<1>3. ASSUME Rising(s, f) PROVE Rising(t, f)
  <2>1. SUFFICES ASSUME NEW p \in Span(f), NEW q \in Span(f), p < q, Held(t, p), Held(t, q)
                 PROVE  Cell(t, p).frame.id < Cell(t, q).frame.id
    BY DEF Rising
  <2>2. CASE p = b - 1
    <3>1. ~(q < b) /\ q # b - 1
      BY <1>1, <2>1, <2>2
    <3>2. Held(s, q)
      BY <1>2, <2>1, <3>1
    <3>3. Cell(s, q).state # "FREE"
      BY <3>2 DEF Held
    <3> QED BY <3>1, <3>3 DEF Run
  <2>3. CASE p # b - 1 /\ q = b - 1
    <3>1. Held(s, p) /\ Cell(t, p) = Cell(s, p)
      BY <1>2, <2>1, <2>3
    <3> QED BY <2>3, <3>1
  <2>4. CASE p # b - 1 /\ q # b - 1
    <3>1. Held(s, p) /\ Cell(t, p) = Cell(s, p) /\ Held(s, q) /\ Cell(t, q) = Cell(s, q)
      BY <1>2, <2>1, <2>4
    <3> QED BY <1>3, <2>1, <3>1 DEF Rising
  <2> QED BY <2>2, <2>3, <2>4
<1>4. ASSUME NEW y, Behind(s, f, y), y < Cell(t, b - 1).frame.id PROVE Behind(t, f, y)
  <2>1. SUFFICES ASSUME NEW q \in Span(f), Held(t, q) PROVE y < Cell(t, q).frame.id
    BY DEF Behind
  <2>2. CASE q = b - 1
    BY <1>4, <2>2
  <2>3. CASE q # b - 1
    <3>1. Held(s, q) /\ Cell(t, q) = Cell(s, q)
      BY <1>2, <2>1, <2>3
    <3> QED BY <1>4, <3>1 DEF Behind
  <2> QED BY <2>2, <2>3
<1> QED BY <1>3, <1>4

\* The end of the line, left by a dead writer, is freed.
LEMMA RunDrops ==
  ASSUME NEW s \in [0 .. Cap - 1 -> SlotSet], NEW f \in Nat, NEW b \in Nat, NEW t,
         Run(s, f, b), LastNamed(s, f, b), b - 1 \in Span(f), Writes(t, s, b - 1, FreeSlot),
         ~Held(s, b - 1)
  PROVE  /\ Run(t, f, b - 1)
         /\ \A q \in Span(f) : ~NamedIn(t, q)
         /\ Rising(s, f) => Rising(t, f)
         /\ \A y : Behind(s, f, y) => Behind(t, f, y)
         /\ \A n \in Int : Numbers(s, f, b, n) => Numbers(t, f, b - 1, n - 1)
         /\ PinsOld(t, s, f)
<1>1. b \in f .. f + Cap /\ Cap \in Nat \ {0}
  BY CapAssumption DEF Run
<1>2. Cell(t, b - 1) = FreeSlot /\ \A q \in Span(f) : q # b - 1 => Cell(t, q) = Cell(s, q)
  BY OneWritten
<1>3. \A q \in Span(f) : q \in Nat /\ f <= q /\ q < f + Cap
  BY SpanIn
<1>4. FreeSlot.state = "FREE" /\ ~Held(t, b - 1)
  BY <1>2 DEF FreeSlot, Held
<1>5. Run(t, f, b - 1)
  <2>1. b - 1 \in f .. f + Cap
    BY <1>1, <1>3
  <2>2. SUFFICES ASSUME NEW q \in Span(f) PROVE Cell(t, q).state # "FREE" <=> q < b - 1
    BY <2>1 DEF Run
  <2>3. CASE q = b - 1
    <3>1. ~(q < b - 1)
      BY <1>3, <2>3
    <3> QED BY <1>2, <1>4, <2>3, <3>1
  <2>4. CASE q # b - 1
    <3>1. Cell(t, q) = Cell(s, q) /\ (Cell(s, q).state # "FREE" <=> q < b)
      BY <1>2, <2>4 DEF Run
    <3>2. q < b <=> q < b - 1
      BY <1>1, <1>3, <2>4
    <3> QED BY <3>1, <3>2
  <2> QED BY <2>3, <2>4
<1>6. ASSUME NEW q \in Span(f) PROVE ~NamedIn(t, q)
  <2>1. CASE q = b - 1
    BY <1>2, <1>4, <2>1 DEF NamedIn
  <2>2. CASE q # b - 1
    <3>1. Cell(t, q) = Cell(s, q) /\ ~NamedIn(s, q)
      BY <1>2, <2>2 DEF LastNamed
    <3> QED BY <3>1 DEF NamedIn
  <2> QED BY <2>1, <2>2
<1>7. /\ Rising(s, f) => Rising(t, f)
      /\ \A y : Behind(s, f, y) => Behind(t, f, y)
  BY <1>2, <1>4, RewritesNothing
<1>8. ASSUME NEW n \in Int, Numbers(s, f, b, n) PROVE Numbers(t, f, b - 1, n - 1)
  <2>1. SUFFICES ASSUME NEW q \in f .. (b - 1) - 1 PROVE Cell(t, q).seq + ((b - 1) - q) = n - 1
    BY DEF Numbers
  <2>2. q \in f .. b - 1 /\ q # b - 1 /\ q \in Nat /\ q \in Span(f)
    BY <1>1 DEF Span
  <2>3. Cell(t, q) = Cell(s, q) /\ Cell(s, q).seq + (b - q) = n
    BY <1>2, <1>8, <2>2 DEF Numbers
  <2>4. Cell(s, q).seq \in Nat
    BY <2>2, SpanIn DEF Cell, SlotSet
  <2> QED BY <1>1, <2>2, <2>3, <2>4
<1>9. ASSUME NEW q \in Span(f), Cell(t, q).state = "PINNED" PROVE Cell(s, q).state = "PINNED"
  BY <1>2, <1>4, <1>9
<1> QED BY <1>5, <1>6, <1>7, <1>8, <1>9 DEF PinsOld

\* What is not FREE after the front was freed.
LEMMA ReleasedRest ==
  ASSUME NEW s \in [0 .. Cap - 1 -> SlotSet], NEW f \in Nat, NEW t, Writes(t, s, f, FreeSlot)
  PROVE  \A q \in Span(f + 1) : Cell(t, q).state # "FREE" =>
           q \in Span(f) /\ q # f /\ Cell(t, q) = Cell(s, q)
<1>1. Cap \in Nat \ {0} /\ f \in Span(f) /\ f + 1 \in Nat
  BY CapAssumption DEF Span
<1>2. Cell(t, f) = FreeSlot /\ \A q \in Span(f) : q # f => Cell(t, q) = Cell(s, q)
  BY <1>1, OneWritten
<1>3. \A q \in Span(f + 1) : q \in Nat /\ f + 1 <= q /\ q < f + 1 + Cap
  BY <1>1, SpanIn
<1>4. FreeSlot.state = "FREE"
  BY DEF FreeSlot
<1>5. \A q \in Span(f + 1) : q # f + Cap => q \in Span(f) /\ q # f
  BY <1>1, <1>3 DEF Span
<1>6. Cell(t, f + Cap) = FreeSlot
  BY <1>1, <1>2, NextLap DEF Cell
<1>7. ASSUME NEW q \in Span(f + 1), Cell(t, q).state # "FREE"
      PROVE  q \in Span(f) /\ q # f /\ Cell(t, q) = Cell(s, q)
  <2>1. q # f + Cap
    BY <1>4, <1>6, <1>7
  <2> QED BY <1>2, <1>5, <2>1
<1> QED BY <1>7

\* The front of the line is taken out.
LEMMA RunReleases ==
  ASSUME NEW s \in [0 .. Cap - 1 -> SlotSet], NEW f \in Nat, NEW b \in Nat, NEW t,
         Run(s, f, b), LastNamed(s, f, b), Held(s, f), Writes(t, s, f, FreeSlot)
  PROVE  /\ Run(t, f + 1, b)
         /\ LastNamed(t, f + 1, b)
         /\ Rising(s, f) => Rising(t, f + 1) /\ Behind(t, f + 1, Cell(s, f).frame.id)
         /\ \A y : Behind(s, f, y) => Behind(t, f + 1, y)
         /\ \A n : Numbers(s, f, b, n) => Numbers(t, f + 1, b, n)
<1>1. b \in f .. f + Cap /\ Cap \in Nat \ {0} /\ f \in Span(f) /\ f + 1 \in Nat
  BY CapAssumption DEF Run, Span
<1>2. Cell(t, f) = FreeSlot /\ \A q \in Span(f) : q # f => Cell(t, q) = Cell(s, q)
  BY <1>1, OneWritten
<1>3. \A q \in Span(f + 1) : q \in Nat /\ f + 1 <= q /\ q < f + 1 + Cap
  BY <1>1, SpanIn
<1>4. FreeSlot.state = "FREE"
  BY DEF FreeSlot
<1>5. b > f
  <2>1. f < b
    BY <1>1 DEF Run, Held
  <2> QED BY <2>1
<1>6. \A q \in Span(f + 1) : q # f + Cap => q \in Span(f) /\ q # f
  BY <1>1, <1>3 DEF Span
<1>7. Cell(t, f + Cap) = FreeSlot
  BY <1>1, <1>2, NextLap DEF Cell
<1>8. ASSUME NEW q \in Span(f + 1), Cell(t, q).state # "FREE"
      PROVE  q \in Span(f) /\ q # f /\ Cell(t, q) = Cell(s, q)
  BY <1>8, ReleasedRest
<1>9. Run(t, f + 1, b)
  <2>1. b \in f + 1 .. f + 1 + Cap
    BY <1>1, <1>5
  <2>2. SUFFICES ASSUME NEW q \in Span(f + 1) PROVE Cell(t, q).state # "FREE" <=> q < b
    BY <2>1 DEF Run
  <2>3. CASE q = f + Cap
    <3>1. ~(q < b)
      BY <1>1, <2>3
    <3> QED BY <1>4, <1>7, <2>3, <3>1
  <2>4. CASE q # f + Cap
    <3>1. q \in Span(f) /\ q # f
      BY <1>6, <2>4
    <3> QED BY <1>2, <3>1 DEF Run
  <2> QED BY <2>3, <2>4
<1>10. LastNamed(t, f + 1, b)
  <2>1. SUFFICES ASSUME NEW q \in Span(f + 1), NamedIn(t, q) PROVE q = b - 1
    BY DEF LastNamed
  <2>2. q \in Span(f) /\ NamedIn(s, q)
    BY <1>8, <2>1 DEF NamedIn
  <2> QED BY <2>2 DEF LastNamed
<1>11. \A q \in Span(f + 1) : Held(t, q) => q \in Span(f) /\ q # f /\ Held(s, q) /\ Cell(t, q) = Cell(s, q)
  BY <1>8 DEF Held
<1>12. Rising(s, f) => Rising(t, f + 1)
  BY <1>11 DEF Rising
<1>13. ASSUME Rising(s, f) PROVE Behind(t, f + 1, Cell(s, f).frame.id)
  <2>1. SUFFICES ASSUME NEW q \in Span(f + 1), Held(t, q) PROVE Cell(s, f).frame.id < Cell(t, q).frame.id
    BY DEF Behind
  <2>2. q \in Span(f) /\ Held(s, q) /\ Cell(t, q) = Cell(s, q)
    BY <1>11, <2>1
  <2>3. f < q
    BY <1>1, <1>3, <2>1
  <2> QED BY <1>1, <1>13, <2>2, <2>3 DEF Rising
<1>14. \A y : Behind(s, f, y) => Behind(t, f + 1, y)
  BY <1>11 DEF Behind
<1>15. ASSUME NEW n, Numbers(s, f, b, n) PROVE Numbers(t, f + 1, b, n)
  <2>1. SUFFICES ASSUME NEW q \in f + 1 .. b - 1 PROVE Cell(t, q).seq + (b - q) = n
    BY DEF Numbers
  <2>2. q \in f .. b - 1 /\ q \in Span(f) /\ q # f
    BY <1>1 DEF Span
  <2> QED BY <1>2, <1>15, <2>2 DEF Numbers
<1> QED BY <1>9, <1>10, <1>12, <1>13, <1>14, <1>15

-----------------------------------------------------------------------------
(* The ring as one line                                                    *)

InSlot == {"stamp", "fill", "commit"}
Up == pr.pc \notin Opening \cup {"dead"}

\* The line starts at the tail, or past the slot the consumer just released.
Front == IF ConsAt("advance") THEN tail + 1 ELSE tail

\* The producer writes at the end of the line; an opening searches for it.
HandleAt(b) ==
  /\ Up /\ pr.pc \notin InSlot => pr.idx = b % Cap
  /\ pr.pc \in InSlot => Front < b /\ pr.idx = (b - 1) % Cap
  /\ At("infer") => pr.k <= b - tail /\ pr.idx = (tail + pr.k) % Cap

PinsRead == \A q \in Span(Front) : Cell(slots, q).state = "PINNED" => q = tail /\ ConsAt("release")

Line(b) ==
  /\ Run(slots, Front, b) /\ LastNamed(slots, Front, b)
  /\ PinsRead /\ HandleAt(b)

\* What was received was sent before all the line holds.
GotRises == \A i, j \in 1 .. Len(got) : i < j => got[i] < got[j]
GotBelow(x) == \A i \in 1 .. Len(got) : got[i] < x
InTurn ==
  /\ Rising(slots, Front)
  /\ \A i \in 1 .. Len(got) : Behind(slots, Front, got[i])
  /\ ConsAt("advance") => Behind(slots, Front, cons.first.id) /\ GotBelow(cons.first.id)

\* A number the consumer did not expect was refused: the slot stays PINNED.
Stuck ==
  /\ met # {} /\ slots[tail % Cap].state = "PINNED"
  /\ cons.pc \in {"idle", "dead", "gate", "verify", "second", "reclaim", "scan", "expect"}
  /\ ConsAt("verify") => cons.k = tail % Cap

LEMMA FrontTyped ==
  ASSUME Typed
  PROVE  Front \in Nat /\ tail \in Nat /\ (Front = tail \/ Front = tail + 1)
         /\ slots \in [0 .. Cap - 1 -> SlotSet] /\ Cap \in Nat \ {0}
         /\ tail \in Span(tail) /\ Front \in Span(Front)
<1>1. tail \in Nat /\ Cap \in Nat \ {0} /\ slots \in [0 .. Cap - 1 -> SlotSet]
  BY PrTyped, ConsTyped
<1>2. Front = tail \/ Front = tail + 1
  BY DEF Front
<1>3. Front \in Nat
  BY <1>1, <1>2
<1>4. \A f \in Nat : f \in Span(f)
  BY <1>1 DEF Span
<1> QED BY <1>1, <1>2, <1>3, <1>4

\* A step of the consumer that writes no slot and does not move on in the line.
LEMMA LineSame ==
  ASSUME Typed, NEW b \in Nat, Line(b), UNCHANGED <<tail, slots, pr>>,
         cons.pc \notin {"release", "advance"}, cons'.pc \notin {"release", "advance"}
  PROVE  Line(b)'
<1>1. Front' = Front
  BY DEF Front, ConsAt
<1>2. \A q \in Span(Front) : Cell(slots, q).state # "PINNED"
  BY DEF Line, PinsRead, ConsAt
<1>3. PinsRead'
  BY <1>1, <1>2 DEF PinsRead
<1>4. HandleAt(b)'
  BY <1>1 DEF HandleAt, Line, Up, At
<1> QED BY <1>1, <1>3, <1>4 DEF Line

LEMMA TurnSame ==
  ASSUME Typed, InTurn, UNCHANGED <<tail, slots, got>>,
         cons.pc \notin {"release", "advance"}, cons'.pc \notin {"release", "advance"}
  PROVE  InTurn'
BY DEF InTurn, Front, ConsAt

\* Where a dead writer's slot is: at the end, and no live producer is there.
LEMMA DeadIsLast ==
  ASSUME Base, Names, NEW b \in Nat, Line(b), NEW i \in Index, DeadWriting(i)
  PROVE  /\ b - 1 \in Span(Front) /\ b - 1 \in Nat /\ i = (b - 1) % Cap
         /\ ~Held(slots, b - 1) /\ NamedIn(slots, b - 1) /\ ~Up
<1>1. Typed /\ WriterInv /\ Front \in Nat /\ Index = 0 .. Cap - 1
  BY FrontTyped DEF Base, Index
<1>2. PICK q \in Span(Front) : q \in Nat /\ q % Cap = i
  BY <1>1, SpanIndex
<1>3. NamedIn(slots, q)
  BY <1>2 DEF NamedIn, Cell, DeadWriting
<1>4. q = b - 1
  BY <1>3 DEF Line, LastNamed
<1>5. ~Held(slots, q)
  BY <1>3 DEF NamedIn, Held
<1>6. Named(i)
  BY DEF DeadWriting, Named
<1>7. ~Up
  <2>1. SUFFICES ASSUME Up PROVE FALSE
    OBVIOUS
  <2>2. pr.pc \in {"fill", "commit"}
    <3>1. pr.pc \in {"idle", "claim", "mark", "stamp", "fill", "commit", "publish"}
      BY <1>1, <2>1, PrTyped DEF ProducerPcs, Up, Writing
    <3> QED BY <1>6, <3>1 DEF Names
  <2>3. i = pr.idx
    BY <1>6, <2>2 DEF Names
  <2>4. slots[i].owner = pr.inc
    BY <1>1, <2>2, <2>3 DEF WriterInv
  <2> QED BY <2>2, <2>4 DEF DeadWriting, Gone
<1> QED BY <1>2, <1>3, <1>4, <1>5, <1>7

\* Somebody frees it.
LEMMA LineDrops ==
  ASSUME Typed, NEW b \in Nat, Line(b), b - 1 \in Span(Front), b - 1 \in Nat, ~Held(slots, b - 1),
         Writes(slots', slots, b - 1, FreeSlot), UNCHANGED tail,
         cons.pc \notin {"release", "advance"}, cons'.pc \notin {"release", "advance"},
         pr'.pc \in {"dead", "reclaim", "scan"}
  PROVE  Line(b - 1)'
<1>1. Front' = Front /\ Front \in Nat /\ slots \in [0 .. Cap - 1 -> SlotSet]
  BY FrontTyped DEF Front, ConsAt
<1>2. Run(slots, Front, b) /\ LastNamed(slots, Front, b)
  BY DEF Line
<1>d. Run(slots', Front, b - 1)
  BY <1>1, <1>2, RunDrops
<1>e. \A q \in Span(Front) : ~NamedIn(slots', q)
  BY <1>1, <1>2, RunDrops
<1>g. PinsOld(slots', slots, Front)
  BY <1>1, <1>2, RunDrops
<1>3. /\ Run(slots', Front, b - 1)
      /\ \A q \in Span(Front) : ~NamedIn(slots', q)
      /\ \A q \in Span(Front) : Cell(slots', q).state = "PINNED" => Cell(slots, q).state = "PINNED"
  BY <1>d, <1>e, <1>g DEF PinsOld
<1>4. \A q \in Span(Front) : Cell(slots', q).state # "PINNED"
  BY <1>3 DEF Line, PinsRead, ConsAt
<1>5. PinsRead'
  BY <1>1, <1>4 DEF PinsRead
<1>6. HandleAt(b - 1)'
  BY DEF HandleAt, Up, Opening, InSlot, At
<1>7. LastNamed(slots', Front, b - 1)
  BY <1>3 DEF LastNamed
<1> QED BY <1>1, <1>3, <1>5, <1>6, <1>7 DEF Line

LEMMA TurnDrops ==
  ASSUME Typed, InTurn, NEW b \in Nat, Line(b), b - 1 \in Span(Front), ~Held(slots, b - 1),
         Writes(slots', slots, b - 1, FreeSlot), UNCHANGED <<tail, got>>,
         cons.pc \notin {"release", "advance"}, cons'.pc \notin {"release", "advance"}
  PROVE  InTurn'
<1>1. Front' = Front /\ Front \in Nat /\ slots \in [0 .. Cap - 1 -> SlotSet]
  BY FrontTyped DEF Front, ConsAt
<1>2. Run(slots, Front, b) /\ LastNamed(slots, Front, b)
  BY DEF Line
<1>3. /\ Rising(slots, Front) => Rising(slots', Front)
      /\ \A y : Behind(slots, Front, y) => Behind(slots', Front, y)
  BY <1>1, <1>2, RunDrops
<1> QED BY <1>1, <1>3 DEF InTurn, ConsAt

\* The handle's place in the line is unchanged when only the consumer steps.
LEMMA HandleKeeps ==
  ASSUME NEW b \in Nat, HandleAt(b), UNCHANGED pr,
         tail' = tail \/ ~At("infer"), Front' = Front \/ (pr.pc \in InSlot => Front' < b)
  PROVE  HandleAt(b)'
BY DEF HandleAt, Up, At

LEMMA TailRead ==
  ASSUME Single, cons.pc \in Reading
  PROVE  TailIdx = tail % Cap /\ slots[TailIdx] = Cell(slots, tail)
BY DEF Single, TailIdx, Cell

\* The consumer pins the first slot of the line.
LEMMA LinePins ==
  ASSUME Base, Single, NEW b \in Nat, Line(b), PinSlot, ~Rejected
  PROVE  /\ Line(b)' /\ (InTurn => InTurn')
         /\ \A n : Numbers(slots, Front, b, n) /\ cons.seq = Cell(slots, tail).seq =>
              Numbers(slots', Front', b, n)
         /\ \A q \in Span(Front) : NamedIn(slots', q) => NamedIn(slots, q)
<1>1. /\ Typed /\ ReaderInv /\ Front \in Nat /\ tail \in Nat /\ tail \in Span(tail)
      /\ slots \in [0 .. Cap - 1 -> SlotSet]
  BY FrontTyped DEF Base
<1>2. /\ cons.pc = "pin" /\ slots' = [slots EXCEPT ![TailIdx] = Pinned] /\ cons'.pc = "release"
      /\ UNCHANGED <<tail, pr, got>>
  BY <1>1, PinEffect DEF Ended
<1>3. TailIdx = tail % Cap /\ slots[TailIdx] = Cell(slots, tail)
  BY <1>2, TailRead DEF Reading
<1>4. /\ Writes(slots', slots, tail, Pinned) /\ Pinned.state = "PINNED" /\ Pinned.seq = cons.seq
      /\ Pinned.frame = Cell(slots, tail).frame
  BY <1>2, <1>3 DEF Writes, Pinned
<1>5. Front = tail /\ Front' = tail
  BY <1>2 DEF Front, ConsAt
<1>6. Held(slots, tail)
  BY <1>1, <1>2, <1>3 DEF ReaderInv, Held
<1>7. Run(slots, tail, b) /\ LastNamed(slots, tail, b)
  BY <1>5 DEF Line
<1>8. tail < b
  BY <1>1, <1>6, <1>7 DEF Run, Held
<1>9. /\ Run(slots', tail, b) /\ LastNamed(slots', tail, b)
      /\ \A n : Numbers(slots, tail, b, n) /\ Pinned.seq = Cell(slots, tail).seq => Numbers(slots', tail, b, n)
      /\ \A q \in Span(tail) : q # tail => Cell(slots', q) = Cell(slots, q)
      /\ Cell(slots', tail) = Pinned
  <2>1. Pinned.state # "FREE" /\ Pinned.state # "WRITING"
    BY <1>4
  <2> QED BY <1>1, <1>4, <1>7, <1>8, <2>1, RunRewrites
<1>10. PinsRead'
  <2>1. SUFFICES ASSUME NEW q \in Span(tail), Cell(slots', q).state = "PINNED" PROVE q = tail
    BY <1>2, <1>5 DEF PinsRead, ConsAt
  <2>2. SUFFICES ASSUME q # tail PROVE FALSE
    OBVIOUS
  <2>3. Cell(slots, q).state = "PINNED"
    BY <1>9, <2>1, <2>2
  <2> QED BY <1>5, <2>2, <2>3 DEF Line, PinsRead
<1>11. HandleAt(b)'
  BY <1>2, <1>5, HandleKeeps DEF Line
<1>12. /\ Rising(slots, tail) => Rising(slots', tail)
       /\ \A y : Behind(slots, tail, y) => Behind(slots', tail, y)
  BY <1>1, <1>4, <1>6, <1>9, RewritesHeld
<1>13. InTurn => InTurn'
  BY <1>2, <1>5, <1>12 DEF InTurn, ConsAt
<1>14. \A q \in Span(tail) : NamedIn(slots', q) => NamedIn(slots, q)
  BY <1>4, <1>9 DEF NamedIn
<1> QED BY <1>4, <1>5, <1>9, <1>10, <1>11, <1>13, <1>14 DEF Line

\* It takes the slot out of the line, and counts it passed.
LEMMA LineReleases ==
  ASSUME Base, Single, Ids, NEW b \in Nat, Line(b), FreeTail
  PROVE  /\ Line(b)' /\ (InTurn => InTurn') /\ Front = tail /\ Front' = tail + 1
         /\ \A n : Numbers(slots, Front, b, n) => Numbers(slots', Front', b, n)
         /\ \A q \in Span(Front') : NamedIn(slots', q) => q \in Span(Front) /\ NamedIn(slots, q)
<1>1. /\ Typed /\ ReaderInv /\ WriterInv /\ Front \in Nat /\ tail \in Nat
      /\ slots \in [0 .. Cap - 1 -> SlotSet] /\ tail \in Span(tail)
  BY FrontTyped DEF Base
<1>2. /\ cons.pc = "release" /\ slots' = [slots EXCEPT ![TailIdx] = FreeSlot] /\ cons'.pc = "advance"
      /\ UNCHANGED <<tail, pr, got>> /\ cons'.first = cons.first
  BY <1>1, FreeTailEffect DEF CallKept
<1>3. TailIdx = tail % Cap /\ slots[TailIdx] = Cell(slots, tail)
  BY <1>2, TailRead DEF Reading
<1>4. Writes(slots', slots, tail, FreeSlot)
  BY <1>2, <1>3 DEF Writes
<1>5. Front = tail /\ Front' = tail + 1
  BY <1>2 DEF Front, ConsAt
<1>6. Held(slots, tail) /\ Cell(slots, tail).state = "PINNED"
  BY <1>1, <1>2, <1>3 DEF ReaderInv, Held, ConsAt
<1>7. Run(slots, tail, b) /\ LastNamed(slots, tail, b)
  BY <1>5 DEF Line
<1>8. /\ Run(slots', tail + 1, b) /\ LastNamed(slots', tail + 1, b)
      /\ Rising(slots, tail) => Rising(slots', tail + 1) /\ Behind(slots', tail + 1, Cell(slots, tail).frame.id)
      /\ \A y : Behind(slots, tail, y) => Behind(slots', tail + 1, y)
      /\ \A n : Numbers(slots, tail, b, n) => Numbers(slots', tail + 1, b, n)
  BY <1>1, <1>4, <1>6, <1>7, RunReleases
<1>9. \A q \in Span(tail + 1) : Cell(slots', q).state # "FREE" =>
        q \in Span(tail) /\ q # tail /\ Cell(slots', q) = Cell(slots, q)
  BY <1>1, <1>4, ReleasedRest
<1>10. PinsRead'
  <2>1. SUFFICES ASSUME NEW q \in Span(tail + 1), Cell(slots', q).state = "PINNED" PROVE FALSE
    BY <1>5 DEF PinsRead
  <2>2. q \in Span(tail) /\ q # tail /\ Cell(slots, q).state = "PINNED"
    BY <1>9, <2>1
  <2> QED BY <1>5, <2>2 DEF Line, PinsRead
<1>11. HandleAt(b)'
  <2>1. pr.pc \in InSlot => tail + 1 < b
    <3>1. SUFFICES ASSUME pr.pc \in InSlot PROVE tail + 1 < b
      OBVIOUS
    <3>2. tail < b /\ pr.idx = (b - 1) % Cap
      BY <1>5, <3>1 DEF Line, HandleAt
    <3>3. slots[pr.idx].state = "WRITING"
      BY <1>1, <3>1 DEF WriterInv, InSlot, At
    <3>4. b - 1 # tail
      BY <1>6, <3>2, <3>3 DEF Cell
    <3> QED BY <1>1, <3>2, <3>4
  <2> QED BY <1>2, <1>5, <2>1, HandleKeeps DEF Line
<1>12. InTurn => InTurn'
  <2>1. SUFFICES ASSUME InTurn PROVE InTurn'
    OBVIOUS
  <2>2. cons.first.id = Cell(slots, tail).frame.id
    BY <1>2, <1>3 DEF Ids, ConsAt
  <2>3. Rising(slots', tail + 1) /\ Behind(slots', tail + 1, cons'.first.id)
    BY <1>2, <1>5, <1>8, <2>1, <2>2 DEF InTurn
  <2>4. \A i \in 1 .. Len(got) : Behind(slots', tail + 1, got[i])
    BY <1>5, <1>8, <2>1 DEF InTurn
  <2>5. GotBelow(cons.first.id)
    BY <1>1, <1>5, <1>6, <2>1, <2>2 DEF InTurn, GotBelow, Behind
  <2> QED BY <1>2, <1>5, <2>3, <2>4, <2>5 DEF InTurn, GotBelow
<1>13. \A q \in Span(tail + 1) : NamedIn(slots', q) => q \in Span(tail) /\ NamedIn(slots, q)
  BY <1>9 DEF NamedIn
<1> QED BY <1>5, <1>8, <1>10, <1>11, <1>12, <1>13 DEF Line

\* The tail follows, and the message is returned.
LEMMA LineAdvances ==
  ASSUME Base, Single, NEW b \in Nat, Line(b), AdvanceTail
  PROVE  /\ Line(b)' /\ (InTurn /\ GotRises => InTurn' /\ GotRises')
         /\ Front = tail + 1 /\ Front' = Front /\ tail' = tail + 1
<1>1. /\ Typed /\ ReaderInv /\ Front \in Nat /\ tail \in Nat /\ got \in Seq(Nat)
      /\ slots \in [0 .. Cap - 1 -> SlotSet] /\ cons.first.id \in Nat
  BY FrontTyped, ConsTyped DEF Base, Typed, FrameSet
<1>2. /\ cons.pc = "advance" /\ cons'.pc = "idle" /\ tail' = cons.t + 1
      /\ UNCHANGED <<pr, slots>>
      /\ got' = got \/ got' = Append(got, cons.first.id)
  BY <1>1, AdvanceEffect DEF Ended
<1>3. cons.t = tail
  BY <1>2 DEF Single, Reading
<1>4. Front = tail + 1 /\ Front' = tail + 1 /\ tail' = tail + 1
  BY <1>2, <1>3 DEF Front, ConsAt
<1>5. \A q \in Span(Front) : Cell(slots, q).state # "PINNED"
  BY <1>2 DEF Line, PinsRead, ConsAt
<1>6. PinsRead'
  BY <1>2, <1>4, <1>5 DEF PinsRead
<1>7. HandleAt(b)'
  <2>1. ~At("infer")
    BY <1>1, <1>2 DEF ReaderInv, Opening, At
  <2> QED BY <1>2, <1>4, <2>1, HandleKeeps DEF Line
<1>8. ASSUME InTurn, GotRises PROVE InTurn' /\ GotRises'
  <2>1. /\ Rising(slots, Front) /\ \A i \in 1 .. Len(got) : Behind(slots, Front, got[i])
        /\ Behind(slots, Front, cons.first.id) /\ GotBelow(cons.first.id)
    BY <1>2, <1>8 DEF InTurn, ConsAt
  <2>2. CASE got' = got
    BY <1>2, <1>4, <1>8, <2>1, <2>2 DEF InTurn, ConsAt, GotRises
  <2>3. CASE got' = Append(got, cons.first.id)
    <3>1. /\ Len(got') = Len(got) + 1 /\ Len(got) \in Nat /\ got'[Len(got) + 1] = cons.first.id
          /\ \A i \in 1 .. Len(got) : got'[i] = got[i]
      BY <1>1, <2>3
    <3>2. \A i \in 1 .. Len(got') : i \in 1 .. Len(got) \/ i = Len(got) + 1
      BY <3>1
    <3>3. \A i \in 1 .. Len(got') : Behind(slots, Front, got'[i])
      BY <2>1, <3>1, <3>2
    <3>4. InTurn'
      BY <1>2, <1>4, <2>1, <3>3 DEF InTurn, ConsAt
    <3>5. SUFFICES ASSUME NEW i \in 1 .. Len(got'), NEW j \in 1 .. Len(got'), i < j
                   PROVE  got'[i] < got'[j]
      BY <3>4 DEF GotRises
    <3>6. i \in 1 .. Len(got)
      BY <3>1, <3>5
    <3>7. CASE j \in 1 .. Len(got)
      BY <1>8, <3>1, <3>5, <3>6, <3>7 DEF GotRises
    <3>8. CASE j = Len(got) + 1
      BY <2>1, <3>1, <3>6, <3>8 DEF GotBelow
    <3> QED BY <3>2, <3>7, <3>8
  <2> QED BY <1>2, <2>2, <2>3
<1> QED BY <1>2, <1>4, <1>6, <1>7, <1>8 DEF Line

-----------------------------------------------------------------------------
(* The producer's steps along the line                                     *)

\* The slot it found FREE is at the end.
LEMMA EndFree ==
  ASSUME Typed, NEW b \in Nat, Line(b), slots[b % Cap].state = "FREE"
  PROVE  b < Front + Cap
<1>1. Front \in Nat /\ Cap \in Nat \ {0} /\ Front \in Span(Front)
  BY FrontTyped
<1>2. b \in Front .. Front + Cap /\ (Cell(slots, Front).state # "FREE" <=> Front < b)
  BY <1>1 DEF Line, Run
<1>3. SUFFICES ASSUME b = Front + Cap PROVE FALSE
  BY <1>1, <1>2
<1>4. b % Cap = Front % Cap
  BY <1>1, <1>3, NextLap
<1>5. Front < b
  BY <1>1, <1>3
<1> QED BY <1>2, <1>4, <1>5 DEF Cell

LEMMA LineTakes ==
  ASSUME Base, Names, NEW b \in Nat, Line(b), MarkSlot
  PROVE  /\ Line(b + 1)' /\ (InTurn => InTurn') /\ Front' = Front /\ b < Front + Cap
         /\ \A n \in Nat : Numbers(slots, Front, b, n) /\ pr.next - 1 = n =>
              Numbers(slots', Front, b + 1, n + 1)
         /\ \A q \in Span(Front) : ~NamedIn(slots', q)
<1>1. /\ Typed /\ WriterInv /\ Front \in Nat /\ slots \in [0 .. Cap - 1 -> SlotSet]
      /\ Cap \in Nat \ {0}
  BY FrontTyped DEF Base
<1>2. /\ pr.pc = "mark" /\ pr'.pc = "stamp" /\ Lot(Marked) /\ pr'.idx = pr.idx
      /\ UNCHANGED <<tail, cons, got>>
  BY <1>1, MarkEffect
<1>3. pr.idx = b % Cap /\ Front' = Front
  BY <1>2 DEF Line, HandleAt, Up, Opening, InSlot, Front, ConsAt
<1>4. slots[b % Cap].state = "FREE"
  BY <1>1, <1>2, <1>3 DEF WriterInv, At
<1>5. b < Front + Cap
  BY <1>1, <1>4, EndFree
<1>6. Writes(slots', slots, b, Marked) /\ Marked.state = "WRITING" /\ Marked.owner = 0
      /\ Marked.seq = pr.next - 1
  BY <1>2, <1>3 DEF Writes, Lot, Marked
<1>7. Run(slots, Front, b) /\ b >= Front /\ b \in Span(Front)
  <2>1. Run(slots, Front, b) /\ b \in Front .. Front + Cap
    BY DEF Line, Run
  <2> QED BY <1>1, <1>5, <2>1 DEF Span
<1>8. \A q \in Span(Front) : ~NamedIn(slots, q)
  <2>1. \A i \in Index : ~Named(i)
    BY <1>2 DEF Names
  <2>2. \A q \in Span(Front) : q % Cap \in Index
    BY <1>1, SpanIn DEF Index
  <2> QED BY <2>1, <2>2 DEF NamedIn, Named, Cell
<1>9. Run(slots', Front, b + 1) /\ LastNamed(slots', Front, b + 1)
  BY <1>1, <1>5, <1>6, <1>7, <1>8, RunTakes
<1>10. /\ Rising(slots, Front) => Rising(slots', Front)
       /\ \A y : Behind(slots, Front, y) => Behind(slots', Front, y)
  BY <1>1, <1>5, <1>6, <1>7, RunTakes
<1>11. \A n \in Nat : Numbers(slots, Front, b, n) /\ Marked.seq = n => Numbers(slots', Front, b + 1, n + 1)
  BY <1>1, <1>5, <1>6, <1>7, RunTakes
<1>12. PinsOld(slots', slots, Front)
  BY <1>1, <1>5, <1>6, <1>7, RunTakes
<1>13. PinsRead'
  BY <1>2, <1>3, <1>12 DEF PinsRead, PinsOld, Line, ConsAt
<1>14. HandleAt(b + 1)'
  <2>1. (b + 1) - 1 = b /\ Front < b + 1
    BY <1>1, <1>7
  <2> QED BY <1>2, <1>3, <2>1 DEF HandleAt, Up, Opening, InSlot, At
<1>15. InTurn => InTurn'
  BY <1>2, <1>3, <1>10 DEF InTurn, ConsAt, GotBelow
<1>16. \A q \in Span(Front) : ~NamedIn(slots', q)
  <2>1. Cell(slots', b) = Marked /\ \A q \in Span(Front) : q # b => Cell(slots', q) = Cell(slots, q)
    BY <1>1, <1>6, <1>7, OneWritten
  <2> QED BY <1>6, <1>8, <2>1 DEF NamedIn
<1> QED BY <1>3, <1>5, <1>6, <1>9, <1>11, <1>13, <1>14, <1>15, <1>16 DEF Line

\* A step of a send in its slot, the last of the line.
LEMMA LineWrites ==
  ASSUME Base, NEW b \in Nat, Line(b), pr.pc \in InSlot, NEW x, Lot(x),
         x.state \in {"WRITING", "COMMITTED"}, UNCHANGED <<tail, cons>>
  PROVE  /\ Run(slots', Front, b) /\ LastNamed(slots', Front, b) /\ PinsRead' /\ Front' = Front
         /\ b - 1 \in Span(Front) /\ b - 1 \in Nat /\ pr.idx = (b - 1) % Cap /\ Front < b
         /\ slots[pr.idx] = Cell(slots, b - 1) /\ ~Held(slots, b - 1) /\ Cell(slots', b - 1) = x
         /\ \A q \in Span(Front) : q # b - 1 => Cell(slots', q) = Cell(slots, q)
         /\ \A n : Numbers(slots, Front, b, n) /\ x.seq = Cell(slots, b - 1).seq =>
              Numbers(slots', Front, b, n)
<1>1. /\ Typed /\ WriterInv /\ Front \in Nat /\ slots \in [0 .. Cap - 1 -> SlotSet]
      /\ Cap \in Nat \ {0}
  BY FrontTyped DEF Base
<1>2. Front' = Front
  BY DEF Front, ConsAt
<1>3. pr.idx = (b - 1) % Cap /\ Front < b /\ b \in Front .. Front + Cap
  BY DEF Line, HandleAt, Run
<1>4. b - 1 \in Span(Front) /\ b - 1 \in Nat /\ b - 1 < b
  BY <1>1, <1>3 DEF Span
<1>5. slots[pr.idx] = Cell(slots, b - 1) /\ slots[pr.idx].state = "WRITING"
  BY <1>1, <1>3 DEF Cell, WriterInv, InSlot, At
<1>6. Writes(slots', slots, b - 1, x) /\ x.state # "FREE"
  BY <1>3 DEF Writes, Lot
<1>7. Run(slots, Front, b) /\ LastNamed(slots, Front, b)
  BY DEF Line
<1>8. /\ Run(slots', Front, b) /\ LastNamed(slots', Front, b)
      /\ \A n : Numbers(slots, Front, b, n) /\ x.seq = Cell(slots, b - 1).seq =>
           Numbers(slots', Front, b, n)
      /\ \A q \in Span(Front) : q # b - 1 => Cell(slots', q) = Cell(slots, q)
      /\ Cell(slots', b - 1) = x
  BY <1>1, <1>4, <1>6, <1>7, RunRewrites
<1>9. PinsRead'
  <2>1. SUFFICES ASSUME NEW q \in Span(Front), Cell(slots', q).state = "PINNED"
                 PROVE  q = tail /\ ConsAt("release")
    BY <1>2 DEF PinsRead, ConsAt
  <2>2. q # b - 1
    BY <1>8, <2>1
  <2>3. Cell(slots, q).state = "PINNED"
    BY <1>8, <2>1, <2>2
  <2> QED BY <2>3 DEF Line, PinsRead
<1>10. ~Held(slots, b - 1)
  BY <1>5 DEF Held
<1> QED BY <1>2, <1>3, <1>4, <1>5, <1>8, <1>9, <1>10

LEMMA LineFills ==
  ASSUME Base, NEW b \in Nat, Line(b), StampSlot \/ FillSlot
  PROVE  /\ Line(b)' /\ (InTurn => InTurn') /\ Front' = Front
         /\ \A n : Numbers(slots, Front, b, n) => Numbers(slots', Front, b, n)
<1>1. Typed
  BY DEF Base
<1>2. PICK x : /\ Lot(x) /\ x.state = slots[pr.idx].state /\ x.seq = slots[pr.idx].seq
               /\ pr.pc \in {"stamp", "fill"} /\ pr'.pc \in {"fill", "commit"} /\ pr'.idx = pr.idx
               /\ UNCHANGED <<tail, cons, got>>
  BY <1>1, StampEffect, FillEffect
<1>3. x.state = "WRITING" /\ pr.pc \in InSlot
  BY <1>2 DEF Base, WriterInv, At, InSlot
<1>4. /\ Run(slots', Front, b) /\ LastNamed(slots', Front, b) /\ PinsRead' /\ Front' = Front
      /\ b - 1 \in Span(Front) /\ pr.idx = (b - 1) % Cap /\ Front < b
      /\ slots[pr.idx] = Cell(slots, b - 1) /\ Cell(slots', b - 1) = x
      /\ \A q \in Span(Front) : q # b - 1 => Cell(slots', q) = Cell(slots, q)
  BY <1>2, <1>3, LineWrites
<1>5. \A n : Numbers(slots, Front, b, n) => Numbers(slots', Front, b, n)
  BY <1>2, <1>3, <1>4, LineWrites
<1>6. HandleAt(b)'
  BY <1>2, <1>4 DEF HandleAt, Up, Opening, InSlot, At
<1>7. ~Held(slots', b - 1)
  BY <1>3, <1>4 DEF Held
<1>8. /\ Rising(slots, Front) => Rising(slots', Front)
      /\ \A y : Behind(slots, Front, y) => Behind(slots', Front, y)
  BY <1>4, <1>7, RewritesNothing
<1>9. InTurn => InTurn'
  BY <1>2, <1>4, <1>8 DEF InTurn, ConsAt, GotBelow
<1> QED BY <1>4, <1>5, <1>6, <1>9 DEF Line

LEMMA LineCommits ==
  ASSUME Base, Single, Ids, NEW b \in Nat, Line(b), CommitSlot
  PROVE  /\ Line(b)' /\ (InTurn => InTurn') /\ Front' = Front
         /\ \A n : Numbers(slots, Front, b, n) /\ Cell(slots, b - 1).seq = pr.next - 1 =>
              Numbers(slots', Front, b, n)
<1>1. Typed /\ Front \in Nat /\ pr.id \in Nat /\ got \in Seq(Nat)
  BY FrontTyped, PrTyped DEF Base, Typed
<1>2. /\ Lot(Committed) /\ pr.pc = "commit" /\ pr'.pc = "publish" /\ pr'.idx = Next1(pr.idx)
      /\ UNCHANGED <<tail, cons, got>>
  BY <1>1, CommitEffect
<1>3. /\ Committed.state = "COMMITTED" /\ Committed.seq = pr.next - 1
      /\ Committed.frame = slots[pr.idx].frame /\ pr.pc \in InSlot
  BY <1>2 DEF Committed, InSlot
<1>4. /\ Run(slots', Front, b) /\ LastNamed(slots', Front, b) /\ PinsRead' /\ Front' = Front
      /\ b - 1 \in Span(Front) /\ b - 1 \in Nat /\ pr.idx = (b - 1) % Cap /\ Front < b
      /\ Cell(slots', b - 1) = Committed
      /\ \A q \in Span(Front) : q # b - 1 => Cell(slots', q) = Cell(slots, q)
  BY <1>2, <1>3, LineWrites
<1>5. \A n : Numbers(slots, Front, b, n) /\ Cell(slots, b - 1).seq = pr.next - 1 =>
           Numbers(slots', Front, b, n)
  BY <1>2, <1>3, LineWrites
<1>6. pr'.idx = b % Cap
  <2>1. (((b - 1) % Cap) + 1) % Cap = ((b - 1) + 1) % Cap
    BY <1>4, CapAssumption, NextSlot
  <2>2. (b - 1) + 1 = b
    OBVIOUS
  <2> QED BY <1>2, <1>4, <2>1, <2>2 DEF Next1
<1>7. HandleAt(b)'
  BY <1>2, <1>6 DEF HandleAt, Up, Opening, InSlot, At
<1>8. Committed.frame.id = pr.id
  BY <1>2, <1>3 DEF Ids, At
\* All that is held or was received was begun before.
<1>9. \A id \in Known : id < pr.id
  BY <1>2 DEF Known, Writing
<1>10. \A q \in Span(Front) : Held(slots, q) => Cell(slots, q).frame.id < Cell(slots', b - 1).frame.id
  <2>1. SUFFICES ASSUME NEW q \in Span(Front), Held(slots, q) PROVE Cell(slots, q).frame.id < pr.id
    BY <1>4, <1>8
  <2>2. Holds(q % Cap) /\ q % Cap \in Index
    BY <1>1, <2>1, SpanIn DEF Held, Holds, Cell, Index
  <2>3. Cell(slots, q).frame.id \in Known
    BY <2>2 DEF Ids, Cell
  <2> QED BY <1>9, <2>3
<1>11. /\ Rising(slots, Front) => Rising(slots', Front)
       /\ \A y : Behind(slots, Front, y) /\ y < pr.id => Behind(slots', Front, y)
  <2>1. Run(slots, Front, b)
    BY DEF Line
  <2> QED BY <1>1, <1>4, <1>8, <1>10, <2>1, RewritesLast
<1>12. InTurn => InTurn'
  <2>1. \A i \in 1 .. Len(got) : got[i] < pr.id
    BY <1>9 DEF Ids
  <2>2. ConsAt("advance") => cons.first.id < pr.id
    BY <1>9 DEF Ids
  <2>3. UNCHANGED <<cons, got>> /\ Front' = Front
    BY <1>2, <1>4
  <2>4. SUFFICES ASSUME InTurn PROVE InTurn'
    OBVIOUS
  <2>5. /\ Rising(slots', Front)
        /\ \A i \in 1 .. Len(got) : Behind(slots', Front, got[i])
        /\ ConsAt("advance") => Behind(slots', Front, cons.first.id) /\ GotBelow(cons.first.id)
    BY <1>11, <2>1, <2>2, <2>4 DEF InTurn
  <2> QED BY <2>3, <2>5 DEF InTurn, ConsAt, GotBelow
<1> QED BY <1>4, <1>5, <1>7, <1>12 DEF Line

\* A step of the producer that writes no slot.
LEMMA LineMoves ==
  ASSUME NEW b \in Nat, Line(b), UNCHANGED <<tail, slots, cons, got>>, HandleAt(b)'
  PROVE  Line(b)' /\ (InTurn => InTurn') /\ Front' = Front
<1>1. Front' = Front
  BY DEF Front, ConsAt
<1>2. PinsRead'
  BY <1>1 DEF Line, PinsRead, ConsAt
<1>3. InTurn => InTurn'
  BY <1>1 DEF InTurn, ConsAt, GotBelow
<1> QED BY <1>1, <1>2, <1>3 DEF Line

LEMMA HandleMoves ==
  ASSUME Base, NEW b \in Nat, Line(b),
         \/ \E n \in scenario.sizes : SendBegin(n)
         \/ ClaimSlot \/ PublishHead \/ Die \/ Open \/ OpenScan \/ OpenCursors \/ OpenInfer
  PROVE  HandleAt(b)'
<1>1. Typed /\ HandleAt(b) /\ Run(slots, Front, b) /\ ReaderInv
  BY DEF Base, Line
<1>f. Front \in Nat /\ tail \in Nat /\ (Front = tail \/ Front = tail + 1) /\ Cap \in Nat \ {0}
  BY <1>1, FrontTyped
<1>g. b \in Front .. Front + Cap
  BY <1>1 DEF Run
<1>m. ASSUME pr.pc \in {"idle", "claim", "publish"}, pr'.pc \in {"idle", "claim", "mark"},
             pr'.idx = pr.idx
      PROVE  HandleAt(b)'
  BY <1>1, <1>m DEF HandleAt, Up, Opening, InSlot, At
<1>d. ASSUME pr'.pc \in {"dead", "reclaim", "scan", "cursors"} PROVE HandleAt(b)'
  BY <1>d DEF HandleAt, Up, Opening, InSlot, At
<1>2. ASSUME NEW n \in scenario.sizes, SendBegin(n) PROVE HandleAt(b)'
  BY <1>2, <1>m, SendBeginEffect
<1>3. CASE ClaimSlot
  BY <1>1, <1>3, <1>m, ClaimEffect
<1>4. CASE PublishHead
  BY <1>1, <1>4, <1>m, PublishEffect
<1>5. CASE Die \/ Open \/ OpenScan
  BY <1>1, <1>5, <1>d, DieEffect, OpenEffect, ScanEffect
<1>6. CASE OpenCursors
  <2>1. \/ pr'.pc = "dead"
        \/ pr'.pc = "infer" /\ pr'.idx = tail % Cap /\ pr'.k = 0
    BY <1>1, <1>6, CursorsEffect
  <2>2. CASE pr'.pc = "infer" /\ pr'.idx = tail % Cap /\ pr'.k = 0
    <3>1. UNCHANGED tail
      BY <1>6 DEF OpenCursors
    <3>2. 0 <= b - tail /\ tail + 0 = tail
      BY <1>f, <1>g
    <3> QED BY <2>2, <3>1, <3>2 DEF HandleAt, Up, Opening, InSlot, At
  <2> QED BY <1>d, <2>1, <2>2
<1>7. CASE OpenInfer
  <2>1. /\ pr.pc = "infer" /\ UNCHANGED tail
        /\ IF slots[pr.idx].state # "FREE" /\ pr.k < Cap
             THEN pr'.pc = "infer" /\ pr'.idx = Next1(pr.idx) /\ pr'.k = pr.k + 1
             ELSE pr'.pc = "idle" /\ pr'.idx = pr.idx
    BY <1>1, <1>7, InferEffect
  <2>2. Front = tail
    BY <1>1, <2>1 DEF Front, ReaderInv, Opening, ConsAt
  <2>3. pr.k \in Nat /\ pr.k <= b - tail /\ pr.idx = (tail + pr.k) % Cap /\ pr.k <= Cap
    <3>1. pr.k \in 0 .. Cap
      BY <1>1, PrTyped
    <3> QED BY <1>1, <1>f, <2>1, <3>1 DEF HandleAt, At
  <2>4. PICK k \in Nat : k = pr.k
    BY <2>3
  <2>5. tail + k \in Nat /\ b \in tail .. tail + Cap /\ k <= b - tail
    BY <1>f, <1>g, <2>2, <2>3, <2>4
  <2>6. k < Cap => (slots[pr.idx].state # "FREE" <=> tail + k < b)
    <3>1. k < Cap => tail + k \in Span(tail)
      BY <1>f, <2>4 DEF Span
    <3> QED BY <1>1, <2>2, <2>3, <2>4, <3>1 DEF Run, Cell
  <2>7. CASE slots[pr.idx].state # "FREE" /\ k < Cap
    <3>1. pr'.pc = "infer" /\ pr'.idx = Next1(pr.idx) /\ pr'.k = k + 1
      BY <2>1, <2>4, <2>7
    <3>2. k + 1 <= b - tail /\ tail + (k + 1) = (tail + k) + 1
      BY <1>f, <2>4, <2>5, <2>6, <2>7
    <3>3. Next1(pr.idx) = (tail + (k + 1)) % Cap
      BY <1>f, <2>3, <2>4, <2>5, <3>2, NextSlot DEF Next1
    <3> QED BY <2>1, <3>1, <3>2, <3>3 DEF HandleAt, Up, Opening, InSlot, At
  <2>8. CASE ~(slots[pr.idx].state # "FREE" /\ k < Cap)
    <3>1. pr'.pc = "idle" /\ pr'.idx = pr.idx
      BY <2>1, <2>4, <2>8
    <3>2. tail + k = b
      <4>1. CASE k < Cap
        <5>1. ~(tail + k < b)
          BY <2>6, <2>8, <4>1
        <5> QED BY <1>f, <2>4, <2>5, <5>1
      <4>2. CASE ~(k < Cap)
        BY <1>f, <2>4, <2>5, <4>2
      <4> QED BY <4>1, <4>2
    <3> QED BY <2>3, <2>4, <3>1, <3>2 DEF HandleAt, Up, Opening, InSlot, At
  <2> QED BY <2>4, <2>7, <2>8
<1> QED BY <1>2, <1>3, <1>4, <1>5, <1>6, <1>7

-----------------------------------------------------------------------------
(* The numbers along the line, as long as no opening met what it cannot     *)
(* repair: n is the number after the last slot's                            *)

\* What the consumer may hold the next message to.
Expecting ==
  \/ ConsAt("idle") /\ ~cons.resync
  \/ cons.pc \in {"gate", "verify", "free", "second", "copy", "pin"} /\ ~cons.took
  \/ cons.pc \in {"release", "advance"}

LineNumbered(b, n) ==
  /\ Numbers(slots, Front, b, n)
  /\ head <= b /\ b <= tail + Cap
  /\ \A q \in Span(Front) : NamedIn(slots, q) => head <= q

TakerNumbered(b, n) ==
  /\ Expecting => cons.expected + (b - tail) = n
  /\ cons.pc \in {"copy", "pin"} => cons.seq = slots[TailIdx].seq
  /\ cons.pc \in {"scan", "expect"} /\ cons.readable => tail < b

\* How many of the first k slots of the ring a line of m slots from s covers.
Least(x, y) == IF x < y THEN x ELSE y
Covers(s, m, k) == Beyond(Least(k, s + m), s) + Least(k, Beyond(s + m, Cap))

Scanned(b, n) ==
  /\ \A i \in Index : i < pr.k /\ slots[i].state # "FREE" => slots[i].seq < pr.next
  /\ pr.next = 0 \/ (tail < b /\ pr.next <= n)
  /\ pr.pins = 0 /\ pr.occ = Covers(tail % Cap, b - tail, pr.k)
Counted(b, n) ==
  /\ pr.occ = b - tail /\ pr.pins = 0
  /\ pr.next = IF tail < b THEN n ELSE 0

MakerNumbered(b, n) ==
  /\ pr.pc \in {"idle", "infer"} => b = head + pr.bias /\ n = pr.next
  /\ pr.pc \in {"claim", "mark"} => b = head + pr.bias /\ n + 1 = pr.next /\ b < tail + Cap
  /\ pr.pc \in {"stamp", "fill", "commit", "publish"} => b = head + pr.bias + 1 /\ n = pr.next
  /\ At("scan") => Scanned(b, n)
  /\ At("cursors") => Counted(b, n)

Numbered(b, n) == LineNumbered(b, n) /\ TakerNumbered(b, n) /\ MakerNumbered(b, n)

\* What the guard admitted finds a FREE slot.
LEMMA RoomAtEnd ==
  ASSUME Typed, NEW b \in Nat, Line(b), NEW n \in Int, MakerNumbered(b, n), pr.pc \in {"claim", "mark"}
  PROVE  b \in Span(Front) /\ pr.idx = b % Cap /\ slots[pr.idx].state = "FREE"
<1>1. /\ Front \in Nat /\ tail \in Nat /\ (Front = tail \/ Front = tail + 1) /\ Cap \in Nat \ {0}
  BY FrontTyped
<1>2. b \in Front .. Front + Cap /\ b < tail + Cap /\ pr.idx = b % Cap
  BY DEF Line, Run, HandleAt, Up, Opening, InSlot, MakerNumbered
<1>3. b \in Span(Front) /\ ~(b < b)
  BY <1>1, <1>2 DEF Span
<1>4. Cell(slots, b).state = "FREE"
  BY <1>3 DEF Line, Run
<1> QED BY <1>2, <1>3, <1>4 DEF Cell

\* A committed slot at the tail is in the line, with the number that follows.
LEMMA TailNumber ==
  ASSUME Typed, NEW b \in Nat, Line(b), NEW n \in Int, LineNumbered(b, n), Front = tail,
         tail < b
  PROVE  Cell(slots, tail).seq + (b - tail) = n
<1>1. tail \in Nat /\ tail \in tail .. b - 1
  BY FrontTyped
<1> QED BY <1>1 DEF LineNumbered, Numbers

LEMMA TailTaken ==
  ASSUME Typed, NEW b \in Nat, Line(b), Front = tail, NEW i \in Index, slots[i].state # "FREE"
  PROVE  tail < b
<1>1. tail \in Nat /\ Index = 0 .. Cap - 1 /\ Run(slots, tail, b)
  BY FrontTyped DEF Line, Index
<1>2. PICK q \in Span(tail) : q \in Nat /\ q % Cap = i
  BY <1>1, SpanIndex
<1>3. q < b
  BY <1>1, <1>2 DEF Run, Cell
<1>4. tail <= q
  BY <1>1, <1>2, SpanIn
<1> QED BY <1>1, <1>2, <1>3, <1>4

-----------------------------------------------------------------------------
(* The consumer's steps                                                    *)

LEMMA MakerStays ==
  ASSUME Typed, NEW b \in Nat, NEW n \in Int, MakerNumbered(b, n), UNCHANGED <<pr, head>>,
         UNCHANGED <<tail, slots>> \/ (pr.pc \notin Opening /\ (tail' = tail \/ tail' = tail + 1))
  PROVE  MakerNumbered(b, n)'
<1>1. b < tail + Cap => b < tail' + Cap
  <2>1. tail \in Nat /\ Cap \in Nat
    BY FrontTyped
  <2> QED BY <2>1
<1>2. pr.pc \in {"scan", "cursors"} => UNCHANGED <<tail, slots>>
  BY DEF Opening
<1>3. At("scan")' => Scanned(b, n)'
  BY <1>2 DEF MakerNumbered, At, Scanned
<1>4. At("cursors")' => Counted(b, n)'
  BY <1>2 DEF MakerNumbered, At, Counted
<1> QED BY <1>1, <1>3, <1>4 DEF MakerNumbered

LEMMA LineNumberedStays ==
  ASSUME NEW b, NEW n, LineNumbered(b, n), UNCHANGED <<head, tail, slots>>, Front' = Front
  PROVE  LineNumbered(b, n)'
BY DEF LineNumbered

\* A step of the consumer that writes no slot and does not move on in the line.
LEMMA NumberedReads ==
  ASSUME Base, Single, NEW b \in Nat, Line(b), NEW n \in Int, Numbered(b, n),
         \/ RecvBegin \/ Gate \/ Verify \/ SecondLook \/ CopyPayload
         \/ ConsOpen \/ ConsOpenScan \/ ConsOpenExpect \/ ConsDie
  PROVE  /\ Numbered(b, n)' /\ UNCHANGED <<tail, slots, pr, got, met>>
         /\ cons.pc \notin {"release", "advance"} /\ cons'.pc \notin {"release", "advance"}
<1>1. Typed /\ LineNumbered(b, n) /\ TakerNumbered(b, n) /\ MakerNumbered(b, n) /\ ReaderInv
  BY DEF Base, Numbered
<1>2. UNCHANGED <<tail, slots, pr, head, got, met>>
  BY DEF RecvBegin, Gate, Verify, SecondLook, CopyPayload, ConsOpen, ConsOpenScan, ConsOpenExpect,
         ConsDie
<1>s. ASSUME cons.pc \notin {"release", "advance"}, cons'.pc \notin {"release", "advance"},
             TakerNumbered(b, n)'
      PROVE  Numbered(b, n)'
  <2>1. Front' = Front
    BY <1>2, <1>s DEF Front, ConsAt
  <2>2. LineNumbered(b, n)'
    BY <1>1, <1>2, <2>1, LineNumberedStays
  <2>3. MakerNumbered(b, n)'
    BY <1>1, <1>2, MakerStays
  <2> QED BY <1>s, <2>2, <2>3 DEF Numbered
<1>e. ASSUME NEW e, NEW r, Ended(e, r), ~r => e + (b - tail) = n
      PROVE  TakerNumbered(b, n)'
  BY <1>2, <1>e DEF TakerNumbered, Ended, Expecting, ConsAt
<1>3. CASE RecvBegin
  <2>1. cons.pc = "idle" /\ cons'.pc = "gate" /\ cons'.took = cons.resync /\ cons'.expected = cons.expected
    BY <1>1, <1>3, RecvBeginEffect
  <2>2. TakerNumbered(b, n)'
    BY <1>1, <1>2, <2>1 DEF TakerNumbered, Expecting, ConsAt
  <2> QED BY <1>2, <1>s, <2>1, <2>2
<1>4. CASE Gate
  <2>1. cons.pc = "gate"
    BY <1>1, <1>4, GateEffect
  <2>2. CASE Ended(cons.expected, cons.took)
    <3>1. ~cons.took => cons.expected + (b - tail) = n
      BY <1>1, <2>1 DEF TakerNumbered, Expecting
    <3> QED BY <1>2, <1>e, <1>s, <2>1, <2>2, <3>1 DEF Ended
  <2>3. CASE ~Ended(cons.expected, cons.took)
    <3>1. /\ CallKept
          /\ (cons'.pc = "copy" /\ cons'.seq = slots[TailIdx].seq) \/ cons'.pc = "verify"
      BY <1>1, <1>4, <2>3, GateEffect
    <3>2. TailIdx' = TailIdx
      BY <3>1 DEF CallKept, TailIdx
    <3>3. TakerNumbered(b, n)'
      BY <1>1, <1>2, <2>1, <3>1, <3>2 DEF TakerNumbered, Expecting, ConsAt, CallKept
    <3> QED BY <1>2, <1>s, <2>1, <3>1, <3>3
  <2> QED BY <2>2, <2>3
<1>5. CASE Verify
  <2>1. cons.pc = "verify"
    BY <1>1, <1>5, VerifyEffect
  <2>2. CASE Ended(cons.expected, cons.took)
    <3>1. ~cons.took => cons.expected + (b - tail) = n
      BY <1>1, <2>1 DEF TakerNumbered, Expecting
    <3> QED BY <1>2, <1>e, <1>s, <2>1, <2>2, <3>1 DEF Ended
  <2>3. CASE ~Ended(cons.expected, cons.took)
    <3>1. CallKept /\ cons'.pc \in {"free", "second"}
      BY <1>1, <1>5, <2>3, VerifyEffect
    <3>3. TakerNumbered(b, n)'
      BY <1>1, <1>2, <2>1, <3>1 DEF TakerNumbered, Expecting, ConsAt, CallKept
    <3> QED BY <1>2, <1>s, <2>1, <3>1, <3>3
  <2> QED BY <2>2, <2>3
<1>6. CASE SecondLook
  <2>1. cons.pc = "second" /\ cons.resync
    BY <1>1, <1>6, SecondEffect DEF Single
  <2>2. CASE Ended(cons.expected, cons.resync)
    BY <1>2, <1>e, <1>s, <2>1, <2>2 DEF Ended
  <2>3. CASE ~Ended(cons.expected, cons.resync)
    <3>1. CallKept /\ cons'.pc = "copy" /\ cons'.seq = slots[TailIdx].seq
      BY <1>1, <1>6, <2>3, SecondEffect
    <3>2. TailIdx' = TailIdx
      BY <3>1 DEF CallKept, TailIdx
    <3>3. TakerNumbered(b, n)'
      BY <1>1, <1>2, <2>1, <3>1, <3>2 DEF TakerNumbered, Expecting, ConsAt, CallKept
    <3> QED BY <1>2, <1>s, <2>1, <3>1, <3>3
  <2> QED BY <2>2, <2>3
<1>7. CASE CopyPayload
  <2>1. cons.pc = "copy" /\ cons'.pc = "pin" /\ CallKept /\ cons'.seq = cons.seq
    BY <1>1, <1>7, CopyEffect
  <2>2. TailIdx' = TailIdx
    BY <2>1 DEF CallKept, TailIdx
  <2>3. TakerNumbered(b, n)'
    BY <1>1, <1>2, <2>1, <2>2 DEF TakerNumbered, Expecting, ConsAt, CallKept
  <2> QED BY <1>2, <1>s, <2>1, <2>3
<1>8. CASE ConsOpen
  <2>1. cons.pc = "dead" /\ cons'.pc = "reclaim"
    BY <1>8, ConsOpenEffect
  <2>2. TakerNumbered(b, n)'
    BY <2>1 DEF TakerNumbered, Expecting, ConsAt
  <2> QED BY <1>2, <1>s, <2>1, <2>2
<1>9. CASE ConsOpenScan
  <2>1. /\ cons.pc = "scan" /\ cons'.pc \in {"scan", "expect"}
        /\ cons'.readable = (cons.readable \/ slots[cons.k].state \in {"COMMITTED", "PINNED"})
    BY <1>1, <1>9, ConsScanEffect
  <2>2. cons.k \in Index /\ Front = tail
    BY <1>1, <2>1, ConsTyped DEF Index, Front, ConsAt
  <2>3. slots[cons.k].state \in {"COMMITTED", "PINNED"} => tail < b
    BY <1>1, <2>2, TailTaken
  <2>4. TakerNumbered(b, n)'
    BY <1>1, <1>2, <2>1, <2>3 DEF TakerNumbered, Expecting, ConsAt
  <2> QED BY <1>2, <1>s, <2>1, <2>4
<1>10. CASE ConsOpenExpect
  <2>1. /\ cons.pc = "expect"
        /\ \/ Refused
           \/ cons.readable /\ Ended(slots[tail % Cap].seq, cons.resync)
           \/ Ended(cons.expected, TRUE)
    BY <1>1, <1>10, ConsExpectEffect
  <2>2. CASE cons.readable /\ Ended(slots[tail % Cap].seq, cons.resync)
    <3>1. tail < b /\ Front = tail
      BY <1>1, <2>1, <2>2 DEF TakerNumbered, Front, ConsAt
    <3>2. slots[tail % Cap].seq + (b - tail) = n
      BY <1>1, <3>1, TailNumber DEF Cell
    <3> QED BY <1>2, <1>e, <1>s, <2>1, <2>2, <3>2 DEF Ended
  <2>3. CASE Ended(cons.expected, TRUE)
    BY <1>2, <1>e, <1>s, <2>1, <2>3 DEF Ended
  <2>4. CASE Refused
    <3>1. TakerNumbered(b, n)'
      BY <2>4 DEF TakerNumbered, Expecting, ConsAt, Refused
    <3> QED BY <1>2, <1>s, <2>1, <2>4, <3>1 DEF Refused
  <2> QED BY <2>1, <2>2, <2>3, <2>4
<1>11. CASE ConsDie
  <2>1. cons.pc \notin {"release", "advance"} /\ cons'.pc = "dead"
    BY <1>11, ConsDieEffect
  <2>2. TakerNumbered(b, n)'
    BY <2>1 DEF TakerNumbered, Expecting, ConsAt
  <2> QED BY <1>2, <1>s, <2>1, <2>2
<1> QED BY <1>2, <1>3, <1>4, <1>5, <1>6, <1>7, <1>8, <1>9, <1>10, <1>11

ConsumerFrees == FreeDead \/ ReclaimStale \/ (ConsOpenReclaim /\ DeadWriting(cons.k))

\* The consumer, or its successor, frees what a dead writer left.
LEMMA ConsumerDrops ==
  ASSUME Base, Names, NEW b \in Nat, Line(b), ConsumerFrees
  PROVE  /\ b - 1 \in Span(Front) /\ b - 1 \in Nat /\ ~Held(slots, b - 1) /\ NamedIn(slots, b - 1)
         /\ Writes(slots', slots, b - 1, FreeSlot) /\ pr.pc = "dead"
         /\ UNCHANGED <<head, tail, pr, got, met>>
         /\ cons.pc \in {"free", "idle", "reclaim"}
         /\ cons'.pc \in {"verify", "idle", "reclaim", "scan"}
         /\ cons'.pc = "idle" => cons'.resync
         /\ cons'.took = cons.took /\ cons'.expected = cons.expected
         /\ cons'.pc = "verify" => cons.pc = "free"
         /\ cons'.pc = "scan" => cons'.readable = cons.readable /\ cons.pc = "reclaim"
<1>1. Typed /\ ReaderInv /\ slots \in [0 .. Cap - 1 -> SlotSet] /\ cons.k \in Index
      /\ Index = 0 .. Cap - 1 /\ pr.pc \in ProducerPcs
  BY FrontTyped, ConsTyped, PrTyped DEF Base, Index
<1>2. ASSUME NEW i \in Index, DeadWriting(i), slots' = [slots EXCEPT ![i] = FreeSlot]
      PROVE  Writes(slots', slots, b - 1, FreeSlot)
  BY <1>2, DeadIsLast DEF Writes
<1>3. ASSUME NEW i \in Index, DeadWriting(i)
      PROVE  /\ b - 1 \in Span(Front) /\ b - 1 \in Nat /\ ~Held(slots, b - 1) /\ NamedIn(slots, b - 1)
             /\ pr.pc \in Opening \cup {"dead"}
  BY <1>3, DeadIsLast DEF Up
<1>4. CASE FreeDead
  <2>1. /\ cons.pc = "free" /\ cons'.pc = "verify" /\ CallKept
        /\ slots' = [slots EXCEPT ![cons.k] = FreeSlot]
        /\ UNCHANGED <<head, tail, pr, got, met>>
    BY <1>1, <1>4, FreeDeadEffect
  <2>2. DeadWriting(cons.k) /\ pr.pc \notin Opening
    BY <1>1, <2>1 DEF ReaderInv, ConsAt
  <2> QED BY <1>1, <1>2, <1>3, <2>1, <2>2 DEF CallKept
<1>5. CASE ConsOpenReclaim /\ DeadWriting(cons.k)
  <2>1. /\ cons.pc = "reclaim" /\ cons'.pc \in {"reclaim", "scan"} /\ CallKept
        /\ cons'.readable = cons.readable
        /\ slots' = [slots EXCEPT ![cons.k] = FreeSlot]
        /\ UNCHANGED <<head, tail, pr, got, met>>
    BY <1>1, <1>5, ConsReclaimEffect
  <2>2. pr.pc \notin Opening
    BY <1>1, <2>1 DEF ReaderInv
  <2> QED BY <1>1, <1>2, <1>3, <1>5, <2>1, <2>2 DEF CallKept
<1>6. CASE ReclaimStale
  <2>1. /\ cons.pc = "idle" /\ cons'.pc = "idle" /\ cons'.resync = TRUE /\ pr.pc \notin Opening
        /\ CallKept /\ UNCHANGED <<head, tail, pr, got, met>>
    BY <1>1, <1>6, StaleEffect
  <2>2. PICK stale \in SUBSET Index :
          /\ \A i \in stale : DeadWriting(i)
          /\ stale # {}
          /\ slots' = [i \in 0 .. Cap - 1 |-> IF i \in stale THEN FreeSlot ELSE slots[i]]
    BY <1>1, <1>6, StaleEffect
  <2>3. PICK i \in Index : i \in stale /\ DeadWriting(i)
    BY <2>2
  <2>4. \A j \in stale : j = i
    <3>1. ASSUME NEW j \in stale PROVE j = i
      <4>1. j \in Index /\ DeadWriting(j)
        BY <2>2, <3>1
      <4>2. j = (b - 1) % Cap /\ i = (b - 1) % Cap
        BY <2>3, <4>1, DeadIsLast
      <4> QED BY <4>2
    <3> QED BY <3>1
  <2>5. slots' = [slots EXCEPT ![i] = FreeSlot]
    BY <1>1, <2>2, <2>3, <2>4
  <2> QED BY <1>1, <1>2, <1>3, <2>1, <2>3, <2>5 DEF CallKept
<1> QED BY <1>4, <1>5, <1>6 DEF ConsumerFrees

\* The line is shorter by the slot that named the last number.
LEMMA NumbersDrop ==
  ASSUME Typed, NEW b \in Nat, Line(b), NEW n \in Int, LineNumbered(b, n),
         b - 1 \in Span(Front), b - 1 \in Nat, ~Held(slots, b - 1), NamedIn(slots, b - 1),
         Writes(slots', slots, b - 1, FreeSlot), UNCHANGED <<head, tail>>, Front' = Front
  PROVE  LineNumbered(b - 1, n - 1)'
<1>1. /\ Front \in Nat /\ tail \in Nat /\ slots \in [0 .. Cap - 1 -> SlotSet] /\ Cap \in Nat \ {0}
  BY FrontTyped
<1>2. Run(slots, Front, b) /\ LastNamed(slots, Front, b)
  BY DEF Line
<1>3. Numbers(slots', Front, b - 1, n - 1)
  BY <1>1, <1>2, RunDrops DEF LineNumbered
<1>4. \A q \in Span(Front) : ~NamedIn(slots', q)
  BY <1>1, <1>2, RunDrops
<1>5. head <= b - 1 /\ b - 1 <= tail + Cap
  BY <1>1 DEF LineNumbered
<1> QED BY <1>3, <1>4, <1>5 DEF LineNumbered

LEMMA NumberedConsumerDrops ==
  ASSUME Base, Single, Names, NEW b \in Nat, Line(b), NEW n \in Int, Numbered(b, n), ConsumerFrees
  PROVE  Numbered(b - 1, n - 1)'
<1>1. Typed /\ LineNumbered(b, n) /\ TakerNumbered(b, n)
  BY DEF Base, Numbered
<1>2. /\ b - 1 \in Span(Front) /\ b - 1 \in Nat /\ ~Held(slots, b - 1) /\ NamedIn(slots, b - 1)
      /\ Writes(slots', slots, b - 1, FreeSlot) /\ pr.pc = "dead"
      /\ UNCHANGED <<head, tail, pr, got, met>>
      /\ cons.pc \in {"free", "idle", "reclaim"}
      /\ cons'.pc \in {"verify", "idle", "reclaim", "scan"}
      /\ cons'.pc = "idle" => cons'.resync
      /\ cons'.took = cons.took /\ cons'.expected = cons.expected
      /\ cons'.pc = "verify" => cons.pc = "free"
      /\ cons'.pc = "scan" => cons'.readable = cons.readable /\ cons.pc = "reclaim"
  BY ConsumerDrops
<1>3. Front' = Front
  BY <1>2 DEF Front, ConsAt
<1>4. LineNumbered(b - 1, n - 1)'
  BY <1>1, <1>2, <1>3, NumbersDrop
<1>5. MakerNumbered(b - 1, n - 1)'
  BY <1>2 DEF MakerNumbered, At
<1>6. TakerNumbered(b - 1, n - 1)'
  <2>1. Expecting' => Expecting /\ cons'.expected = cons.expected
    BY <1>2 DEF Expecting, ConsAt
  <2>2. Expecting => cons.expected + ((b - 1) - tail) = n - 1
    <3>1. cons.expected \in Nat /\ tail \in Nat
      BY <1>1, ConsTyped
    <3> QED BY <1>1, <3>1 DEF TakerNumbered
  <2>3. cons'.pc = "scan" => ~cons'.readable
    BY <1>2 DEF Single
  <2>4. cons'.pc \notin {"copy", "pin", "expect"} /\ UNCHANGED tail
    BY <1>2
  <2> QED BY <2>1, <2>2, <2>3, <2>4 DEF TakerNumbered
<1> QED BY <1>4, <1>5, <1>6 DEF Numbered

\* The consumer expects the number it pins.
LEMMA PinsExpected ==
  ASSUME Base, Single, NEW b \in Nat, Line(b), NEW n \in Int, Numbered(b, n), PinSlot
  PROVE  ~Rejected /\ cons.seq = Cell(slots, tail).seq /\ cons.seq + (b - tail) = n
<1>1. Typed /\ LineNumbered(b, n) /\ TakerNumbered(b, n) /\ ReaderInv /\ tail \in Nat
      /\ Index = 0 .. Cap - 1 /\ TailIdx \in Index /\ cons.seq \in Nat /\ cons.expected \in Nat
  BY ConsTyped DEF Base, Numbered, Index
<1>2. cons.pc = "pin"
  BY <1>1, PinEffect
<1>3. Front = tail /\ slots[TailIdx] = Cell(slots, tail) /\ slots[TailIdx].state = "COMMITTED"
  BY <1>1, <1>2, TailRead DEF Front, ConsAt, Reading, ReaderInv
<1>4. tail < b
  BY <1>1, <1>3, TailTaken
<1>5. cons.seq = Cell(slots, tail).seq /\ cons.seq + (b - tail) = n
  BY <1>1, <1>2, <1>3, <1>4, TailNumber DEF TakerNumbered
<1>6. ~cons.took => cons.expected + (b - tail) = n
  BY <1>1, <1>2 DEF TakerNumbered, Expecting
<1>7. ~cons.took => cons.seq = cons.expected
  BY <1>1, <1>5, <1>6
<1> QED BY <1>5, <1>7 DEF Rejected

LEMMA NumberedPins ==
  ASSUME Base, Single, NEW b \in Nat, Line(b), NEW n \in Int, Numbered(b, n), PinSlot
  PROVE  Numbered(b, n)'
<1>1. Typed /\ LineNumbered(b, n) /\ TakerNumbered(b, n) /\ MakerNumbered(b, n) /\ ReaderInv
  BY DEF Base, Numbered
<1>2. ~Rejected /\ cons.seq = Cell(slots, tail).seq /\ cons.seq + (b - tail) = n
  BY PinsExpected
<1>3. /\ cons.pc = "pin" /\ cons'.pc = "release" /\ cons'.expected = cons.seq
      /\ UNCHANGED <<head, tail, pr>>
  BY <1>1, <1>2, PinEffect
<1>4. pr.pc \notin Opening
  BY <1>1, <1>3 DEF ReaderInv
<1>5. Front' = Front
  BY <1>3 DEF Front, ConsAt
<1>6. Numbers(slots', Front, b, n)
  <2>1. Numbers(slots', Front', b, n)
    BY <1>1, <1>2, LinePins DEF LineNumbered
  <2> QED BY <1>5, <2>1
<1>7. \A q \in Span(Front) : NamedIn(slots', q) => NamedIn(slots, q)
  BY <1>2, LinePins
<1>8. LineNumbered(b, n)'
  BY <1>1, <1>3, <1>5, <1>6, <1>7 DEF LineNumbered
<1>9. MakerNumbered(b, n)'
  BY <1>1, <1>3, <1>4, MakerStays
<1>10. TakerNumbered(b, n)'
  BY <1>2, <1>3 DEF TakerNumbered
<1> QED BY <1>8, <1>9, <1>10 DEF Numbered

LEMMA NumberedReleases ==
  ASSUME Base, Single, Ids, NEW b \in Nat, Line(b), NEW n \in Int, Numbered(b, n), FreeTail
  PROVE  Numbered(b, n)'
<1>1. Typed /\ LineNumbered(b, n) /\ TakerNumbered(b, n) /\ MakerNumbered(b, n) /\ ReaderInv
  BY DEF Base, Numbered
<1>2. /\ cons.pc = "release" /\ cons'.pc = "advance" /\ cons'.expected = cons.expected
      /\ UNCHANGED <<head, tail, pr>>
  BY <1>1, FreeTailEffect DEF CallKept
<1>3. pr.pc \notin Opening
  BY <1>1, <1>2 DEF ReaderInv
<1>4. Numbers(slots', Front', b, n)
  BY <1>1, LineReleases DEF LineNumbered
<1>5. \A q \in Span(Front') : NamedIn(slots', q) => q \in Span(Front) /\ NamedIn(slots, q)
  BY LineReleases
<1>6. LineNumbered(b, n)'
  BY <1>1, <1>2, <1>4, <1>5 DEF LineNumbered
<1>7. MakerNumbered(b, n)'
  BY <1>1, <1>2, <1>3, MakerStays
<1>8. TakerNumbered(b, n)'
  BY <1>1, <1>2 DEF TakerNumbered, Expecting
<1> QED BY <1>6, <1>7, <1>8 DEF Numbered

LEMMA NumberedAdvances ==
  ASSUME Base, Single, NEW b \in Nat, Line(b), NEW n \in Int, Numbered(b, n), AdvanceTail
  PROVE  Numbered(b, n)'
<1>1. Typed /\ LineNumbered(b, n) /\ TakerNumbered(b, n) /\ MakerNumbered(b, n) /\ ReaderInv
      /\ tail \in Nat /\ cons.expected \in Nat /\ Cap \in Nat \ {0}
  BY ConsTyped DEF Base, Numbered
<1>2. /\ cons.pc = "advance" /\ Ended(cons.expected + 1, cons.resync)
      /\ UNCHANGED <<head, slots, pr>>
  BY <1>1, AdvanceEffect
<1>3. Front' = Front /\ tail' = tail + 1
  BY LineAdvances
<1>4. pr.pc \notin Opening
  BY <1>1, <1>2 DEF ReaderInv
<1>5. b <= (tail + 1) + Cap
  BY <1>1 DEF LineNumbered
<1>6. LineNumbered(b, n)'
  BY <1>1, <1>2, <1>3, <1>5 DEF LineNumbered
<1>7. MakerNumbered(b, n)'
  BY <1>1, <1>2, <1>3, <1>4, MakerStays
<1>8. TakerNumbered(b, n)'
  <2>1. cons.expected + (b - tail) = n
    BY <1>1, <1>2 DEF TakerNumbered, Expecting, ConsAt
  <2>2. (cons.expected + 1) + (b - (tail + 1)) = n
    BY <1>1, <2>1
  <2>3. cons'.pc = "idle" /\ cons'.expected = cons.expected + 1
    BY <1>2 DEF Ended
  <2> QED BY <1>3, <2>2, <2>3 DEF TakerNumbered
<1> QED BY <1>6, <1>7, <1>8 DEF Numbered

-----------------------------------------------------------------------------
(* The producer's steps                                                    *)

LEMMA TakerStays ==
  ASSUME NEW b, NEW n, TakerNumbered(b, n), UNCHANGED <<cons, tail>>,
         cons.pc \in {"copy", "pin"} => slots'[TailIdx] = slots[TailIdx]
  PROVE  TakerNumbered(b, n)'
<1>1. TailIdx' = TailIdx
  BY DEF TailIdx
<1> QED BY <1>1 DEF TakerNumbered, Expecting, ConsAt

\* What the slot write of a send leaves the consumer.
LEMMA TailKept ==
  ASSUME Base, NEW x, Lot(x), pr.pc \in {"mark", "stamp", "fill", "commit"}
  PROVE  cons.pc \in {"copy", "pin"} => slots'[TailIdx] = slots[TailIdx]
<1>1. /\ Typed /\ WriterInv /\ ReaderInv /\ slots \in [0 .. Cap - 1 -> SlotSet] /\ TailIdx \in 0 .. Cap - 1
      /\ pr.idx \in 0 .. Cap - 1
  BY PrTyped, ConsTyped DEF Base
<1>2. slots[pr.idx].state # "COMMITTED"
  BY <1>1 DEF WriterInv, At
<1>3. cons.pc \in {"copy", "pin"} => TailIdx # pr.idx
  BY <1>1, <1>2 DEF ReaderInv
<1> QED BY <1>1, <1>3 DEF Lot

LEMMA NumberedTakes ==
  ASSUME Base, Names, NEW b \in Nat, Line(b), NEW n \in Int, Numbered(b, n), MarkSlot
  PROVE  Numbered(b + 1, n + 1)'
<1>1. /\ Typed /\ LineNumbered(b, n) /\ TakerNumbered(b, n) /\ MakerNumbered(b, n)
      /\ head \in Nat /\ tail \in Nat /\ cons.expected \in Nat /\ Cap \in Nat \ {0}
      /\ pr.next \in Nat /\ pr.bias \in Nat
  BY ConsTyped, PrTyped DEF Base, Numbered
<1>2. /\ pr.pc = "mark" /\ pr'.pc = "stamp" /\ Lot(Marked) /\ pr'.next = pr.next
      /\ pr'.bias = pr.bias /\ UNCHANGED <<head, tail, cons>>
  BY <1>1, MarkEffect DEF HandleKept
<1>3. b = head + pr.bias /\ n + 1 = pr.next /\ b < tail + Cap
  BY <1>1, <1>2 DEF MakerNumbered
<1>4. n \in Nat /\ pr.next - 1 = n
  <2>1. pr.next >= 1
    BY <1>1, <1>2 DEF Typed, ProducerBounds, Writing
  <2> QED BY <1>1, <1>3, <2>1
<1>5. Numbers(slots', Front, b + 1, n + 1) /\ Front' = Front
  BY <1>1, <1>4, LineTakes DEF LineNumbered
<1>6. \A q \in Span(Front) : ~NamedIn(slots', q)
  BY LineTakes
<1>7. LineNumbered(b + 1, n + 1)'
  <2>1. head <= b + 1 /\ b + 1 <= tail + Cap
    BY <1>1, <1>3 DEF LineNumbered
  <2> QED BY <1>2, <1>5, <1>6, <2>1 DEF LineNumbered
<1>8. MakerNumbered(b + 1, n + 1)'
  <2>1. b + 1 = head + pr.bias + 1
    BY <1>1, <1>3
  <2> QED BY <1>2, <1>3, <2>1 DEF MakerNumbered, At
<1>9. TakerNumbered(b + 1, n + 1)
  <2>1. Expecting => cons.expected + ((b + 1) - tail) = n + 1
    BY <1>1 DEF TakerNumbered
  <2>2. tail < b => tail < b + 1
    BY <1>1
  <2> QED BY <1>1, <2>1, <2>2 DEF TakerNumbered
<1>10. TakerNumbered(b + 1, n + 1)'
  <2>1. cons.pc \in {"copy", "pin"} => slots'[TailIdx] = slots[TailIdx]
    BY <1>2, TailKept
  <2> QED BY <1>2, <1>9, <2>1, TakerStays
<1> QED BY <1>7, <1>8, <1>10 DEF Numbered

LEMMA NumberedFills ==
  ASSUME Base, Single, Ids, NEW b \in Nat, Line(b), NEW n \in Int, Numbered(b, n),
         StampSlot \/ FillSlot \/ CommitSlot
  PROVE  Numbered(b, n)'
<1>1. /\ Typed /\ LineNumbered(b, n) /\ TakerNumbered(b, n) /\ MakerNumbered(b, n)
      /\ head \in Nat /\ pr.bias \in Nat /\ Front \in Nat
  BY ConsTyped, PrTyped, FrontTyped DEF Base, Numbered
<1>2. PICK x : /\ Lot(x) /\ pr.pc \in {"stamp", "fill", "commit"}
               /\ pr'.pc \in {"fill", "commit", "publish"}
               /\ pr'.next = pr.next /\ pr'.bias = pr.bias /\ UNCHANGED <<head, tail, cons>>
  BY <1>1, StampEffect, FillEffect, CommitEffect DEF HandleKept
<1>3. b = head + pr.bias + 1 /\ n = pr.next
  BY <1>1, <1>2 DEF MakerNumbered
<1>4. Line(b)' /\ Front' = Front
  BY LineFills, LineCommits
<1>5. Numbers(slots', Front, b, n)
  <2>1. CASE StampSlot \/ FillSlot
    BY <1>1, <2>1, LineFills DEF LineNumbered
  <2>2. CASE CommitSlot
    <3>1. Front < b
      BY <1>2 DEF Line, HandleAt, InSlot
    <3>2. b - 1 \in Front .. b - 1 /\ b - (b - 1) = 1
      BY <1>1, <3>1
    <3>3. Cell(slots, b - 1).seq + 1 = n
      BY <1>1, <3>2 DEF LineNumbered, Numbers
    <3>4. Cell(slots, b - 1).seq \in Nat
      <4>1. b - 1 \in Span(Front)
        <5>1. b \in Front .. Front + Cap /\ Cap \in Nat
          BY CapAssumption DEF Line, Run
        <5> QED BY <1>1, <3>1, <5>1 DEF Span
      <4> QED BY <1>1, <4>1, FrontTyped, SpanIn DEF Cell, SlotSet
    <3>5. Cell(slots, b - 1).seq = pr.next - 1
      BY <1>3, <3>3, <3>4
    <3> QED BY <1>1, <2>2, <3>5, LineCommits DEF LineNumbered
  <2> QED BY <2>1, <2>2
<1>6. \A q \in Span(Front) : NamedIn(slots', q) => head <= q
  <2>1. \A q \in Span(Front) : NamedIn(slots', q) => q = b - 1
    BY <1>4 DEF Line, LastNamed
  <2>2. head <= b - 1
    BY <1>1, <1>3
  <2> QED BY <2>1, <2>2
<1>7. LineNumbered(b, n)'
  BY <1>1, <1>2, <1>4, <1>5, <1>6 DEF LineNumbered
<1>8. MakerNumbered(b, n)'
  BY <1>2, <1>3 DEF MakerNumbered, At
<1>9. TakerNumbered(b, n)'
  <2>1. cons.pc \in {"copy", "pin"} => slots'[TailIdx] = slots[TailIdx]
    BY <1>2, TailKept
  <2> QED BY <1>1, <1>2, <2>1, TakerStays
<1> QED BY <1>7, <1>8, <1>9 DEF Numbered

\* Steps of a send that write no slot.
LEMMA NumberedSends ==
  ASSUME Base, Single, Names, NEW b \in Nat, Line(b), NEW n \in Int, Numbered(b, n),
         \/ \E m \in scenario.sizes : SendBegin(m)
         \/ ClaimSlot \/ PublishHead \/ Die \/ Open
  PROVE  Numbered(b, n)'
<1>1. /\ Typed /\ LineNumbered(b, n) /\ TakerNumbered(b, n) /\ MakerNumbered(b, n)
      /\ head \in Nat /\ tail \in Nat /\ Cap \in Nat \ {0} /\ Front \in Nat
      /\ pr.next \in Nat /\ pr.bias \in Nat
  BY ConsTyped, PrTyped, FrontTyped DEF Base, Numbered
<1>2. UNCHANGED <<tail, slots, cons>>
  BY DEF SendBegin, ClaimSlot, PublishHead, Die, Open
<1>3. Front' = Front /\ TakerNumbered(b, n)'
  BY <1>1, <1>2, TakerStays DEF Front, ConsAt
<1>h. ASSUME head' = head PROVE LineNumbered(b, n)'
  BY <1>1, <1>2, <1>3, <1>h, LineNumberedStays
<1>4. ASSUME NEW m \in scenario.sizes, SendBegin(m) PROVE Numbered(b, n)'
  <2>1. /\ pr.pc = "idle" /\ pr'.pc = "claim" /\ HasRoom(1) /\ pr'.bias = pr.bias
        /\ pr'.next = pr.next + 1 /\ head' = head
    BY <1>4, SendBeginEffect
  <2>2. b = head + pr.bias /\ n = pr.next
    BY <1>1, <2>1 DEF MakerNumbered
  <2>3. b < tail + Cap
    <3>1. Cap >= Beyond(head, tail) + pr.bias + 1
      BY <2>1 DEF HasRoom
    <3>2. CASE head > tail
      BY <1>1, <2>2, <3>1, <3>2 DEF Beyond
    <3>3. CASE ~(head > tail)
      BY <1>1, <2>2, <3>1, <3>3 DEF Beyond
    <3> QED BY <3>2, <3>3
  <2>4. MakerNumbered(b, n)'
    BY <1>1, <1>2, <2>1, <2>2, <2>3 DEF MakerNumbered, At
  <2> QED BY <1>3, <1>h, <2>1, <2>4 DEF Numbered
<1>5. CASE ClaimSlot
  <2>1. /\ pr.pc = "claim" /\ pr'.bias = pr.bias /\ pr'.next = pr.next /\ head' = head
        /\ pr'.pc \in {"mark", "idle"} /\ (pr'.pc = "mark" <=> slots[pr.idx].state = "FREE")
    BY <1>1, <1>5, ClaimEffect DEF HandleKept
  <2>2. pr'.pc = "mark"
    BY <1>1, <2>1, RoomAtEnd
  <2>3. MakerNumbered(b, n)'
    BY <1>1, <1>2, <2>1, <2>2 DEF MakerNumbered, At
  <2> QED BY <1>3, <1>h, <2>1, <2>3 DEF Numbered
<1>6. CASE PublishHead
  <2>1. /\ pr.pc = "publish" /\ pr'.pc = "idle" /\ head' = head + pr.need
        /\ pr'.bias = pr.bias /\ pr'.next = pr.next
    BY <1>1, <1>6, PublishEffect DEF HandleKept
  <2>2. pr.need = 1 /\ head' = head + 1
    BY <2>1 DEF Single
  <2>3. b = head + pr.bias + 1 /\ n = pr.next
    BY <1>1, <2>1 DEF MakerNumbered
  <2>4. b = (head + 1) + pr.bias /\ head + 1 <= b
    BY <1>1, <2>3
  <2>5. MakerNumbered(b, n)'
    BY <2>1, <2>2, <2>3, <2>4 DEF MakerNumbered, At
  <2>6. \A q \in Span(Front) : ~NamedIn(slots, q)
    <3>1. \A i \in Index : ~Named(i)
      BY <2>1 DEF Names
    <3>2. \A q \in Span(Front) : q % Cap \in Index
      BY <1>1, SpanIn DEF Index
    <3> QED BY <3>1, <3>2 DEF NamedIn, Named, Cell
  <2>7. LineNumbered(b, n)'
    BY <1>1, <1>2, <1>3, <2>2, <2>4, <2>6 DEF LineNumbered
  <2> QED BY <1>3, <2>5, <2>7 DEF Numbered
<1>7. CASE Die \/ Open
  <2>1. pr'.pc \in {"dead", "reclaim"} /\ head' = head
    BY <1>1, <1>7, DieEffect, OpenEffect
  <2>2. MakerNumbered(b, n)'
    BY <2>1 DEF MakerNumbered, At
  <2> QED BY <1>3, <1>h, <2>1, <2>2 DEF Numbered
<1> QED BY <1>4, <1>5, <1>6, <1>7

\* The search for the write position ends where the line does.
LEMMA NumberedInfers ==
  ASSUME Base, NEW b \in Nat, Line(b), NEW n \in Int, Numbered(b, n), OpenInfer
  PROVE  Numbered(b, n)'
<1>1. Typed /\ LineNumbered(b, n) /\ TakerNumbered(b, n) /\ MakerNumbered(b, n)
  BY DEF Base, Numbered
<1>2. /\ pr.pc = "infer" /\ pr'.pc \in {"infer", "idle"} /\ pr'.bias = pr.bias /\ pr'.next = pr.next
      /\ UNCHANGED <<head, tail, slots, cons>>
  BY <1>1, InferEffect
<1>3. Front' = Front
  BY <1>2 DEF Front, ConsAt
<1>4. MakerNumbered(b, n)'
  BY <1>1, <1>2 DEF MakerNumbered, At
<1>5. LineNumbered(b, n)' /\ TakerNumbered(b, n)'
  BY <1>1, <1>2, <1>3, LineNumberedStays, TakerStays
<1> QED BY <1>4, <1>5 DEF Numbered

\* The count of the slots a line covers, slot by slot.
LEMMA CoversSlots ==
  ASSUME NEW s \in 0 .. Cap - 1, NEW m \in 0 .. Cap
  PROVE  /\ Covers(s, m, 0) = 0 /\ Covers(s, m, Cap) = m
         /\ \A k \in 0 .. Cap - 1 :
              IF (s <= k /\ k < s + m) \/ k + Cap < s + m
                THEN Covers(s, m, k + 1) = Covers(s, m, k) + 1
                ELSE Covers(s, m, k + 1) = Covers(s, m, k)
<1>1. Cap \in Nat \ {0}
  BY CapAssumption
<1>2. Covers(s, m, 0) = 0
  BY <1>1 DEF Covers, Beyond, Least
<1>3. Covers(s, m, Cap) = m
  <2>1. CASE s + m <= Cap
    BY <1>1, <2>1 DEF Covers, Beyond, Least
  <2>2. CASE ~(s + m <= Cap)
    BY <1>1, <2>2 DEF Covers, Beyond, Least
  <2> QED BY <2>1, <2>2
<1>4. ASSUME NEW k \in 0 .. Cap - 1
      PROVE  IF (s <= k /\ k < s + m) \/ k + Cap < s + m
               THEN Covers(s, m, k + 1) = Covers(s, m, k) + 1
               ELSE Covers(s, m, k + 1) = Covers(s, m, k)
  <2>1. CASE s + m <= Cap
    BY <1>1, <2>1 DEF Covers, Beyond, Least
  <2>2. CASE ~(s + m <= Cap)
    BY <1>1, <2>2 DEF Covers, Beyond, Least
  <2> QED BY <2>1, <2>2
<1> QED BY <1>2, <1>3, <1>4

LEMMA Occupies ==
  ASSUME NEW t, NEW f \in Nat, NEW b \in Nat, Run(t, f, b), NEW i \in 0 .. Cap - 1
  PROVE  t[i].state # "FREE" <=>
           (f % Cap <= i /\ i < (f % Cap) + (b - f)) \/ i + Cap < (f % Cap) + (b - f)
<1> DEFINE x == f \div Cap
           r == f % Cap
<1>1. x \in Nat /\ r \in 0 .. Cap - 1 /\ f = Cap * x + r /\ Cap \in Nat \ {0}
  BY CapAssumption, LapAndSlot
<1>2. Cap * x \in Nat /\ Cap * (x + 1) = Cap * x + Cap
  BY <1>1
<1>3. b \in f .. f + Cap
  BY DEF Run
<1>d. r = f % Cap
  OBVIOUS
<1> HIDE DEF x, r
<1>4. CASE r <= i
  <2>1. f + (i - r) = Cap * x + i /\ f + (i - r) \in Nat /\ f + (i - r) \in Span(f)
    BY <1>1, <1>2, <1>4 DEF Span
  <2>2. (f + (i - r)) % Cap = i
    BY <1>1, <2>1, SlotOf
  <2>3. t[i].state # "FREE" <=> f + (i - r) < b
    BY <2>1, <2>2 DEF Run, Cell
  <2>4. f + (i - r) < b <=> (r <= i /\ i < r + (b - f)) \/ i + Cap < r + (b - f)
    BY <1>1, <1>3, <1>4
  <2> QED BY <1>d, <2>3, <2>4
<1>5. CASE ~(r <= i)
  <2>1. f + (i + Cap - r) = Cap * (x + 1) + i /\ f + (i + Cap - r) \in Nat
        /\ f + (i + Cap - r) \in Span(f) /\ x + 1 \in Nat
    BY <1>1, <1>2, <1>5 DEF Span
  <2>2. (f + (i + Cap - r)) % Cap = i
    BY <1>1, <2>1, SlotOf
  <2>3. t[i].state # "FREE" <=> f + (i + Cap - r) < b
    BY <2>1, <2>2 DEF Run, Cell
  <2>4. f + (i + Cap - r) < b <=> (r <= i /\ i < r + (b - f)) \/ i + Cap < r + (b - f)
    BY <1>1, <1>3, <1>5
  <2> QED BY <1>d, <2>3, <2>4
<1> QED BY <1>4, <1>5

\* No slot of the line has a number past the last one's, which has one less
\* than the next.
LEMMA ScanNumber ==
  ASSUME Typed, NEW b \in Nat, Line(b), NEW n \in Int, LineNumbered(b, n), Front = tail
  PROVE  /\ \A i \in Index : slots[i].state # "FREE" => tail < b /\ slots[i].seq + 1 <= n
         /\ tail < b => \E i \in Index : slots[i].state # "FREE" /\ slots[i].seq + 1 = n
<1>1. /\ tail \in Nat /\ Index = 0 .. Cap - 1 /\ Run(slots, tail, b) /\ Numbers(slots, tail, b, n)
      /\ slots \in [0 .. Cap - 1 -> SlotSet] /\ Cap \in Nat \ {0}
  BY FrontTyped DEF Line, Index, LineNumbered
<1>2. b \in tail .. tail + Cap
  BY <1>1 DEF Run
<1>3. ASSUME NEW i \in Index, slots[i].state # "FREE" PROVE tail < b /\ slots[i].seq + 1 <= n
  <2>1. PICK q \in Span(tail) : q \in Nat /\ q % Cap = i
    BY <1>1, SpanIndex
  <2>2. q < b /\ tail <= q
    BY <1>1, <1>3, <2>1, SpanIn DEF Run, Cell
  <2>3. q \in tail .. b - 1
    BY <1>1, <2>1, <2>2
  <2>4. slots[i].seq + (b - q) = n
    BY <1>1, <2>1, <2>3 DEF Numbers, Cell
  <2>5. slots[i].seq \in Nat
    BY <1>1 DEF SlotSet
  <2> QED BY <1>1, <2>1, <2>2, <2>4, <2>5
<1>4. ASSUME tail < b PROVE \E i \in Index : slots[i].state # "FREE" /\ slots[i].seq + 1 = n
  <2>1. b - 1 \in Span(tail) /\ b - 1 \in tail .. b - 1 /\ b - (b - 1) = 1 /\ b - 1 < b
    BY <1>1, <1>2, <1>4 DEF Span
  <2>2. (b - 1) % Cap \in Index
    BY <1>1, <2>1, SpanIn
  <2>3. slots[(b - 1) % Cap].state # "FREE" /\ slots[(b - 1) % Cap].seq + 1 = n
    BY <1>1, <2>1 DEF Run, Numbers, Cell
  <2> QED BY <2>2, <2>3
<1> QED BY <1>3, <1>4

\* Nothing is pinned while the producer opens, and the line is at the tail.
LEMMA OpeningLine ==
  ASSUME Base, NEW b \in Nat, Line(b), pr.pc \in Opening
  PROVE  /\ Front = tail /\ cons.pc \in {"idle", "dead"}
         /\ \A i \in Index : slots[i].state # "PINNED"
<1>1. Typed /\ ReaderInv /\ tail \in Nat /\ Index = 0 .. Cap - 1
  BY FrontTyped DEF Base, Index
<1>2. cons.pc \in {"idle", "dead"} /\ Front = tail
  BY <1>1 DEF ReaderInv, Front, ConsAt
<1>3. ASSUME NEW i \in Index, slots[i].state = "PINNED" PROVE FALSE
  <2>1. PICK q \in Span(tail) : q \in Nat /\ q % Cap = i
    BY <1>1, SpanIndex
  <2>2. Cell(slots, q).state = "PINNED"
    BY <1>3, <2>1 DEF Cell
  <2> QED BY <1>2, <2>1, <2>2 DEF Line, PinsRead, ConsAt
<1> QED BY <1>2, <1>3

\* The step of the scan that visits slot k.
LEMMA ScanVisits ==
  ASSUME Base, NEW b \in Nat, Line(b), NEW n \in Int, Numbered(b, n), OpenScan
  PROVE  /\ ScanPins = 0 /\ ScanOcc = Covers(tail % Cap, b - tail, pr.k + 1)
         /\ \A i \in Index : i < pr.k + 1 /\ slots[i].state # "FREE" => slots[i].seq < ScanNext
         /\ ScanNext = 0 \/ (tail < b /\ ScanNext <= n)
<1>1. /\ Typed /\ LineNumbered(b, n) /\ MakerNumbered(b, n) /\ tail \in Nat /\ Cap \in Nat \ {0}
      /\ tail % Cap \in 0 .. Cap - 1 /\ Index = 0 .. Cap - 1 /\ pr.next \in Nat /\ pr.occ \in Nat
      /\ \A i \in Index : slots[i] \in SlotSet
  BY ConsTyped, PrTyped DEF Base, Numbered, Index
<1>2. pr.pc = "scan" /\ pr.k \in Index
  BY <1>1, ScanEffect
<1>3. Scanned(b, n)
  BY <1>1, <1>2 DEF MakerNumbered, At
<1>4. /\ Front = tail /\ \A i \in Index : slots[i].state # "PINNED"
  BY <1>2, OpeningLine DEF Opening
<1>5. b \in tail .. tail + Cap /\ Run(slots, tail, b)
  BY <1>4 DEF Line, Run
<1>6. PICK k \in 0 .. Cap - 1 : k = pr.k
  BY <1>1, <1>2
<1>7. slots[k].state \in {"FREE", "WRITING", "COMMITTED"} /\ slots[k].seq \in Nat
  <2>1. slots[k] \in SlotSet /\ slots[k].state # "PINNED"
    BY <1>1, <1>4
  <2> QED BY <2>1 DEF SlotSet, SlotState
<1>8. ScanPins = 0
  BY <1>3, <1>6, <1>7 DEF ScanPins, Scanned
<1>9. ScanOcc = Covers(tail % Cap, b - tail, k + 1)
  <2> DEFINE s == tail % Cap
             m == b - tail
  <2>1. m \in 0 .. Cap /\ s \in 0 .. Cap - 1
    BY <1>1, <1>5
  <2>2. slots[k].state # "FREE" <=> (s <= k /\ k < s + m) \/ k + Cap < s + m
    BY <1>1, <1>5, Occupies
  <2>3. pr.occ = Covers(s, m, k)
    BY <1>3, <1>6 DEF Scanned
  <2> HIDE DEF s, m
  <2>4. IF (s <= k /\ k < s + m) \/ k + Cap < s + m
          THEN Covers(s, m, k + 1) = Covers(s, m, k) + 1
          ELSE Covers(s, m, k + 1) = Covers(s, m, k)
    BY <2>1, CoversSlots
  <2>5. ScanOcc = IF slots[k].state # "FREE" THEN pr.occ + 1 ELSE pr.occ
    BY <1>6, <1>7 DEF ScanOcc
  <2>6. ScanOcc = Covers(s, m, k + 1)
    BY <2>2, <2>3, <2>4, <2>5
  <2> QED BY <2>6 DEF s, m
<1>10. slots[k].state # "FREE" => tail < b /\ slots[k].seq + 1 <= n
  BY <1>1, <1>4, ScanNumber
<1>11. /\ \A i \in Index : i < k /\ slots[i].state # "FREE" => slots[i].seq < pr.next
       /\ pr.next = 0 \/ (tail < b /\ pr.next <= n)
  BY <1>3, <1>6 DEF Scanned
<1>12. ScanNext = IF slots[k].state # "FREE" /\ slots[k].seq + 1 > pr.next
                    THEN slots[k].seq + 1 ELSE pr.next
  BY <1>6 DEF ScanNext
<1>13. /\ ScanNext = 0 \/ (tail < b /\ ScanNext <= n)
       /\ pr.next <= ScanNext /\ ScanNext \in Nat
       /\ slots[k].state # "FREE" => slots[k].seq < ScanNext
  <2>1. pr.next \in Nat /\ slots[k].seq \in Nat
    BY <1>1, <1>7
  <2>2. CASE slots[k].state # "FREE" /\ slots[k].seq + 1 > pr.next
    <3>1. ScanNext = slots[k].seq + 1
      BY <1>12, <2>2
    <3> QED BY <1>10, <2>1, <2>2, <3>1
  <2>3. CASE ~(slots[k].state # "FREE" /\ slots[k].seq + 1 > pr.next)
    <3>1. ScanNext = pr.next
      BY <1>12, <2>3
    <3>2. slots[k].state # "FREE" => slots[k].seq < pr.next
      BY <2>1, <2>3
    <3> QED BY <1>11, <2>1, <3>1, <3>2
  <2> QED BY <2>2, <2>3
<1>14. ASSUME NEW i \in Index, i < k + 1, slots[i].state # "FREE" PROVE slots[i].seq < ScanNext
  <2>1. CASE i = k
    BY <1>13, <1>14, <2>1
  <2>2. CASE i # k
    <3>1. i < k
      BY <1>1, <1>14, <2>2
    <3>2. slots[i].seq < pr.next /\ slots[i].seq \in Nat
      BY <1>1, <1>11, <1>14, <3>1 DEF SlotSet
    <3> QED BY <1>1, <1>13, <3>2
  <2> QED BY <2>1, <2>2
<1> QED BY <1>6, <1>8, <1>9, <1>13, <1>14

LEMMA NumberedScans ==
  ASSUME Base, NEW b \in Nat, Line(b), NEW n \in Int, Numbered(b, n), OpenScan
  PROVE  Numbered(b, n)'
<1>1. /\ Typed /\ LineNumbered(b, n) /\ TakerNumbered(b, n) /\ tail \in Nat /\ Cap \in Nat \ {0}
      /\ tail % Cap \in 0 .. Cap - 1 /\ Index = 0 .. Cap - 1
  BY ConsTyped DEF Base, Numbered, Index
<1>2. /\ pr.pc = "scan" /\ pr.k \in Index
      /\ IF pr.k + 1 < Cap THEN pr'.pc = "scan" /\ pr'.k = pr.k + 1
                           ELSE pr'.pc = "cursors" /\ pr'.k = 0
      /\ pr'.occ = ScanOcc /\ pr'.pins = ScanPins /\ pr'.next = ScanNext
      /\ UNCHANGED <<head, tail, slots, cons>>
  BY <1>1, ScanEffect
<1>3. /\ ScanPins = 0 /\ ScanOcc = Covers(tail % Cap, b - tail, pr.k + 1)
      /\ \A i \in Index : i < pr.k + 1 /\ slots[i].state # "FREE" => slots[i].seq < ScanNext
      /\ ScanNext = 0 \/ (tail < b /\ ScanNext <= n)
  BY ScanVisits
<1>4. Front' = Front
  BY <1>2 DEF Front, ConsAt
<1>5. LineNumbered(b, n)' /\ TakerNumbered(b, n)'
  BY <1>1, <1>2, <1>4, LineNumberedStays, TakerStays
<1>6. CASE pr.k + 1 < Cap
  <2>1. Scanned(b, n)'
    BY <1>2, <1>3, <1>6 DEF Scanned
  <2>2. MakerNumbered(b, n)'
    BY <1>2, <1>6, <2>1 DEF MakerNumbered, At
  <2> QED BY <1>5, <2>2 DEF Numbered
<1>7. CASE ~(pr.k + 1 < Cap)
  <2>1. PICK k \in 0 .. Cap - 1 : k = pr.k
    BY <1>1, <1>2
  <2>2. k + 1 = Cap
    BY <1>1, <1>7, <2>1
  <2>3. Front = tail /\ b \in tail .. tail + Cap
    BY <1>2, OpeningLine DEF Opening, Line, Run
  <2>4. ScanOcc = b - tail
    <3>1. b - tail \in 0 .. Cap
      BY <1>1, <2>3
    <3> QED BY <1>1, <1>3, <2>1, <2>2, <3>1, CoversSlots
  <2>5. ScanNext = IF tail < b THEN n ELSE 0
    <3>1. CASE tail < b
      <4>1. PICK i \in Index : slots[i].state # "FREE" /\ slots[i].seq + 1 = n
        BY <1>1, <2>3, <3>1, ScanNumber
      <4>2. i < k + 1
        BY <1>1, <2>2
      <4>3. slots[i].seq < ScanNext
        BY <1>3, <2>1, <4>1, <4>2
      <4>4. slots[i].seq \in Nat /\ ScanNext \in Nat
        <5>1. slots[i] \in SlotSet /\ slots[pr.k] \in SlotSet /\ pr.next \in Nat
          BY <1>1, <1>2, PrTyped
        <5>2. slots[i].seq \in Nat /\ slots[pr.k].seq \in Nat
          BY <5>1 DEF SlotSet
        <5> QED BY <5>1, <5>2 DEF ScanNext
      <4> QED BY <1>3, <3>1, <4>1, <4>3, <4>4
    <3>2. CASE ~(tail < b)
      BY <1>3, <3>2
    <3> QED BY <3>1, <3>2
  <2>6. Counted(b, n)'
    BY <1>2, <1>3, <2>4, <2>5 DEF Counted
  <2>7. MakerNumbered(b, n)'
    BY <1>2, <1>7, <2>6 DEF MakerNumbered, At
  <2> QED BY <1>5, <2>7 DEF Numbered
<1> QED BY <1>6, <1>7

\* The scan starts from nothing.
LEMMA MakerReclaims ==
  ASSUME Base, Single, OpenReclaim, NEW b \in tail .. tail + Cap, NEW n \in Int
  PROVE  MakerNumbered(b, n)'
<1>1. Typed /\ tail \in Nat /\ tail % Cap \in 0 .. Cap - 1 /\ Cap \in Nat \ {0}
      /\ Index = 0 .. Cap - 1
  BY ConsTyped DEF Base, Index
<1>2. /\ pr.pc = "reclaim" /\ tail' = tail /\ pr'.pc \in {"reclaim", "scan"}
      /\ pr'.pc = "scan" => pr'.k = 0
      /\ pr'.next = pr.next /\ pr'.occ = 0 /\ pr'.pins = 0
  BY <1>1, ReclaimEffect
<1>3. pr.next = 0
  BY <1>2 DEF Single
<1>4. Covers(tail % Cap, b - tail, 0) = 0
  <2>1. b - tail \in 0 .. Cap
    BY <1>1
  <2> QED BY <1>1, <2>1, CoversSlots
<1>5. \A i \in Index : ~(i < 0)
  BY <1>1
<1>6. pr'.pc = "scan" => Scanned(b, n)'
  BY <1>2, <1>3, <1>4, <1>5 DEF Scanned
<1> QED BY <1>2, <1>6 DEF MakerNumbered, At

LEMMA OpenFrees ==
  ASSUME Base, Single, Names, NEW b \in Nat, Line(b), OpenReclaim, DeadWriting(pr.k)
  PROVE  /\ b - 1 \in Nat /\ Line(b - 1)' /\ (InTurn => InTurn')
         /\ \A n \in Int : Numbered(b, n) => Numbered(b - 1, n - 1)'
<1>1. Typed /\ tail \in Nat /\ Index = 0 .. Cap - 1 /\ Cap \in Nat \ {0}
      /\ slots \in [0 .. Cap - 1 -> SlotSet]
  BY FrontTyped DEF Base, Index
<1>2. /\ pr.pc = "reclaim" /\ pr.k \in Index /\ pr'.pc \in {"reclaim", "scan"}
      /\ slots' = [slots EXCEPT ![pr.k] = FreeSlot]
      /\ UNCHANGED <<head, tail, cons, got>>
  BY <1>1, ReclaimEffect
<1>3. Front = tail /\ cons.pc \in {"idle", "dead"}
  BY <1>2, OpeningLine DEF Opening
<1>4. Front' = Front
  BY <1>2 DEF Front, ConsAt
<1>5. b - 1 \in Span(Front) /\ b - 1 \in Nat /\ pr.k = (b - 1) % Cap
      /\ ~Held(slots, b - 1) /\ NamedIn(slots, b - 1)
  BY <1>2, DeadIsLast
<1>6. Writes(slots', slots, b - 1, FreeSlot)
  BY <1>2, <1>5 DEF Writes
<1>7. cons.pc \notin {"release", "advance"} /\ cons'.pc \notin {"release", "advance"}
  BY <1>2, <1>3
<1>8. Line(b - 1)'
  BY <1>1, <1>2, <1>5, <1>6, <1>7, LineDrops
<1>9. InTurn => InTurn'
  BY <1>1, <1>2, <1>5, <1>6, <1>7, TurnDrops
<1>10. ASSUME NEW n \in Int, Numbered(b, n) PROVE Numbered(b - 1, n - 1)'
  <2>1. LineNumbered(b, n) /\ TakerNumbered(b, n)
    BY <1>10 DEF Numbered
  <2>2. LineNumbered(b - 1, n - 1)'
    BY <1>1, <1>2, <1>4, <1>5, <1>6, <2>1, NumbersDrop
  <2>3. b - 1 \in tail .. tail + Cap /\ n - 1 \in Int
    BY <1>1, <1>3, <1>5, SpanIn
  <2>4. MakerNumbered(b - 1, n - 1)'
    BY <2>3, MakerReclaims
  <2>5. TakerNumbered(b - 1, n - 1)'
    <3>1. Expecting => cons.expected + ((b - 1) - tail) = n - 1
      <4>1. cons.expected \in Nat
        BY <1>1, ConsTyped
      <4> QED BY <1>1, <2>1, <4>1 DEF TakerNumbered
    <3>2. Expecting' = Expecting /\ cons'.expected = cons.expected /\ tail' = tail
      BY <1>2 DEF Expecting, ConsAt
    <3> QED BY <1>2, <1>3, <3>1, <3>2 DEF TakerNumbered
  <2> QED BY <2>2, <2>4, <2>5 DEF Numbered
<1> QED BY <1>5, <1>8, <1>9, <1>10

LEMMA OpenSkips ==
  ASSUME Base, Single, NEW b \in Nat, Line(b), OpenReclaim, ~DeadWriting(pr.k)
  PROVE  /\ Line(b)' /\ (InTurn => InTurn')
         /\ \A n \in Int : Numbered(b, n) => Numbered(b, n)'
<1>1. Typed /\ tail \in Nat /\ Cap \in Nat \ {0}
  BY FrontTyped DEF Base
<1>2. /\ pr.pc = "reclaim" /\ pr'.pc \in {"reclaim", "scan"}
      /\ UNCHANGED <<head, tail, slots, cons, got>>
  BY <1>1, ReclaimEffect
<1>3. HandleAt(b)'
  BY <1>2 DEF HandleAt, Up, Opening, InSlot, At
<1>4. Line(b)' /\ (InTurn => InTurn') /\ Front' = Front
  BY <1>2, <1>3, LineMoves
<1>5. ASSUME NEW n \in Int, Numbered(b, n) PROVE Numbered(b, n)'
  <2>1. LineNumbered(b, n)' /\ TakerNumbered(b, n)'
    BY <1>2, <1>4, <1>5, LineNumberedStays, TakerStays DEF Numbered
  <2>2. b \in tail .. tail + Cap
    BY <1>2, OpeningLine DEF Opening, Line, Run
  <2>3. MakerNumbered(b, n)'
    BY <2>2, MakerReclaims
  <2> QED BY <2>1, <2>3 DEF Numbered
<1> QED BY <1>4, <1>5

\* The bias makes up for what the cursors miss, and the numbering goes on
\* where the line's ends.
LEMMA NumberedCursors ==
  ASSUME Base, NEW b \in Nat, Line(b), NEW n \in Int, Numbered(b, n), OpenCursors, met' = {}
  PROVE  \E m \in Int : Numbered(b, m)'
<1>1. /\ Typed /\ LineNumbered(b, n) /\ TakerNumbered(b, n) /\ MakerNumbered(b, n)
      /\ head \in Nat /\ tail \in Nat /\ pr.next \in Nat /\ cons.expected \in Nat
  BY ConsTyped, PrTyped DEF Base, Numbered
<1>2. /\ pr.pc = "cursors" /\ ~(tail > head) /\ ~Drained
      /\ pr'.pc = "infer" /\ pr'.next = pr.next /\ pr'.bias = Beyond(Pool, Beyond(head, tail))
      /\ UNCHANGED <<head, tail, slots, cons>>
  <2>1. pr.pc = "cursors" /\ ~(tail > head) /\ ~Drained
    BY <1>1, CursorsEffect
  <2>2. ~Inconsistent
    <3>1. Front = tail /\ b \in tail .. tail + Cap
      BY <2>1, OpeningLine DEF Opening, Line, Run
    <3>2. head <= b
      BY <1>1 DEF LineNumbered
    <3> QED BY <1>1, <2>1, <3>1, <3>2, CapAssumption DEF Inconsistent
  <2> QED BY <1>1, <2>1, <2>2, CursorsEffect
<1>3. /\ pr.occ = b - tail /\ pr.pins = 0 /\ pr.next = IF tail < b THEN n ELSE 0
  BY <1>1, <1>2 DEF MakerNumbered, Counted, At
<1>4. Front = tail /\ cons.pc \in {"idle", "dead"} /\ b \in tail .. tail + Cap
  BY <1>2, OpeningLine DEF Opening, Line, Run
<1>5. Front' = Front
  BY <1>2 DEF Front, ConsAt
<1>6. pr'.bias = b - head
  <2>1. head <= b /\ tail <= head
    BY <1>1, <1>2 DEF LineNumbered
  <2>2. Pool = b - tail
    BY <1>2, <1>3 DEF Pool
  <2>3. Beyond(head, tail) = head - tail
    BY <1>1, <2>1 DEF Beyond
  <2>4. Beyond(b - tail, head - tail) = b - head
    BY <1>1, <2>1 DEF Beyond
  <2> QED BY <1>2, <2>2, <2>3, <2>4
<1>7. b = head + (b - head)
  BY <1>1
<1>8. LineNumbered(b, pr.next)
  <2>1. Numbers(slots, Front, b, pr.next)
    <3>1. CASE tail < b
      BY <1>1, <1>3, <3>1 DEF LineNumbered
    <3>2. CASE ~(tail < b)
      <4>1. Front .. b - 1 = {}
        BY <1>1, <1>4, <3>2
      <4> QED BY <4>1 DEF Numbers
    <3> QED BY <3>1, <3>2
  <2> QED BY <1>1, <2>1 DEF LineNumbered
<1>9. TakerNumbered(b, pr.next)
  <2>1. Expecting => cons.expected + (b - tail) = pr.next
    <3>1. CASE tail < b
      BY <1>1, <1>3, <3>1 DEF TakerNumbered
    <3>2. CASE ~(tail < b)
      <4>1. b - tail = 0 /\ pr.occ + pr.pins = 0 /\ pr.next = 0
        BY <1>1, <1>3, <1>4, <3>2
      <4>2. Expecting => cons.expected = 0
        BY <1>1, <1>2, <1>4, <4>1 DEF Expecting, Drained
      <4> QED BY <1>1, <4>1, <4>2
    <3> QED BY <3>1, <3>2
  <2> QED BY <1>4, <2>1 DEF TakerNumbered
<1>10. PICK m \in Int : m = pr.next
  BY <1>1
<1>11. LineNumbered(b, m)'
  BY <1>2, <1>5, <1>8, <1>10, LineNumberedStays
<1>12. TakerNumbered(b, m)'
  BY <1>2, <1>9, <1>10, TakerStays
<1>13. MakerNumbered(b, m)'
  BY <1>2, <1>6, <1>7, <1>10 DEF MakerNumbered, At
<1> QED BY <1>11, <1>12, <1>13 DEF Numbered

-----------------------------------------------------------------------------
(* The whole: a line whose numbers follow, or a refused slot at the tail    *)

Lined ==
  \E b \in Nat : Line(b) /\ InTurn /\ (met = {} => \E n \in Int : Numbered(b, n))

OneLine == Names /\ Single /\ Ids /\ GotRises /\ (Lined \/ Stuck)

LEMMA LinedBy ==
  ASSUME NEW b \in Nat, Line(b)', InTurn',
         met' = {} => \E n \in Int : Numbered(b, n)'
  PROVE  Lined'
BY DEF Lined

ConsumerReads ==
  \/ RecvBegin \/ Gate \/ Verify \/ SecondLook \/ CopyPayload
  \/ ConsOpen \/ ConsOpenScan \/ ConsOpenExpect \/ ConsDie
  \/ (ConsOpenReclaim /\ ~DeadWriting(cons.k))

LEMMA ReadsOnly ==
  ASSUME Base, Single, ConsumerReads
  PROVE  /\ UNCHANGED <<head, tail, slots, pr, got, met>>
         /\ cons.pc \notin {"release", "advance"} /\ cons'.pc \notin {"release", "advance"}
<1>1. Typed
  BY DEF Base
<1>2. CASE RecvBegin
  BY <1>2, RecvBeginEffect
<1>3. CASE Gate
  BY <1>1, <1>3, GateEffect DEF Ended
<1>4. CASE Verify
  BY <1>1, <1>4, VerifyEffect DEF Ended
<1>5. CASE SecondLook
  BY <1>1, <1>5, SecondEffect DEF Ended
<1>6. CASE CopyPayload
  BY <1>1, <1>6, CopyEffect
<1>7. CASE ConsOpen
  BY <1>7, ConsOpenEffect
<1>8. CASE ConsOpenScan
  BY <1>1, <1>8, ConsScanEffect
<1>9. CASE ConsOpenExpect
  BY <1>1, <1>9, ConsExpectEffect DEF Ended, Refused
<1>10. CASE ConsDie
  BY <1>10, ConsDieEffect
<1>11. CASE ConsOpenReclaim /\ ~DeadWriting(cons.k)
  BY <1>1, <1>11, ConsReclaimEffect
<1> QED BY <1>2, <1>3, <1>4, <1>5, <1>6, <1>7, <1>8, <1>9, <1>10, <1>11 DEF ConsumerReads

LEMMA NumberedConsumerReads ==
  ASSUME Base, Single, NEW b \in Nat, Line(b), NEW n \in Int, Numbered(b, n), ConsumerReads
  PROVE  Numbered(b, n)'
<1>1. CASE ConsOpenReclaim /\ ~DeadWriting(cons.k)
  <2>1. Typed /\ LineNumbered(b, n) /\ TakerNumbered(b, n) /\ MakerNumbered(b, n)
    BY DEF Base, Numbered
  <2>2. /\ UNCHANGED <<head, tail, slots, pr>>
        /\ cons.pc \notin {"release", "advance"} /\ cons'.pc \notin {"release", "advance"}
    BY ReadsOnly
  <2>3. /\ cons.pc = "reclaim" /\ cons'.pc \in {"reclaim", "scan"} /\ cons'.readable = cons.readable
    BY <1>1, <2>1, ConsReclaimEffect
  <2>4. ~cons.readable
    BY <2>3 DEF Single
  <2>5. TakerNumbered(b, n)'
    BY <2>3, <2>4 DEF TakerNumbered, Expecting, ConsAt
  <2>6. Front' = Front
    BY <2>2 DEF Front, ConsAt
  <2>7. LineNumbered(b, n)' /\ MakerNumbered(b, n)'
    BY <2>1, <2>2, <2>6, LineNumberedStays, MakerStays
  <2> QED BY <2>5, <2>7 DEF Numbered
<1> QED BY <1>1, NumberedReads DEF ConsumerReads

LEMMA LinedConsumer ==
  ASSUME Base, Names, Single, Ids, GotRises, Lined, ConsumerStep \/ ReclaimStale \/ ConsDie
  PROVE  GotRises' /\ (Lined' \/ Stuck')
<1>1. Typed
  BY DEF Base
<1>2. PICK b \in Nat : Line(b) /\ InTurn /\ (met = {} => \E n \in Int : Numbered(b, n))
  BY DEF Lined
<1>3. CASE ConsumerReads
  <2>1. /\ UNCHANGED <<head, tail, slots, pr, got, met>>
        /\ cons.pc \notin {"release", "advance"} /\ cons'.pc \notin {"release", "advance"}
    BY <1>3, ReadsOnly
  <2>2. Line(b)' /\ InTurn'
    BY <1>1, <1>2, <2>1, LineSame, TurnSame
  <2>3. met' = {} => \E n \in Int : Numbered(b, n)'
    BY <1>2, <1>3, <2>1, NumberedConsumerReads
  <2>4. GotRises'
    BY <2>1 DEF GotRises
  <2> QED BY <2>2, <2>3, <2>4, LinedBy
<1>4. CASE ConsumerFrees
  <2>1. /\ b - 1 \in Span(Front) /\ b - 1 \in Nat /\ ~Held(slots, b - 1)
        /\ Writes(slots', slots, b - 1, FreeSlot) /\ pr.pc = "dead"
        /\ UNCHANGED <<tail, pr, got, met>>
        /\ cons.pc \in {"free", "idle", "reclaim"}
        /\ cons'.pc \in {"verify", "idle", "reclaim", "scan"}
    BY <1>2, <1>4, ConsumerDrops
  <2>2. cons.pc \notin {"release", "advance"} /\ cons'.pc \notin {"release", "advance"}
        /\ pr'.pc \in {"dead", "reclaim", "scan"}
    BY <2>1
  <2>3. Line(b - 1)'
    BY <1>1, <1>2, <2>1, <2>2, LineDrops
  <2>4. InTurn'
    BY <1>1, <1>2, <2>1, <2>2, TurnDrops
  <2>5. ASSUME met' = {} PROVE \E n \in Int : Numbered(b - 1, n)'
    <3>1. PICK n \in Int : Numbered(b, n)
      BY <1>2, <2>1, <2>5
    <3>2. Numbered(b - 1, n - 1)'
      BY <1>2, <1>4, <3>1, NumberedConsumerDrops
    <3>3. n - 1 \in Int
      OBVIOUS
    <3> QED BY <3>2, <3>3
  <2>6. GotRises'
    BY <2>1 DEF GotRises
  <2> QED BY <2>1, <2>3, <2>4, <2>5, <2>6, LinedBy
<1>5. CASE PinSlot
  <2>1. /\ cons.pc = "pin" /\ slots' = [slots EXCEPT ![TailIdx] = Pinned]
        /\ UNCHANGED <<tail, got, met>>
    BY <1>1, <1>5, PinEffect
  <2>2. GotRises'
    BY <2>1 DEF GotRises
  <2>3. CASE ~Rejected
    <3>1. Line(b)' /\ InTurn'
      BY <1>2, <1>5, <2>3, LinePins
    <3>2. met' = {} => \E n \in Int : Numbered(b, n)'
      BY <1>2, <1>5, <2>1, NumberedPins
    <3> QED BY <2>2, <3>1, <3>2, LinedBy
  <2>4. CASE Rejected
    <3>1. met # {}
      BY <1>2, <1>5, <2>4, PinsExpected
    <3>2. cons'.pc = "idle"
      BY <1>1, <1>5, <2>4, PinEffect DEF Ended
    <3>3. TailIdx = tail % Cap /\ TailIdx \in 0 .. Cap - 1 /\ slots \in [0 .. Cap - 1 -> SlotSet]
      BY <1>1, <2>1, TailRead, ConsTyped, PrTyped DEF Reading
    <3>4. slots'[tail' % Cap].state = "PINNED"
      BY <2>1, <3>3 DEF Pinned
    <3> QED BY <2>1, <2>2, <3>1, <3>2, <3>4 DEF Stuck, ConsAt
  <2> QED BY <2>3, <2>4
<1>6. CASE FreeTail
  <2>1. UNCHANGED <<got, met>>
    BY <1>1, <1>6, FreeTailEffect
  <2>2. Line(b)' /\ InTurn'
    BY <1>2, <1>6, LineReleases
  <2>3. met' = {} => \E n \in Int : Numbered(b, n)'
    BY <1>2, <1>6, <2>1, NumberedReleases
  <2>4. GotRises'
    BY <2>1 DEF GotRises
  <2> QED BY <2>2, <2>3, <2>4, LinedBy
<1>7. CASE AdvanceTail
  <2>1. UNCHANGED met
    BY <1>1, <1>7, AdvanceEffect
  <2>2. Line(b)' /\ InTurn' /\ GotRises'
    BY <1>2, <1>7, LineAdvances
  <2>3. met' = {} => \E n \in Int : Numbered(b, n)'
    BY <1>2, <1>7, <2>1, NumberedAdvances
  <2> QED BY <2>2, <2>3, LinedBy
<1> QED BY <1>3, <1>4, <1>5, <1>6, <1>7 DEF ConsumerStep, ConsumerReads, ConsumerFrees

LEMMA LinedProducer ==
  ASSUME Base, Names, Single, Ids, GotRises, Lined,
         \/ \E n \in scenario.sizes : SendBegin(n)
         \/ ProducerStep \/ Die \/ Open
  PROVE  GotRises' /\ Lined'
<1>1. Typed
  BY DEF Base
<1>2. PICK b \in Nat : Line(b) /\ InTurn /\ (met = {} => \E n \in Int : Numbered(b, n))
  BY DEF Lined
<1>3. UNCHANGED got /\ (met' = {} => met = {})
  <2>1. CASE OpenCursors
    BY <1>1, <2>1, CursorsEffect
  <2> QED BY <2>1 DEF SendBegin, ProducerStep, Die, Open, ClaimSlot, MarkSlot, StampSlot, FillSlot,
            CommitSlot, PublishHead, OpenReclaim, OpenScan, OpenInfer
<1>4. GotRises'
  BY <1>3 DEF GotRises
<1>g. ASSUME Line(b)', InTurn', \A n \in Int : Numbered(b, n) => Numbered(b, n)'
      PROVE  Lined'
  BY <1>2, <1>3, <1>g, LinedBy
<1>m. ASSUME \/ \E n \in scenario.sizes : SendBegin(n)
             \/ ClaimSlot \/ PublishHead \/ Die \/ Open \/ OpenScan \/ OpenCursors \/ OpenInfer
      PROVE  Line(b)' /\ InTurn'
  <2>1. UNCHANGED <<tail, slots, cons, got>>
    BY <1>m DEF SendBegin, ClaimSlot, PublishHead, Die, Open, OpenScan, OpenCursors, OpenInfer
  <2>2. HandleAt(b)'
    BY <1>2, <1>m, HandleMoves
  <2> QED BY <1>2, <2>1, <2>2, LineMoves
<1>5. CASE (\E n \in scenario.sizes : SendBegin(n)) \/ ClaimSlot \/ PublishHead \/ Die \/ Open
  <2>1. Line(b)' /\ InTurn'
    BY <1>5, <1>m
  <2>2. \A n \in Int : Numbered(b, n) => Numbered(b, n)'
    BY <1>2, <1>5, NumberedSends
  <2> QED BY <1>4, <1>g, <2>1, <2>2
<1>6. CASE MarkSlot
  <2>1. Line(b + 1)' /\ InTurn' /\ b + 1 \in Nat
    BY <1>2, <1>6, LineTakes
  <2>2. ASSUME met' = {} PROVE \E n \in Int : Numbered(b + 1, n)'
    <3>1. PICK n \in Int : Numbered(b, n)
      BY <1>2, <1>3, <2>2
    <3>2. Numbered(b + 1, n + 1)'
      BY <1>2, <1>6, <3>1, NumberedTakes
    <3>3. n + 1 \in Int
      OBVIOUS
    <3> QED BY <3>2, <3>3
  <2> QED BY <1>4, <2>1, <2>2, LinedBy
<1>7. CASE StampSlot \/ FillSlot \/ CommitSlot
  <2>1. Line(b)' /\ InTurn'
    BY <1>2, <1>7, LineFills, LineCommits
  <2>2. \A n \in Int : Numbered(b, n) => Numbered(b, n)'
    BY <1>2, <1>7, NumberedFills
  <2> QED BY <1>4, <1>g, <2>1, <2>2
<1>8. CASE OpenReclaim /\ DeadWriting(pr.k)
  <2>1. b - 1 \in Nat /\ Line(b - 1)' /\ InTurn'
    BY <1>2, <1>8, OpenFrees
  <2>2. ASSUME met' = {} PROVE \E n \in Int : Numbered(b - 1, n)'
    <3>1. PICK n \in Int : Numbered(b, n)
      BY <1>2, <1>3, <2>2
    <3>2. Numbered(b - 1, n - 1)'
      BY <1>2, <1>8, <3>1, OpenFrees
    <3>3. n - 1 \in Int
      OBVIOUS
    <3> QED BY <3>2, <3>3
  <2> QED BY <1>4, <2>1, <2>2, LinedBy
<1>9. CASE OpenReclaim /\ ~DeadWriting(pr.k)
  <2>1. Line(b)' /\ InTurn' /\ \A n \in Int : Numbered(b, n) => Numbered(b, n)'
    BY <1>2, <1>9, OpenSkips
  <2> QED BY <1>4, <1>g, <2>1
<1>10. CASE OpenScan \/ OpenInfer
  <2>1. Line(b)' /\ InTurn'
    BY <1>10, <1>m
  <2>2. \A n \in Int : Numbered(b, n) => Numbered(b, n)'
    BY <1>2, <1>10, NumberedScans, NumberedInfers
  <2> QED BY <1>4, <1>g, <2>1, <2>2
<1>11. CASE OpenCursors
  <2>1. Line(b)' /\ InTurn'
    BY <1>11, <1>m
  <2>2. met' = {} => \E n \in Int : Numbered(b, n)'
    BY <1>2, <1>3, <1>11, NumberedCursors
  <2> QED BY <1>4, <2>1, <2>2, LinedBy
<1> QED BY <1>5, <1>6, <1>7, <1>8, <1>9, <1>10, <1>11 DEF ProducerStep

\* Nobody writes a refused slot, and the consumer gets no further.
LEMMA StuckConsumer ==
  ASSUME Base, Single, GotRises, Stuck, ConsumerStep \/ ReclaimStale \/ ConsDie
  PROVE  GotRises' /\ Stuck'
<1>1. Typed /\ met # {} /\ slots[tail % Cap].state = "PINNED" /\ tail % Cap \in 0 .. Cap - 1
      /\ cons.pc \in {"idle", "dead", "gate", "verify", "second", "reclaim", "scan", "expect"}
      /\ slots \in [0 .. Cap - 1 -> SlotSet]
  BY PrTyped, ConsTyped DEF Base, Stuck
<1>2. ~DeadWriting(tail % Cap)
  BY <1>1 DEF DeadWriting
<1>3. cons.pc \in Reading => TailIdx = tail % Cap
  BY TailRead
<1>e. ASSUME UNCHANGED <<tail, met, got>>, slots'[tail % Cap] = slots[tail % Cap],
             cons'.pc \in {"idle", "dead", "gate", "second", "reclaim", "scan", "expect"}
      PROVE  GotRises' /\ Stuck'
  BY <1>1, <1>e DEF GotRises, Stuck, ConsAt
<1>4. CASE ConsumerReads
  <2>1. UNCHANGED <<tail, slots, got, met>>
    BY <1>4, ReadsOnly
  <2>2. CASE RecvBegin
    BY <1>e, <2>1, <2>2, RecvBeginEffect
  <2>3. CASE Gate
    <3>1. cons.pc = "gate"
      BY <1>1, <2>3, GateEffect
    <3>2. slots[TailIdx].state # "COMMITTED"
      BY <1>1, <1>3, <3>1 DEF Reading
    <3>3. cons'.pc = "idle" \/ (cons'.pc = "verify" /\ cons'.k = tail % Cap)
      BY <1>1, <1>3, <2>3, <3>1, <3>2, GateEffect DEF Ended, Reading
    <3>4. CASE cons'.pc = "idle"
      BY <1>e, <2>1, <3>4
    <3>5. CASE cons'.pc = "verify" /\ cons'.k = tail % Cap
      BY <1>1, <2>1, <3>5 DEF GotRises, Stuck, ConsAt
    <3> QED BY <3>3, <3>4, <3>5
  <2>4. CASE Verify
    <3>1. cons.pc = "verify" /\ cons.k = tail % Cap
      BY <1>1, <2>4, VerifyEffect DEF Stuck, ConsAt
    <3>2. cons'.pc \in {"idle", "second"}
      BY <1>1, <1>2, <2>4, <3>1, VerifyEffect DEF Ended
    <3> QED BY <1>e, <2>1, <3>2
  <2>5. CASE SecondLook
    <3>1. cons.pc = "second"
      BY <1>1, <2>5, SecondEffect
    <3>2. slots[TailIdx].state # "COMMITTED"
      BY <1>1, <1>3, <3>1 DEF Reading
    <3>3. cons'.pc = "idle"
      BY <1>1, <2>5, <3>2, SecondEffect DEF Ended
    <3> QED BY <1>e, <2>1, <3>3
  <2>6. CASE CopyPayload
    BY <1>1, <2>6, CopyEffect
  <2>7. CASE ConsOpen \/ ConsOpenScan \/ ConsOpenExpect \/ ConsDie
    <3>1. cons'.pc \in {"reclaim", "scan", "expect", "idle", "dead"}
      BY <1>1, <2>7, ConsOpenEffect, ConsScanEffect, ConsExpectEffect, ConsDieEffect
      DEF Ended, Refused
    <3> QED BY <1>e, <2>1, <3>1
  <2>8. CASE ConsOpenReclaim
    BY <1>1, <1>e, <2>1, <2>8, ConsReclaimEffect
  <2> QED BY <1>4, <2>2, <2>3, <2>4, <2>5, <2>6, <2>7, <2>8 DEF ConsumerReads
<1>5. CASE ConsOpenReclaim /\ DeadWriting(cons.k)
  <2>1. /\ cons'.pc \in {"reclaim", "scan"} /\ slots' = [slots EXCEPT ![cons.k] = FreeSlot]
        /\ UNCHANGED <<tail, got, met>>
    BY <1>1, <1>5, ConsReclaimEffect
  <2>2. slots'[tail % Cap] = slots[tail % Cap]
    BY <1>1, <1>2, <1>5, <2>1
  <2> QED BY <1>e, <2>1, <2>2
<1>6. CASE ReclaimStale
  <2>1. cons'.pc = "idle" /\ UNCHANGED <<tail, got, met>>
    BY <1>1, <1>6, StaleEffect
  <2>2. PICK stale \in SUBSET (0 .. Cap - 1) :
          /\ \A i \in stale : DeadWriting(i)
          /\ slots' = [i \in 0 .. Cap - 1 |-> IF i \in stale THEN FreeSlot ELSE slots[i]]
    BY <1>1, <1>6, StaleEffect
  <2>3. slots'[tail % Cap] = slots[tail % Cap]
    BY <1>1, <1>2, <2>2
  <2> QED BY <1>e, <2>1, <2>3
<1>7. CASE FreeDead \/ PinSlot \/ FreeTail \/ AdvanceTail
  BY <1>1, <1>7, FreeDeadEffect, PinEffect, FreeTailEffect, AdvanceEffect
<1> QED BY <1>4, <1>5, <1>6, <1>7 DEF ConsumerStep, ConsumerReads

LEMMA StuckProducer ==
  ASSUME Base, Single, GotRises, Stuck,
         \/ \E n \in scenario.sizes : SendBegin(n)
         \/ ProducerStep \/ Die \/ Open
  PROVE  GotRises' /\ Stuck'
<1>1. Typed /\ met # {} /\ slots[tail % Cap].state = "PINNED" /\ tail % Cap \in 0 .. Cap - 1
      /\ slots \in [0 .. Cap - 1 -> SlotSet] /\ pr.idx \in 0 .. Cap - 1
  BY PrTyped, ConsTyped DEF Base, Stuck
<1>2. ~DeadWriting(tail % Cap)
  BY <1>1 DEF DeadWriting
<1>3. UNCHANGED <<tail, got, cons>> /\ met \subseteq met'
  <2>1. CASE OpenCursors
    BY <1>1, <2>1, CursorsEffect
  <2> QED BY <2>1 DEF SendBegin, ProducerStep, Die, Open, ClaimSlot, MarkSlot, StampSlot, FillSlot,
            CommitSlot, PublishHead, OpenReclaim, OpenScan, OpenInfer
<1>4. slots'[tail % Cap] = slots[tail % Cap]
  <2>1. ASSUME NEW x, Lot(x), pr.pc \in {"mark", "stamp", "fill", "commit"}
        PROVE  slots'[tail % Cap] = slots[tail % Cap]
    <3>1. slots[pr.idx].state # "PINNED"
      BY <2>1 DEF Base, WriterInv, At
    <3> QED BY <1>1, <2>1, <3>1 DEF Lot
  <2>2. CASE MarkSlot
    BY <1>1, <2>1, <2>2, MarkEffect
  <2>3. CASE StampSlot
    BY <1>1, <2>1, <2>3, StampEffect
  <2>4. CASE FillSlot
    BY <1>1, <2>1, <2>4, FillEffect
  <2>5. CASE CommitSlot
    BY <1>1, <2>1, <2>5, CommitEffect
  <2>6. CASE OpenReclaim
    <3>1. pr.k \in 0 .. Cap - 1
          /\ IF DeadWriting(pr.k) THEN slots' = [slots EXCEPT ![pr.k] = FreeSlot] ELSE slots' = slots
      BY <1>1, <2>6, ReclaimEffect
    <3> QED BY <1>1, <1>2, <3>1
  <2> QED BY <2>2, <2>3, <2>4, <2>5, <2>6
          DEF SendBegin, ProducerStep, Die, Open, ClaimSlot, PublishHead, OpenScan, OpenCursors, OpenInfer
<1> QED BY <1>1, <1>3, <1>4 DEF GotRises, Stuck, ConsAt

-----------------------------------------------------------------------------

LEMMA OneLineInit == Init /\ Typed => OneLine
<1> SUFFICES ASSUME Init, Typed PROVE OneLine
  OBVIOUS
<1>1. /\ head = 0 /\ tail = 0 /\ slots = [i \in 0 .. Cap - 1 |-> FreeSlot] /\ pr = Producer
      /\ cons = [Consumer EXCEPT !.resync = TRUE] /\ sent = <<>> /\ got = <<>> /\ met = {}
      /\ Cap \in Nat \ {0}
  BY CapAssumption DEF Init
<1>2. /\ pr.pc = "idle" /\ pr.inc = 1 /\ pr.idx = 0 /\ pr.bias = 0 /\ pr.next = 0
      /\ cons.pc = "idle" /\ cons.resync /\ cons.part = 0 /\ cons.frame = Cleared
      /\ cons.first = Cleared
  BY <1>1 DEF Producer, Consumer
<1>3. \A i \in Index : slots[i] = FreeSlot
  BY <1>1 DEF Index
<1>4. FreeSlot.state = "FREE" /\ FreeSlot.owner = 0 /\ FreeSlot.frame = Cleared
  BY DEF FreeSlot
<1>5. Names
  BY <1>2, <1>3, <1>4 DEF Names, Named
<1>6. Single
  BY <1>2, <1>3, <1>4, ClearedFields DEF Single, Writing, Reading
<1>7. Ids /\ GotRises
  BY <1>1, <1>2, <1>3, <1>4 DEF Ids, GotRises, Holds, At, ConsAt
<1>8. Front = 0
  BY <1>1, <1>2 DEF Front, ConsAt
<1>9. \A q \in Span(0) : Cell(slots, q) = FreeSlot /\ ~(q < 0)
  <2>1. \A q \in Span(0) : q % Cap \in Index /\ q \in Nat
    BY SpanIn DEF Index
  <2>2. \A q \in Span(0) : Cell(slots, q) = FreeSlot
    BY <1>3, <2>1 DEF Cell
  <2>3. \A q \in Nat : ~(q < 0)
    OBVIOUS
  <2> QED BY <2>1, <2>2, <2>3
<1>10. Run(slots, 0, 0)
  <2>1. 0 \in 0 .. 0 + Cap
    BY <1>1
  <2>2. \A q \in Span(0) : Cell(slots, q).state # "FREE" <=> q < 0
    BY <1>4, <1>9
  <2> QED BY <2>1, <2>2 DEF Run
<1>11. LastNamed(slots, 0, 0) /\ Rising(slots, 0)
  BY <1>4, <1>9 DEF LastNamed, NamedIn, Rising, Held
<1>12. PinsRead
  BY <1>4, <1>8, <1>9 DEF PinsRead
<1>13. HandleAt(0)
  <2>1. 0 % Cap = 0
    BY <1>1, SlotOf
  <2> QED BY <1>2, <2>1 DEF HandleAt, InSlot, At
<1>14. Line(0) /\ InTurn
  BY <1>1, <1>2, <1>8, <1>10, <1>11, <1>12, <1>13 DEF Line, InTurn, ConsAt
<1>15. Numbered(0, 0)
  <2>1. LineNumbered(0, 0)
    <3>1. Numbers(slots, 0, 0, 0)
      BY DEF Numbers
    <3>2. head <= 0 /\ 0 <= tail + Cap
      BY <1>1
    <3>3. \A q \in Span(0) : ~NamedIn(slots, q)
      BY <1>4, <1>9 DEF NamedIn
    <3> QED BY <1>8, <3>1, <3>2, <3>3 DEF LineNumbered
  <2>2. TakerNumbered(0, 0)
    BY <1>2 DEF TakerNumbered, Expecting, ConsAt
  <2>3. MakerNumbered(0, 0)
    BY <1>1, <1>2 DEF MakerNumbered, At
  <2> QED BY <2>1, <2>2, <2>3 DEF Numbered
<1>16. Lined
  BY <1>14, <1>15 DEF Lined
<1> QED BY <1>5, <1>6, <1>7, <1>16 DEF OneLine

LEMMA OneLineNext ==
  ASSUME Base, OneLine, Next
  PROVE  OneLine'
<1>1. Names /\ Single /\ Ids /\ GotRises /\ (Lined \/ Stuck)
  BY DEF OneLine
<1>2. CASE ConsumerStep \/ ReclaimStale \/ ConsDie
  <2>1. Names' /\ Single' /\ Ids'
    BY <1>1, <1>2, NamesConsumer, SingleConsumer, IdsConsumer
  <2>2. GotRises' /\ (Lined' \/ Stuck')
    BY <1>1, <1>2, LinedConsumer, StuckConsumer
  <2> QED BY <2>1, <2>2 DEF OneLine
<1>3. CASE (\E n \in scenario.sizes : SendBegin(n)) \/ ProducerStep \/ Die \/ Open
  <2>1. Names' /\ Single' /\ Ids'
    BY <1>1, <1>3, NamesProducer, SingleProducer, IdsProducer
  <2>2. GotRises' /\ (Lined' \/ Stuck')
    BY <1>1, <1>3, LinedProducer, StuckProducer
  <2> QED BY <2>1, <2>2 DEF OneLine
<1> QED BY <1>2, <1>3 DEF Next

LEMMA OneLineStutter ==
  ASSUME OneLine, UNCHANGED vars
  PROVE  OneLine'
<1>1. /\ Names' = Names /\ Single' = Single /\ Ids' = Ids /\ GotRises' = GotRises /\ Stuck' = Stuck
  BY DEF vars, Names, Named, Single, Ids, Known, Holds, At, ConsAt, TailIdx, GotRises, Stuck
<1>2. ASSUME NEW b \in Nat, Line(b) PROVE Line(b)'
  BY <1>2 DEF vars, Line, PinsRead, HandleAt, Front, At, ConsAt, Up
<1>3. InTurn => InTurn'
  BY DEF vars, InTurn, Front, ConsAt, GotBelow
<1>4. ASSUME NEW b \in Nat, NEW n \in Int, Numbered(b, n) PROVE Numbered(b, n)'
  BY <1>4 DEF vars, Numbered, LineNumbered, TakerNumbered, MakerNumbered, Scanned, Counted, Expecting,
              Front, At, ConsAt, TailIdx, NamedIn
<1>5. Lined => Lined'
  BY <1>2, <1>3, <1>4 DEF Lined, vars
<1> QED BY <1>1, <1>5 DEF OneLine

LineInv == IInv /\ (SingleSlot => OneLine)

LEMMA LineInvInit == Init => LineInv
<1>1. Init => IInv /\ Typed
  BY TypedInit, QuietInit DEF IInv
<1> QED BY <1>1, OneLineInit DEF LineInv

LEMMA LineInvNext == LineInv /\ [Next]_vars => LineInv'
<1> SUFFICES ASSUME LineInv, [Next]_vars PROVE LineInv'
  OBVIOUS
<1>1. IInv /\ IInv'
  BY QuietNext DEF LineInv
<1>2. SingleSlot' => SingleSlot
  BY ScenarioFixed DEF SingleSlot
<1>3. ASSUME SingleSlot PROVE OneLine'
  <2>1. Base /\ OneLine
    BY <1>1, <1>3 DEF IInv, Base, SingleSlot, LineInv
  <2> QED BY <2>1, OneLineNext, OneLineStutter
<1> QED BY <1>1, <1>2, <1>3 DEF LineInv

\* Killed and restarted as often as you like, on either side, with one-slot
\* messages and a consumer not killed between pinning a slot and moving the
\* tail past it: what recv returns was committed in full, once, and in order.
THEOREM RecoveryDeliversInOrder == Spec => [](SingleSlot => ReceivedInOrder)
<1>1. LineInv => (SingleSlot => ReceivedInOrder)
  <2> SUFFICES ASSUME LineInv, SingleSlot PROVE ReceivedInOrder
    OBVIOUS
  <2>1. Ids /\ GotRises
    BY DEF LineInv, OneLine
  <2> QED BY <2>1 DEF Ids, Known, GotRises, ReceivedInOrder
<1> QED BY <1>1, LineInvInit, LineInvNext, PTL DEF Spec

\* "So the send guard never over-commits a physically full ring": what the
\* guard admits after any number of recoveries finds a FREE slot, unless an
\* opening met what recovery cannot repair.
THEOREM RecoveredGuardFindsRoom == Spec => [](SingleSlot => ClaimFindsFree)
<1>1. LineInv => (SingleSlot => ClaimFindsFree)
  <2> SUFFICES ASSUME LineInv, SingleSlot, At("claim"), met = {} PROVE slots[pr.idx].state = "FREE"
    BY DEF ClaimFindsFree
  <2>1. Typed /\ Lined
    BY DEF LineInv, IInv, OneLine, Stuck
  <2>2. PICK b \in Nat, n \in Int : Line(b) /\ Numbered(b, n)
    BY <2>1 DEF Lined
  <2> QED BY <2>1, <2>2, RoomAtEnd DEF Numbered, At
<1> QED BY <1>1, LineInvInit, LineInvNext, PTL DEF Spec

\* The write position infer_head_from_tail finds is where the cursors and the
\* counted leftovers put it, after any number of recoveries.
THEOREM RecoveredPositionAgrees == Spec => [](SingleSlot => PositionRecovered)
<1>1. LineInv => (SingleSlot => PositionRecovered)
  <2> SUFFICES ASSUME LineInv, SingleSlot, At("idle"), met = {} PROVE pr.idx = (head + pr.bias) % Cap
    BY DEF PositionRecovered
  <2>1. Typed /\ Lined
    BY DEF LineInv, IInv, OneLine, Stuck
  <2>2. PICK b \in Nat, n \in Int : Line(b) /\ Numbered(b, n)
    BY <2>1 DEF Lined
  <2>3. pr.idx = b % Cap /\ b = head + pr.bias
    BY <2>2 DEF Line, HandleAt, Numbered, MakerNumbered, Up, Opening, InSlot, At
  <2> QED BY <2>3
<1> QED BY <1>1, LineInvInit, LineInvNext, PTL DEF Spec
=============================================================================
