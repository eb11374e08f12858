--------------------------- MODULE ZeroCopyProofs ---------------------------
(***************************************************************************)
(* Proofs about ZeroCopy for every capacity and every scenario: however    *)
(* leases, sends, receives, releases, deaths and cleanups interleave,      *)
(*   - a slot that a view or a lease holds is changed by its holder alone, *)
(*   - what the send guard admits finds a FREE slot (GuardFindsRoom),      *)
(*   - messages are received in the order of their slots (ReceivedInTurn), *)
(*   - the pin floor is below every view, and gone when there is no pin    *)
(*     (FloorExactly, GuardSeesViews).                                     *)
(* They build on one another: who holds a slot (IInv), where the cursors   *)
(* put every slot (Ring), what the floor is below (Floored), what waits    *)
(* between the cursors (OrderInv), and what is pinned (Exact).             *)
(***************************************************************************)
EXTENDS ZeroCopy, RingArithmetic, FiniteSetTheorems, SequenceTheorems, WellFoundedInduction, TLAPS

SlotSet == [state : SlotState, seq : Nat, owner : Nat, msg : Nat]
ProducerSet ==
  [pc : {"idle", "floor", "claim", "mark", "commit", "publish", "lease"},
   op : {"none", "send", "alloc"}, idx : 0 .. Cap - 1, t : Nat, bias : 0 .. Cap, next : Nat,
   id : Nat, aborted : Nat]
ConsumerSet ==
  [pc : {"idle", "gate", "pin", "stamp", "lower", "cas", "keep", "take", "free",
         "advance", "dead", "rescan"},
   inc : Nat, op : {"none", "view", "recv"}, t : Nat, expected : Nat, resync : BOOLEAN,
   floor : Nat, tries : Nat]
ReleaseSet == [pc : {"none", "entry", "scan", "raise"}, c : Nat, entry : Nat, next : Nat]
LeaseSet == [idx : 0 .. Cap - 1, seq : Nat]

\* Typing needs the number a send has taken: it is at least one.
Typed ==
  /\ TypeOK
  /\ pr.pc \in {"claim", "mark", "commit"} => pr.next >= 1

LEMMA Facts ==
  ASSUME Typed
  PROVE  /\ Cap \in Nat \ {0} /\ scenario \in Scenarios
         /\ head \in Nat /\ tail \in Nat /\ floor \in Nat /\ slots \in [0 .. Cap - 1 -> SlotSet]
         /\ pr \in ProducerSet /\ leases \subseteq LeaseSet /\ cons \in ConsumerSet
         /\ views \subseteq Nat /\ rel \in ReleaseSet
         /\ sent \in Seq(Nat \X Nat) /\ got \in Seq(Nat) /\ met \subseteq {"spent", "overcounted"}
         /\ pr.pc \in {"claim", "mark", "commit"} => pr.next >= 1
  BY CapAssumption
  DEF Typed, TypeOK, Slots, SlotSet, ProducerSet, LeaseSet, ConsumerSet, ReleaseSet

LEMMA TypedFrom ==
  ASSUME scenario' \in Scenarios,
         head' \in Nat, tail' \in Nat, floor' \in Nat, slots' \in [0 .. Cap - 1 -> SlotSet],
         pr' \in ProducerSet, leases' \subseteq LeaseSet, cons' \in ConsumerSet,
         views' \subseteq Nat, rel' \in ReleaseSet,
         sent' \in Seq(Nat \X Nat), got' \in Seq(Nat), met' \subseteq {"spent", "overcounted"},
         pr'.pc \in {"claim", "mark", "commit"} => pr'.next >= 1
  PROVE  Typed'
  BY DEF Typed, TypeOK, Slots, SlotSet, ProducerSet, LeaseSet, ConsumerSet, ReleaseSet

\* A cursor falls on a slot.
LEMMA IdxIn == ASSUME NEW c \in Nat PROVE Idx(c) \in 0 .. Cap - 1
  BY CapAssumption DEF Idx

LEMMA MinIn ==
  ASSUME NEW T, T \subseteq Nat, T # {}
  PROVE  Min(T) \in T
<1> DEFINE R == OpToRel(<, Nat)
<1>1. IsWellFoundedOn(R, Nat)
  BY NatLessThanWellFounded
<1>2. \A x, y \in Nat : <<x, y>> \in R <=> x < y
  BY DEF OpToRel
<1> HIDE DEF R
<1>3. PICK x \in T : \A y \in T : ~ (<<y, x>> \in R)
  BY <1>1, WFMin
<1>4. ASSUME NEW y \in T PROVE x <= y
  <2>1. x \in Nat /\ y \in Nat /\ ~ (<<y, x>> \in R)
    BY <1>3
  <2>2. ~ (y < x)
    BY <1>2, <2>1
  <2> QED BY <2>1, <2>2
<1> QED BY <1>3, <1>4 DEF Min

\* The floor a scan finds is a cursor value.
LEMMA LowestPinIn ==
  ASSUME NEW s, NEW from \in Nat, NEW to \in Nat
  PROVE  LowestPin(s, from, to) \in Nat
<1> DEFINE pins == {c \in from .. to - 1 : s[Idx(c)].state = "PINNED"}
<1>1. pins \subseteq Nat
  OBVIOUS
<1>2. pins # {} => Min(pins) \in Nat
  BY <1>1, MinIn
<1> QED BY <1>2 DEF LowestPin, None

LEMMA WindowStartIn == ASSUME NEW t \in Nat PROVE WindowStart(t) \in Nat
  BY CapAssumption DEF WindowStart

LEMMA ReclaimedIn ==
  ASSUME slots \in [0 .. Cap - 1 -> SlotSet], NEW dead
  PROVE  Reclaimed(dead) \in [0 .. Cap - 1 -> SlotSet]
  BY DEF Reclaimed, FreeSlot, SlotSet, SlotState

LEMMA SentWithIn ==
  ASSUME sent \in Seq(Nat \X Nat), NEW seq \in Nat, NEW msg \in Nat
  PROVE  SentWith(seq, msg) \in Seq(Nat \X Nat)
<1> DEFINE before == {j \in 1 .. Len(sent) : sent[j][1] < seq}
           n == Cardinality(before)
<1>1. IsFiniteSet(1 .. Len(sent)) /\ Cardinality(1 .. Len(sent)) = Len(sent)
  <2>1. PICK k \in Nat : k = Len(sent)
    OBVIOUS
  <2>2. 1 \in Int /\ k \in Int /\ k - 1 + 1 = k /\ (1 > k => k = 0)
    BY <2>1
  <2>3. IsFiniteSet(1 .. k) /\ Cardinality(1 .. k) = IF 1 > k THEN 0 ELSE k - 1 + 1
    BY <2>2, FS_Interval
  <2>4. Cardinality(1 .. k) = k
    BY <2>2, <2>3
  <2> QED BY <2>1, <2>3, <2>4
<1>2. n \in 0 .. Len(sent)
  <2>1. IsFiniteSet(before) /\ n <= Len(sent)
    BY <1>1, FS_Subset
  <2> QED BY <2>1, FS_CardinalityType
<1>3. Place(seq) = n
  BY DEF Place
<1> HIDE DEF n
<1>4. SubSeq(sent, 1, n) \in Seq(Nat \X Nat)
  BY <1>2
<1>5. SubSeq(sent, n + 1, Len(sent)) \in Seq(Nat \X Nat)
  BY <1>2
<1>6. <<<<seq, msg>>>> \in Seq(Nat \X Nat)
  OBVIOUS
<1>7. \A s, t \in Seq(Nat \X Nat) : s \o t \in Seq(Nat \X Nat)
  OBVIOUS
<1> QED BY <1>3, <1>4, <1>5, <1>6, <1>7 DEF SentWith

LEMMA TypedInit == Init => Typed
<1> SUFFICES ASSUME Init PROVE Typed
  OBVIOUS
<1>1. FreeSlot \in SlotSet /\ Producer \in ProducerSet /\ Consumer \in ConsumerSet
      /\ NoRelease \in ReleaseSet /\ Producer.pc = "idle"
  BY CapAssumption
  DEF FreeSlot, SlotSet, SlotState, Producer, ProducerSet, Consumer, ConsumerSet, NoRelease,
      ReleaseSet
<1>2. slots \in [0 .. Cap - 1 -> SlotSet]
  BY <1>1 DEF Init
<1>3. sent \in Seq(Nat \X Nat) /\ got \in Seq(Nat)
  BY DEF Init
<1> QED
  BY <1>1, <1>2, <1>3
  DEF Init, None, Typed, TypeOK, Slots, SlotSet, ProducerSet, LeaseSet, ConsumerSet, ReleaseSet

\* A producer step, a consumer step or a release keeps the types.
LEMMA TypedProducer ==
  ASSUME Typed,
         \/ \E op \in {"send", "alloc"} : GuardLoad(op)
         \/ ProducerStep \/ LeaseEnds \/ ReclaimStale
  PROVE  Typed'
<1>f. /\ Cap \in Nat \ {0} /\ scenario \in Scenarios
      /\ head \in Nat /\ tail \in Nat /\ floor \in Nat /\ slots \in [0 .. Cap - 1 -> SlotSet]
      /\ pr \in ProducerSet /\ leases \subseteq LeaseSet /\ cons \in ConsumerSet
      /\ views \subseteq Nat /\ rel \in ReleaseSet
      /\ sent \in Seq(Nat \X Nat) /\ got \in Seq(Nat) /\ met \subseteq {"spent", "overcounted"}
      /\ pr.pc \in {"claim", "mark", "commit"} => pr.next >= 1
  BY Facts
<1>n. pr.idx \in 0 .. Cap - 1 /\ pr.idx \in Nat /\ pr.next \in Nat /\ pr.id \in Nat
      /\ Idx(pr.idx + 1) \in 0 .. Cap - 1
  <2>1. pr.idx \in 0 .. Cap - 1 /\ pr.idx \in Nat /\ pr.next \in Nat /\ pr.id \in Nat
    BY <1>f DEF ProducerSet
  <2>2. pr.idx + 1 \in Nat
    BY <2>1
  <2> QED BY <2>1, <2>2, IdxIn
<1>p. /\ pr.next + 1 \in Nat /\ pr.next + 1 >= 1 /\ pr.id + 1 \in Nat /\ pr.aborted + 1 \in Nat
      /\ pr.next >= 1 => pr.next - 1 \in Nat
  <2>1. pr.next \in Nat /\ pr.id \in Nat /\ pr.aborted \in Nat
    BY <1>f DEF ProducerSet
  <2> QED BY <2>1
<1>s. \A i \in 0 .. Cap - 1, x \in SlotSet :
        [slots EXCEPT ![i] = x] \in [0 .. Cap - 1 -> SlotSet]
  BY <1>f
<1>1. ASSUME NEW op \in {"send", "alloc"}, GuardLoad(op) PROVE Typed'
  <2>1. pr' \in ProducerSet /\ pr'.pc = "floor"
    BY <1>1, <1>f DEF GuardLoad, ProducerSet
  <2> QED BY <1>1, <1>f, <2>1, TypedFrom DEF GuardLoad
<1>2. CASE GuardFloor
  <2>1. pr' \in ProducerSet /\ (pr'.pc \in {"claim", "mark", "commit"} => pr'.next >= 1)
    <3>1. \/ pr' = [pr EXCEPT !.pc = "idle", !.op = "none"] \/ pr' = [pr EXCEPT !.pc = "lease"]
          \/ pr' = [pr EXCEPT !.pc = "claim", !.next = pr.next + 1, !.id = pr.id + 1]
      BY <1>2 DEF GuardFloor
    <3> QED BY <3>1, <1>f, <1>p DEF ProducerSet
  <2> QED BY <1>2, <1>f, <2>1, TypedFrom DEF GuardFloor
<1>3. CASE ClaimSlot
  <2>1. pr' \in ProducerSet /\ (pr'.pc \in {"claim", "mark", "commit"} => pr'.next >= 1)
    BY <1>3, <1>f DEF ClaimSlot, Goto, ProducerSet, At
  <2>2. met' \subseteq {"spent", "overcounted"}
    BY <1>3, <1>f DEF ClaimSlot
  <2> QED BY <1>3, <1>f, <2>1, <2>2, TypedFrom DEF ClaimSlot
<1>4. CASE MarkSlot
  <2>1. pr' \in ProducerSet /\ (pr'.pc \in {"claim", "mark", "commit"} => pr'.next >= 1)
    BY <1>4, <1>f DEF MarkSlot, Goto, ProducerSet, At
  <2>2. [state |-> "WRITING", seq |-> pr.next - 1, owner |-> 0, msg |-> pr.id] \in SlotSet
    BY <1>4, <1>f, <1>n, <1>p DEF MarkSlot, At, SlotSet, SlotState
  <2>3. slots' \in [0 .. Cap - 1 -> SlotSet]
    BY <1>4, <1>n, <1>s, <2>2 DEF MarkSlot, SetSlot
  <2> QED BY <1>4, <1>f, <2>1, <2>3, TypedFrom DEF MarkSlot
<1>5. CASE CommitSlot
  <2>1. pr' \in ProducerSet /\ pr'.pc = "publish"
    BY <1>5, <1>f, <1>n DEF CommitSlot, ProducerSet
  <2>2. slots' \in [0 .. Cap - 1 -> SlotSet]
    BY <1>5, <1>f, <1>n DEF CommitSlot, SlotSet, SlotState
  <2>3. sent' \in Seq(Nat \X Nat)
    <3>1. pr.next - 1 \in Nat /\ sent' = SentWith(pr.next - 1, pr.id)
      BY <1>5, <1>f, <1>p DEF CommitSlot, At
    <3> QED BY <3>1, <1>f, <1>n, SentWithIn
  <2> QED BY <1>5, <1>f, <2>1, <2>2, <2>3, TypedFrom DEF CommitSlot
<1>6. CASE PublishHead
  <2>1. pr' \in ProducerSet /\ pr'.pc = "idle"
    BY <1>6, <1>f DEF PublishHead, ProducerSet
  <2>2. head' \in Nat
    BY <1>6, <1>f DEF PublishHead
  <2> QED BY <1>6, <1>f, <2>1, <2>2, TypedFrom DEF PublishHead
<1>7. CASE LeaseSlot
  <2>1. pr' \in ProducerSet /\ pr'.pc = "idle"
    <3>1. \/ pr' = [pr EXCEPT !.pc = "idle", !.op = "none"]
          \/ pr' = [pr EXCEPT !.pc = "idle", !.op = "none", !.next = pr.next + 1,
                              !.idx = Idx(pr.idx + 1)]
      BY <1>7 DEF LeaseSlot
    <3> QED BY <3>1, <1>f, <1>n, <1>p DEF ProducerSet
  <2>2. [state |-> "WRITING", seq |-> pr.next, owner |-> 0, msg |-> 0] \in SlotSet
    BY <1>n DEF SlotSet, SlotState
  <2>3. slots' \in [0 .. Cap - 1 -> SlotSet]
    BY <1>7, <1>f, <1>n, <1>s, <2>2 DEF LeaseSlot, SetSlot
  <2>4. leases' \subseteq LeaseSet
    BY <1>7, <1>f, <1>n DEF LeaseSlot, LeaseSet
  <2> QED BY <1>7, <1>f, <2>1, <2>3, <2>4, TypedFrom DEF LeaseSlot
<1>8. ASSUME NEW l \in leases, Publish(l) PROVE Typed'
  <2>1. pr' \in ProducerSet /\ pr'.pc = "publish"
    BY <1>8, <1>f, <1>p DEF Publish, ProducerSet
  <2>2. l.idx \in 0 .. Cap - 1 /\ l.seq \in Nat
    BY <1>f DEF LeaseSet
  <2>3. [slots[l.idx] EXCEPT !.state = "COMMITTED", !.msg = pr.id + 1] \in SlotSet
    <3>1. slots[l.idx] \in SlotSet
      BY <1>f, <2>2
    <3> QED BY <3>1, <1>p DEF SlotSet, SlotState
  <2>4. slots' \in [0 .. Cap - 1 -> SlotSet]
    BY <1>8, <1>s, <2>2, <2>3 DEF Publish, SetSlot
  <2>5. sent' \in Seq(Nat \X Nat)
    <3>1. pr.id + 1 \in Nat
      BY <1>n
    <3> QED BY <1>8, <1>f, <2>2, <3>1, SentWithIn DEF Publish
  <2>6. leases' \subseteq LeaseSet
    BY <1>8, <1>f DEF Publish
  <2> QED BY <1>8, <1>f, <2>1, <2>4, <2>5, <2>6, TypedFrom DEF Publish
<1>9. ASSUME NEW l \in leases, Abort(l) PROVE Typed'
  <2>1. l.idx \in 0 .. Cap - 1 /\ l.seq \in Nat
    BY <1>f DEF LeaseSet
  <2>2. pr' \in ProducerSet /\ pr'.pc = "idle"
    BY <1>9, <1>f, <1>p, <2>1 DEF Abort, ProducerSet, At
  <2>3. FreeSlot \in SlotSet
    BY DEF FreeSlot, SlotSet, SlotState
  <2>4. slots' \in [0 .. Cap - 1 -> SlotSet]
    BY <1>9, <1>s, <2>1, <2>3 DEF Abort, SetSlot
  <2>5. leases' \subseteq LeaseSet
    BY <1>9, <1>f DEF Abort
  <2> QED BY <1>9, <1>f, <2>2, <2>4, <2>5, TypedFrom DEF Abort
<1>10. CASE ReclaimStale
  <2> DEFINE dead == {i \in 0 .. Cap - 1 : ~Covered(i) /\ DeadPin(i)}
             held == {i \in 0 .. Cap - 1 : Reclaimed(dead)[i].state # "FREE"}
             occupied == Cardinality(held)
             counted == IF head > tail THEN head - tail ELSE 0
             over == IF occupied > counted THEN occupied - counted ELSE 0
  <2>1. over \in 0 .. Cap
    <3>1. IsFiniteSet(0 .. Cap - 1) /\ Cardinality(0 .. Cap - 1) = Cap
      BY <1>f, FS_Interval
    <3>2. IsFiniteSet(held) /\ occupied <= Cap
      BY <3>1, FS_Subset
    <3>3. occupied \in Nat
      BY <3>2, FS_CardinalityType
    <3>4. counted \in Nat
      BY <1>f
    <3> HIDE DEF occupied, counted
    <3> QED BY <1>f, <3>2, <3>3, <3>4
  <2>2. Reclaimed(dead) \in [0 .. Cap - 1 -> SlotSet]
    BY <1>f, ReclaimedIn
  <2>3. LowestPin(Reclaimed(dead), WindowStart(tail), tail) \in Nat
    BY <1>f, WindowStartIn, LowestPinIn
  <2>4. /\ slots' = Reclaimed(dead) /\ pr' = [pr EXCEPT !.bias = over]
        /\ floor' = LowestPin(Reclaimed(dead), WindowStart(tail), tail)
        /\ met' \in {met, met \cup {"overcounted"}} /\ pr.pc = "idle"
        /\ UNCHANGED <<scenario, head, tail, leases, cons, views, rel, sent, got>>
    BY <1>10 DEF ReclaimStale, At
  <2> HIDE DEF over, dead
  <2>5. pr' \in ProducerSet /\ pr'.pc = "idle"
    BY <1>f, <2>1, <2>4 DEF ProducerSet
  <2>6. met' \subseteq {"spent", "overcounted"}
    BY <1>f, <2>4
  <2> QED BY <1>f, <2>2, <2>3, <2>4, <2>5, <2>6, TypedFrom
<1> QED
  BY <1>1, <1>2, <1>3, <1>4, <1>5, <1>6, <1>7, <1>8, <1>9, <1>10 DEF ProducerStep, LeaseEnds

LEMMA TypedConsumer ==
  ASSUME Typed, ConsumerStep \/ ConsDie
  PROVE  Typed'
<1>f. /\ Cap \in Nat \ {0} /\ scenario \in Scenarios
      /\ head \in Nat /\ tail \in Nat /\ floor \in Nat /\ slots \in [0 .. Cap - 1 -> SlotSet]
      /\ pr \in ProducerSet /\ leases \subseteq LeaseSet /\ cons \in ConsumerSet
      /\ views \subseteq Nat /\ rel \in ReleaseSet
      /\ sent \in Seq(Nat \X Nat) /\ got \in Seq(Nat) /\ met \subseteq {"spent", "overcounted"}
      /\ pr.pc \in {"claim", "mark", "commit"} => pr.next >= 1
  BY Facts
<1>n. cons.t \in Nat /\ cons.t + 1 \in Nat /\ cons.inc \in Nat /\ cons.inc + 1 \in Nat
      /\ Idx(cons.t) \in 0 .. Cap - 1 /\ slots[Idx(cons.t)] \in SlotSet
  <2>1. cons.t \in Nat /\ cons.inc \in Nat
    BY <1>f DEF ConsumerSet
  <2>2. Idx(cons.t) \in 0 .. Cap - 1
    BY <2>1, IdxIn
  <2>3. cons.t + 1 \in Nat /\ cons.inc + 1 \in Nat
    BY <2>1
  <2> QED BY <1>f, <2>1, <2>2, <2>3
<1>q. slots[Idx(cons.t)].seq + 1 \in Nat /\ slots[Idx(cons.t)].msg \in Nat
  <2>1. slots[Idx(cons.t)].seq \in Nat /\ slots[Idx(cons.t)].msg \in Nat
    BY <1>n DEF SlotSet
  <2> QED BY <2>1
<1>a. Adopted(cons.t) \in ConsumerSet /\ Received(cons.t) \in Seq(Nat)
  <2>1. Adopted(cons.t) \in ConsumerSet
    BY <1>f, <1>q DEF Adopted, ConsumerSet
  <2>2. Received(cons.t) \in Seq(Nat)
    <3>1. \A m \in Nat : Append(got, m) \in Seq(Nat)
      BY <1>f
    <3> QED BY <3>1, <1>q DEF Received
  <2> QED BY <2>1, <2>2
<1>e. ASSUME NEW c \in ConsumerSet, RecvEnds(c) PROVE cons' \in ConsumerSet
  <2>1. c.expected \in Nat /\ c.resync \in BOOLEAN
    BY DEF ConsumerSet
  <2>2. Consumer \in ConsumerSet
    BY DEF Consumer, ConsumerSet
  <2>3. cons' = [Consumer EXCEPT !.inc = cons.inc, !.expected = c.expected, !.resync = c.resync]
    BY <1>e DEF RecvEnds
  <2> QED BY <1>n, <2>1, <2>2, <2>3 DEF ConsumerSet
<1>m. \A pc \in {"pin", "stamp", "lower", "cas", "keep", "take", "free", "advance"} :
        Move(pc) => cons' \in ConsumerSet
  BY <1>f DEF Move, ConsumerSet
<1>s. \A x \in SlotSet : SetSlot(Idx(cons.t), x) => slots' \in [0 .. Cap - 1 -> SlotSet]
  BY <1>f, <1>n DEF SetSlot
<1>1. ASSUME NEW op \in {"view", "recv"}, RecvBegin(op) PROVE Typed'
  <2>1. cons' \in ConsumerSet
    BY <1>1, <1>f DEF RecvBegin, ConsumerSet
  <2> QED BY <1>1, <1>f, <2>1, TypedFrom DEF RecvBegin
<1>2. CASE Gate
  <2>1. cons' \in ConsumerSet
    BY <1>2, <1>e, <1>f, <1>m DEF Gate
  <2> QED BY <1>2, <1>f, <2>1, TypedFrom DEF Gate
<1>3. CASE PinSlot
  <2>1. cons' \in ConsumerSet
    BY <1>3, <1>m DEF PinSlot
  <2>2. slots' \in [0 .. Cap - 1 -> SlotSet]
    BY <1>3, <1>f, <1>n DEF PinSlot, SlotSet, SlotState
  <2> QED BY <1>3, <1>f, <2>1, <2>2, TypedFrom DEF PinSlot
<1>4. CASE StampSlot
  <2>1. cons' \in ConsumerSet
    BY <1>4, <1>m DEF StampSlot
  <2>2. slots' \in [0 .. Cap - 1 -> SlotSet]
    BY <1>4, <1>f, <1>n DEF StampSlot, SlotSet
  <2> QED BY <1>4, <1>f, <2>1, <2>2, TypedFrom DEF StampSlot
<1>5. CASE LoadFloor
  <2>1. cons' \in ConsumerSet
    BY <1>5, <1>f DEF LoadFloor, ConsumerSet
  <2> QED BY <1>5, <1>f, <2>1, TypedFrom DEF LoadFloor
<1>6. CASE LowerFloor
  <2>1. cons' \in ConsumerSet
    <3>1. ASSUME NEW pc \in {"lower", "keep"}, TryAgain(pc) PROVE cons' \in ConsumerSet
      <4>1. PICK n \in Nat : n = cons.tries + 1
        <5>1. cons.tries \in Nat
          BY <1>f DEF ConsumerSet
        <5> QED BY <5>1
      <4>2. cons' = [cons EXCEPT !.pc = pc, !.tries = n]
        BY <3>1, <4>1 DEF TryAgain
      <4> QED BY <1>f, <4>2 DEF ConsumerSet
    <3>2. CASE floor = cons.floor
      BY <1>6, <1>m, <3>2 DEF LowerFloor
    <3>3. CASE floor # cons.floor
      <4>1. PICK pc \in {"lower", "keep"} : TryAgain(pc)
        BY <1>6, <3>3 DEF LowerFloor
      <4> QED BY <3>1, <4>1
    <3> QED BY <3>2, <3>3
  <2>2. floor' \in Nat
    BY <1>6, <1>f, <1>n DEF LowerFloor
  <2> QED BY <1>6, <1>f, <2>1, <2>2, TypedFrom DEF LowerFloor
<1>7. CASE KeepPinned
  <2>1. cons' \in ConsumerSet /\ got' \in Seq(Nat)
    BY <1>7, <1>a, <1>e DEF KeepPinned
  <2>2. tail' \in Nat /\ views' \subseteq Nat
    BY <1>7, <1>f, <1>n DEF KeepPinned
  <2> QED BY <1>7, <1>f, <2>1, <2>2, TypedFrom DEF KeepPinned
<1>8. CASE TakeSlot
  <2>1. cons' \in ConsumerSet
    <3>1. RecvEnds(cons) \/ cons' = [Adopted(cons.t) EXCEPT !.pc = "free"]
      BY <1>8 DEF TakeSlot
    <3>2. [Adopted(cons.t) EXCEPT !.pc = "free"] \in ConsumerSet
      BY <1>a DEF ConsumerSet
    <3> QED BY <1>e, <1>f, <3>1, <3>2
  <2>2. got' \in Seq(Nat)
    BY <1>8, <1>a, <1>f DEF TakeSlot
  <2>3. slots' \in [0 .. Cap - 1 -> SlotSet]
    BY <1>8, <1>f, <1>n DEF TakeSlot, SlotSet, SlotState
  <2> QED BY <1>8, <1>f, <2>1, <2>2, <2>3, TypedFrom DEF TakeSlot
<1>9. CASE FreeTail
  <2>1. cons' \in ConsumerSet
    BY <1>9, <1>m DEF FreeTail
  <2>2. FreeSlot \in SlotSet
    BY DEF FreeSlot, SlotSet, SlotState
  <2>3. slots' \in [0 .. Cap - 1 -> SlotSet]
    BY <1>9, <1>s, <2>2 DEF FreeTail
  <2> QED BY <1>9, <1>f, <2>1, <2>3, TypedFrom DEF FreeTail
<1>10. CASE AdvanceTail
  <2>1. cons' \in ConsumerSet
    BY <1>10, <1>e, <1>f DEF AdvanceTail
  <2>2. tail' \in Nat
    BY <1>10, <1>n DEF AdvanceTail
  <2> QED BY <1>10, <1>f, <2>1, <2>2, TypedFrom DEF AdvanceTail
<1>11. CASE ConsOpen
  <2>1. cons' \in ConsumerSet
    BY <1>11, <1>f, <1>n DEF ConsOpen, ConsumerSet
  <2>2. slots' \in [0 .. Cap - 1 -> SlotSet]
    BY <1>11, <1>f, ReclaimedIn DEF ConsOpen
  <2> QED BY <1>11, <1>f, <2>1, <2>2, TypedFrom DEF ConsOpen
<1>12. CASE ConsRescan
  <2>1. floor' \in Nat
    BY <1>12, <1>f, WindowStartIn, LowestPinIn DEF ConsRescan, RescannedFloor
  <2>2. cons' \in ConsumerSet
    <3> DEFINE readable == \E i \in 0 .. Cap - 1 : slots[i].state \in {"COMMITTED", "PINNED"}
               c == [cons EXCEPT !.resync = ~readable,
                                 !.expected = IF readable THEN slots[Idx(tail)].seq ELSE 0]
    <3>1. slots[Idx(tail)].seq \in Nat
      <4>1. slots[Idx(tail)] \in SlotSet
        <5>1. Idx(tail) \in 0 .. Cap - 1
          BY <1>f, IdxIn
        <5> QED BY <1>f, <5>1
      <4> QED BY <4>1 DEF SlotSet
    <3>2. readable \in BOOLEAN
      OBVIOUS
    <3>3. RecvEnds(c)
      BY <1>12 DEF ConsRescan
    <3> HIDE DEF readable
    <3>4. c \in ConsumerSet
      BY <1>f, <3>1, <3>2 DEF ConsumerSet
    <3> QED BY <1>e, <3>3, <3>4
  <2> QED BY <1>12, <1>f, <2>1, <2>2, TypedFrom DEF ConsRescan
<1>13. CASE ConsDie
  <2>1. cons' \in ConsumerSet
    BY <1>13, <1>n DEF ConsDie, Consumer, ConsumerSet
  <2>2. views' \subseteq Nat /\ rel' \in ReleaseSet
    BY <1>13 DEF ConsDie, NoRelease, ReleaseSet
  <2> QED BY <1>13, <1>f, <2>1, <2>2, TypedFrom DEF ConsDie
<1> QED
  BY <1>1, <1>2, <1>3, <1>4, <1>5, <1>6, <1>7, <1>8, <1>9, <1>10, <1>11, <1>12, <1>13
  DEF ConsumerStep

LEMMA TypedRelease ==
  ASSUME Typed, ReleaseStep
  PROVE  Typed'
<1>f. /\ Cap \in Nat \ {0} /\ scenario \in Scenarios
      /\ head \in Nat /\ tail \in Nat /\ floor \in Nat /\ slots \in [0 .. Cap - 1 -> SlotSet]
      /\ pr \in ProducerSet /\ leases \subseteq LeaseSet /\ cons \in ConsumerSet
      /\ views \subseteq Nat /\ rel \in ReleaseSet
      /\ sent \in Seq(Nat \X Nat) /\ got \in Seq(Nat) /\ met \subseteq {"spent", "overcounted"}
      /\ pr.pc \in {"claim", "mark", "commit"} => pr.next >= 1
  BY Facts
<1>r. NoRelease \in ReleaseSet
  BY DEF NoRelease, ReleaseSet
<1>1. ASSUME NEW c \in views, Release(c) PROVE Typed'
  <2>1. rel' \in ReleaseSet
    BY <1>1, <1>f DEF Release, NoRelease, ReleaseSet
  <2>2. FreeSlot \in SlotSet
    BY DEF FreeSlot, SlotSet, SlotState
  <2>3. slots' \in [0 .. Cap - 1 -> SlotSet]
    BY <1>1, <1>f, <2>2 DEF Release, SetSlot
  <2>4. views' \subseteq Nat
    BY <1>1, <1>f DEF Release
  <2> QED BY <1>1, <1>f, <2>1, <2>3, <2>4, TypedFrom DEF Release
<1>2. CASE UnpinEntry
  <2>1. rel' \in ReleaseSet
    BY <1>2, <1>f, <1>r DEF UnpinEntry, ReleaseSet
  <2> QED BY <1>2, <1>f, <2>1, TypedFrom DEF UnpinEntry
<1>3. CASE UnpinScan
  <2> DEFINE from == IF rel.entry = rel.c THEN Max({rel.c + 1, WindowStart(tail)})
                     ELSE WindowStart(tail)
             next == LowestPin(slots, from, tail)
  <2>1. WindowStart(tail) \in Nat /\ rel.c + 1 \in Nat
    <3>1. rel.c \in Nat
      BY <1>f DEF ReleaseSet
    <3>2. rel.c + 1 \in Nat
      BY <3>1
    <3>3. WindowStart(tail) \in Nat
      BY <1>f, WindowStartIn
    <3> QED BY <3>2, <3>3
  <2>2. \A a, b \in Nat : Max({a, b}) \in Nat
    BY DEF Max
  <2>3. next \in Nat
    <3>1. from \in Nat
      BY <2>1, <2>2
    <3> HIDE DEF from
    <3> QED BY <1>f, <3>1, LowestPinIn
  <2>4. rel' = NoRelease \/ rel' = [rel EXCEPT !.pc = "raise", !.next = next]
    BY <1>3 DEF UnpinScan
  <2> HIDE DEF next
  <2>5. rel' \in ReleaseSet
    BY <1>f, <1>r, <2>3, <2>4 DEF ReleaseSet
  <2> QED BY <1>3, <1>f, <2>5, TypedFrom DEF UnpinScan
<1>4. CASE UnpinRaise
  <2>1. floor' \in Nat
    BY <1>4, <1>f DEF UnpinRaise, ReleaseSet
  <2> QED BY <1>4, <1>f, <1>r, <2>1, TypedFrom DEF UnpinRaise
<1> QED BY <1>1, <1>2, <1>3, <1>4 DEF ReleaseStep

LEMMA TypedNext == Typed /\ [Next]_vars => Typed'
<1>1. CASE UNCHANGED vars
  BY <1>1 DEF vars, Typed, TypeOK, Begun
<1>2. CASE Next
  BY <1>2, TypedProducer, TypedConsumer, TypedRelease DEF Next
<1> QED BY <1>1, <1>2

\* Every variable keeps its type, whatever the capacity and the scenarios.
THEOREM ZeroCopyTypeCorrect == Spec => []TypeOK
<1>1. Typed => TypeOK
  BY DEF Typed
<1> QED BY <1>1, TypedInit, TypedNext, PTL DEF Spec

-----------------------------------------------------------------------------
(* Who holds which slot                                                    *)

\* What the producer holds is FREE or WRITING, and nothing twice.
LeaseInv ==
  /\ \A l \in leases : slots[l.idx].state = "WRITING"
  /\ \A l, m \in leases : l.idx = m.idx => l = m
  /\ At("mark") => slots[pr.idx].state = "FREE"
  /\ At("commit") => slots[pr.idx].state = "WRITING" /\ \A l \in leases : l.idx # pr.idx

\* What the consumer holds is COMMITTED or PINNED, and nothing twice; a dead
\* consumer holds no view.
ViewInv ==
  /\ \A c \in views : slots[Idx(c)].state = "PINNED"
  /\ \A c, d \in views : Idx(c) = Idx(d) => c = d
  /\ cons.pc \in {"pin", "take"} => slots[Idx(cons.t)].state = "COMMITTED"
  /\ cons.pc \in {"stamp", "lower", "cas", "keep", "free"} =>
       slots[Idx(cons.t)].state = "PINNED" /\ \A c \in views : Idx(c) # Idx(cons.t)
  /\ cons.pc \in {"dead", "rescan"} => views = {}

IInv == Typed /\ LeaseInv /\ ViewInv

ViewsKept == \A c \in views \cap views' : slots'[Idx(c)] = slots[Idx(c)]
LeasesKept == \A l \in leases \cap leases' : slots'[l.idx] = slots[l.idx]

\* A producer's step touches nothing that is COMMITTED or PINNED.
LEMMA ViewsStay ==
  ASSUME Typed, ViewInv, UNCHANGED <<cons, views>>,
         \A j \in 0 .. Cap - 1 : slots[j].state \in {"COMMITTED", "PINNED"} => slots'[j] = slots[j]
  PROVE  ViewInv' /\ ViewsKept
<1>1. \A c \in views : Idx(c) \in 0 .. Cap - 1
  BY Facts, IdxIn
<1>2. Idx(cons.t) \in 0 .. Cap - 1
  <2>1. cons.t \in Nat
    BY Facts DEF ConsumerSet
  <2> QED BY <2>1, IdxIn
<1>3. \A c \in views : slots'[Idx(c)] = slots[Idx(c)]
  BY <1>1 DEF ViewInv
<1>4. cons.pc \in {"pin", "take", "stamp", "lower", "cas", "keep", "free"} =>
        slots'[Idx(cons.t)] = slots[Idx(cons.t)]
  BY <1>2 DEF ViewInv
<1> QED BY <1>3, <1>4 DEF ViewInv, ViewsKept

\* A consumer's step touches nothing that is FREE or WRITING.
LEMMA LeasesStay ==
  ASSUME Typed, LeaseInv, UNCHANGED <<pr, leases>>,
         \A j \in 0 .. Cap - 1 : slots[j].state \in {"FREE", "WRITING"} => slots'[j] = slots[j]
  PROVE  LeaseInv' /\ LeasesKept
<1>1. pr.idx \in 0 .. Cap - 1 /\ \A l \in leases : l.idx \in 0 .. Cap - 1
  BY Facts DEF ProducerSet, LeaseSet
<1> QED BY <1>1 DEF LeaseInv, LeasesKept, At

LEMMA HeldInit == Init => LeaseInv /\ ViewInv
  BY DEF Init, LeaseInv, ViewInv, Producer, Consumer, At

LEMMA HeldProducer ==
  ASSUME IInv,
         \/ \E op \in {"send", "alloc"} : GuardLoad(op)
         \/ ProducerStep \/ LeaseEnds
  PROVE  LeaseInv' /\ ViewInv' /\ ViewsKept /\ LeasesKept
<1>f. /\ slots \in [0 .. Cap - 1 -> SlotSet] /\ pr \in ProducerSet
      /\ pr.idx \in 0 .. Cap - 1 /\ \A l \in leases : l.idx \in 0 .. Cap - 1
  BY Facts DEF IInv, ProducerSet, LeaseSet
<1>u. ASSUME UNCHANGED <<slots, cons, views>> PROVE ViewInv' /\ ViewsKept
  BY <1>u, ViewsStay DEF IInv
<1>o. ASSUME NEW i \in 0 .. Cap - 1, NEW x, slots' = [slots EXCEPT ![i] = x],
             slots[i].state \in {"FREE", "WRITING"}, UNCHANGED <<cons, views>>
      PROVE  ViewInv' /\ ViewsKept
  BY <1>f, <1>o, ViewsStay DEF IInv
<1>1. ASSUME NEW op \in {"send", "alloc"}, GuardLoad(op)
      PROVE  LeaseInv' /\ ViewInv' /\ ViewsKept /\ LeasesKept
  BY <1>1, <1>f, <1>u DEF GuardLoad, IInv, LeaseInv, LeasesKept, At, ProducerSet
<1>2. CASE GuardFloor
  <2>1. pr'.pc \notin {"mark", "commit"}
    BY <1>2, <1>f DEF GuardFloor, ProducerSet
  <2> QED BY <1>2, <1>u, <2>1 DEF GuardFloor, IInv, LeaseInv, LeasesKept, At
<1>3. CASE ClaimSlot
  <2>1. pr'.pc # "commit" /\ pr'.idx = pr.idx /\ (pr'.pc = "mark" => slots[pr.idx].state = "FREE")
    BY <1>3, <1>f DEF ClaimSlot, Goto, ProducerSet, Writable
  <2> QED BY <1>3, <1>u, <2>1 DEF ClaimSlot, IInv, LeaseInv, LeasesKept, At
<1>4. CASE MarkSlot
  <2>1. slots[pr.idx].state = "FREE" /\ \A l \in leases : l.idx # pr.idx
    BY <1>4 DEF MarkSlot, IInv, LeaseInv, At
  <2>2. pr'.pc = "commit" /\ pr'.idx = pr.idx
    BY <1>4, <1>f DEF MarkSlot, Goto, ProducerSet
  <2>3. ViewInv' /\ ViewsKept
    BY <1>4, <1>f, <1>o, <2>1 DEF MarkSlot, SetSlot
  <2>4. slots'[pr.idx].state = "WRITING" /\ \A l \in leases : slots'[l.idx] = slots[l.idx]
    BY <1>4, <1>f, <2>1 DEF MarkSlot, SetSlot
  <2> QED BY <1>4, <2>1, <2>2, <2>3, <2>4 DEF MarkSlot, IInv, LeaseInv, LeasesKept, At
<1>5. CASE CommitSlot
  <2>1. slots[pr.idx].state = "WRITING" /\ \A l \in leases : l.idx # pr.idx
    BY <1>5 DEF CommitSlot, IInv, LeaseInv, At
  <2>2. pr'.pc = "publish"
    BY <1>5, <1>f DEF CommitSlot, ProducerSet
  <2>3. ViewInv' /\ ViewsKept
    BY <1>5, <1>f, <2>1, ViewsStay DEF CommitSlot, IInv
  <2>4. \A l \in leases : slots'[l.idx] = slots[l.idx]
    BY <1>5, <1>f, <2>1 DEF CommitSlot
  <2> QED BY <1>5, <2>2, <2>3, <2>4 DEF CommitSlot, IInv, LeaseInv, LeasesKept, At
<1>6. CASE PublishHead
  <2>1. pr'.pc = "idle"
    BY <1>6, <1>f DEF PublishHead, ProducerSet
  <2> QED BY <1>6, <1>u, <2>1 DEF PublishHead, IInv, LeaseInv, LeasesKept, At
<1>7. CASE LeaseSlot
  <2>1. pr'.pc = "idle"
    BY <1>7, <1>f DEF LeaseSlot, ProducerSet
  <2>2. CASE Writable(pr.idx)
    <3> DEFINE lease == [idx |-> pr.idx, seq |-> pr.next]
    <3>1. slots[pr.idx].state = "FREE" /\ \A l \in leases : l.idx # pr.idx
      BY <2>2 DEF Writable, IInv, LeaseInv
    <3>2. /\ slots' = [slots EXCEPT ![pr.idx] = [state |-> "WRITING", seq |-> pr.next,
                                                 owner |-> 0, msg |-> 0]]
          /\ leases' = leases \cup {lease} /\ UNCHANGED <<cons, views>>
      BY <1>7, <2>2 DEF LeaseSlot, SetSlot
    <3>3. ViewInv' /\ ViewsKept
      BY <1>f, <1>o, <3>1, <3>2
    <3>4. slots'[pr.idx].state = "WRITING" /\ \A l \in leases : slots'[l.idx] = slots[l.idx]
      BY <1>f, <3>1, <3>2
    <3>5. lease.idx = pr.idx
      OBVIOUS
    <3> HIDE DEF lease
    <3> QED BY <2>1, <3>1, <3>2, <3>3, <3>4, <3>5 DEF IInv, LeaseInv, LeasesKept, At
  <2>3. CASE ~Writable(pr.idx)
    BY <1>7, <1>u, <2>1, <2>3 DEF LeaseSlot, IInv, LeaseInv, LeasesKept, At
  <2> QED BY <2>2, <2>3
<1>8. ASSUME NEW l \in leases, Publish(l) \/ Abort(l)
      PROVE  LeaseInv' /\ ViewInv' /\ ViewsKept /\ LeasesKept
  <2>1. /\ slots[l.idx].state = "WRITING" /\ \E x : slots' = [slots EXCEPT ![l.idx] = x]
        /\ leases' = leases \ {l} /\ UNCHANGED <<cons, views>>
    BY <1>8 DEF Publish, Abort, SetSlot, IInv, LeaseInv
  <2>2. pr'.pc \in {"publish", "idle"}
    BY <1>8, <1>f DEF Publish, Abort, ProducerSet, At
  <2>3. ViewInv' /\ ViewsKept
    BY <1>f, <1>o, <2>1
  <2>4. \A m \in leases' : m \in leases /\ m.idx # l.idx
    BY <2>1 DEF IInv, LeaseInv
  <2>5. \A m \in leases' : slots'[m.idx] = slots[m.idx]
    BY <1>f, <2>1, <2>4
  <2> QED BY <2>2, <2>3, <2>4, <2>5 DEF IInv, LeaseInv, LeasesKept, At
<1> QED
  BY <1>1, <1>2, <1>3, <1>4, <1>5, <1>6, <1>7, <1>8 DEF ProducerStep, LeaseEnds

\* A cleanup frees pins only, and while the consumer is dead, who then has
\* no views.
LEMMA HeldCleanup ==
  ASSUME IInv, ReclaimStale \/ ConsOpen
  PROVE  LeaseInv' /\ ViewInv' /\ ViewsKept /\ LeasesKept
<1>1. PICK dead : slots' = Reclaimed(dead) /\ dead \subseteq {i \in 0 .. Cap - 1 : DeadPin(i)}
  <2>1. CASE ReclaimStale
    BY <2>1 DEF ReclaimStale
  <2>2. CASE ConsOpen
    BY <2>2 DEF ConsOpen
  <2> QED BY <2>1, <2>2
<1>2. \A j \in 0 .. Cap - 1 : slots[j].state \in {"FREE", "WRITING"} => slots'[j] = slots[j]
  BY <1>1, Facts DEF Reclaimed, DeadPin, IInv
<1>3. views = {} /\ views' = {} /\ cons'.pc \in {"dead", "rescan"}
  <2>1. cons.pc = "dead" /\ views' = views
    BY DEF ReclaimStale, ConsOpen, ConsAt
  <2>2. cons'.pc \in {"dead", "rescan"}
    BY <2>1, Facts DEF ReclaimStale, ConsOpen, ConsumerSet, IInv
  <2> QED BY <2>1, <2>2 DEF IInv, ViewInv
<1>4. LeaseInv' /\ LeasesKept
  <2>1. CASE ReclaimStale
    <3>1. pr.pc = "idle" /\ pr'.pc = "idle" /\ leases' = leases
      BY <2>1, Facts DEF ReclaimStale, At, ProducerSet, IInv
    <3>2. \A l \in leases : slots'[l.idx] = slots[l.idx]
      BY <1>2, Facts DEF IInv, LeaseInv, LeaseSet
    <3> QED BY <3>1, <3>2 DEF IInv, LeaseInv, LeasesKept, At
  <2>2. CASE ConsOpen
    BY <1>2, <2>2, LeasesStay DEF ConsOpen, IInv
  <2> QED BY <2>1, <2>2
<1> QED BY <1>3, <1>4 DEF ViewInv, ViewsKept

LEMMA HeldConsumer ==
  ASSUME IInv, ConsumerStep \/ ConsDie
  PROVE  LeaseInv' /\ ViewInv' /\ ViewsKept /\ LeasesKept
<1>f. slots \in [0 .. Cap - 1 -> SlotSet] /\ cons \in ConsumerSet
      /\ Idx(cons.t) \in 0 .. Cap - 1 /\ \A c \in views : Idx(c) \in 0 .. Cap - 1
  <2>1. cons \in ConsumerSet /\ cons.t \in Nat /\ views \subseteq Nat
    BY Facts DEF IInv, ConsumerSet
  <2> QED BY <2>1, Facts, IdxIn DEF IInv
<1>u. ASSUME UNCHANGED <<slots, pr, leases>> PROVE LeaseInv' /\ LeasesKept
  BY <1>u, LeasesStay DEF IInv
<1>o. ASSUME NEW x, slots' = [slots EXCEPT ![Idx(cons.t)] = x],
             slots[Idx(cons.t)].state \in {"COMMITTED", "PINNED"}, UNCHANGED <<pr, leases>>
      PROVE  LeaseInv' /\ LeasesKept
  BY <1>f, <1>o, LeasesStay DEF IInv
\* What the consumer does to the slot at hand concerns no view.
<1>v. ASSUME NEW x, slots' = [slots EXCEPT ![Idx(cons.t)] = x],
             \A c \in views : Idx(c) # Idx(cons.t)
      PROVE  \A c \in views : slots'[Idx(c)] = slots[Idx(c)]
  BY <1>f, <1>v
<1>c. slots[Idx(cons.t)].state = "COMMITTED" => \A c \in views : Idx(c) # Idx(cons.t)
  BY DEF IInv, ViewInv
<1>e. \A c : RecvEnds(c) => cons'.pc = "idle"
  BY DEF RecvEnds, Consumer
<1>1. ASSUME NEW op \in {"view", "recv"}, RecvBegin(op)
      PROVE  LeaseInv' /\ ViewInv' /\ ViewsKept /\ LeasesKept
  <2>1. cons'.pc = "gate"
    BY <1>1, <1>f DEF RecvBegin, ConsumerSet
  <2> QED BY <1>1, <1>u, <2>1 DEF RecvBegin, IInv, ViewInv, ViewsKept
<1>2. CASE Gate
  <2>1. \/ cons'.pc = "idle"
        \/ /\ cons'.pc \in {"pin", "take"} /\ cons'.t = cons.t
           /\ slots[Idx(cons.t)].state = "COMMITTED"
    BY <1>2, <1>e, <1>f DEF Gate, Move, ConsumerSet
  <2> QED BY <1>2, <1>u, <2>1 DEF Gate, IInv, ViewInv, ViewsKept
<1>3. CASE PinSlot
  <2>1. slots[Idx(cons.t)].state = "COMMITTED" /\ \A c \in views : Idx(c) # Idx(cons.t)
    BY <1>3, <1>c DEF PinSlot, ConsAt, IInv, ViewInv
  <2>2. cons'.pc = "stamp" /\ cons'.t = cons.t
    BY <1>3, <1>f DEF PinSlot, Move, ConsumerSet
  <2>3. slots' = [slots EXCEPT ![Idx(cons.t)] = [slots[Idx(cons.t)] EXCEPT !.state = "PINNED"]]
    BY <1>3 DEF PinSlot
  <2>4. slots'[Idx(cons.t)].state = "PINNED"
    BY <1>f, <2>3 DEF SlotSet
  <2>5. \A c \in views : slots'[Idx(c)] = slots[Idx(c)]
    BY <1>v, <2>1, <2>3
  <2>6. LeaseInv' /\ LeasesKept
    BY <1>3, <1>o, <2>1, <2>3 DEF PinSlot
  <2> QED BY <1>3, <2>1, <2>2, <2>4, <2>5, <2>6 DEF PinSlot, IInv, ViewInv, ViewsKept
<1>4. CASE StampSlot
  <2>1. slots[Idx(cons.t)].state = "PINNED" /\ \A c \in views : Idx(c) # Idx(cons.t)
    BY <1>4 DEF StampSlot, ConsAt, IInv, ViewInv
  <2>2. cons'.pc = "lower" /\ cons'.t = cons.t
    BY <1>4, <1>f DEF StampSlot, Move, ConsumerSet
  <2>3. slots' = [slots EXCEPT ![Idx(cons.t)] = [slots[Idx(cons.t)] EXCEPT !.owner = cons.inc]]
    BY <1>4 DEF StampSlot
  <2>4. slots'[Idx(cons.t)].state = "PINNED"
    BY <1>f, <2>1, <2>3 DEF SlotSet
  <2>5. \A c \in views : slots'[Idx(c)] = slots[Idx(c)]
    BY <1>v, <2>1, <2>3
  <2>6. LeaseInv' /\ LeasesKept
    BY <1>4, <1>o, <2>1, <2>3 DEF StampSlot
  <2> QED BY <1>4, <2>1, <2>2, <2>4, <2>5, <2>6 DEF StampSlot, IInv, ViewInv, ViewsKept
<1>5. CASE LoadFloor \/ LowerFloor
  <2>1. /\ cons.pc \in {"lower", "cas"} /\ cons'.pc \in {"lower", "cas", "keep"}
        /\ cons'.t = cons.t /\ UNCHANGED <<slots, pr, leases, views>>
    BY <1>5, <1>f DEF LoadFloor, LowerFloor, Move, TryAgain, ConsAt, ConsumerSet
  <2> QED BY <1>u, <2>1 DEF IInv, ViewInv, ViewsKept
<1>6. CASE KeepPinned
  <2>1. slots[Idx(cons.t)].state = "PINNED" /\ \A c \in views : Idx(c) # Idx(cons.t)
    BY <1>6 DEF KeepPinned, ConsAt, IInv, ViewInv
  <2>2. cons'.pc = "idle"
    BY <1>6, <1>e DEF KeepPinned
  <2>3. views' = views \cup {cons.t} /\ UNCHANGED <<slots, pr, leases>>
    BY <1>6 DEF KeepPinned
  <2> QED BY <1>u, <2>1, <2>2, <2>3 DEF IInv, ViewInv, ViewsKept
<1>7. CASE TakeSlot
  <2>1. slots[Idx(cons.t)].state = "COMMITTED" /\ \A c \in views : Idx(c) # Idx(cons.t)
    BY <1>7, <1>c DEF TakeSlot, ConsAt, IInv, ViewInv
  <2>2. cons'.pc = "idle" \/ (cons'.pc = "free" /\ cons'.t = cons.t)
    <3>1. RecvEnds(cons) \/ cons' = [Adopted(cons.t) EXCEPT !.pc = "free"]
      BY <1>7 DEF TakeSlot
    <3>2. \A e : LET r == [[cons EXCEPT !.expected = e, !.resync = FALSE] EXCEPT !.pc = "free"]
                 IN  r.pc = "free" /\ r.t = cons.t
      BY <1>f DEF ConsumerSet
    <3>3. CASE cons' = [Adopted(cons.t) EXCEPT !.pc = "free"]
      BY <3>2, <3>3 DEF Adopted
    <3> QED BY <1>e, <3>1, <3>3
  <2>3. slots' = [slots EXCEPT ![Idx(cons.t)] = [slots[Idx(cons.t)] EXCEPT !.state = "PINNED"]]
    BY <1>7 DEF TakeSlot
  <2>4. slots'[Idx(cons.t)].state = "PINNED"
    BY <1>f, <2>3 DEF SlotSet
  <2>5. \A c \in views : slots'[Idx(c)] = slots[Idx(c)]
    BY <1>v, <2>1, <2>3
  <2>6. LeaseInv' /\ LeasesKept
    BY <1>7, <1>o, <2>1, <2>3 DEF TakeSlot
  <2> QED BY <1>7, <2>1, <2>2, <2>4, <2>5, <2>6 DEF TakeSlot, IInv, ViewInv, ViewsKept
<1>8. CASE FreeTail
  <2>1. slots[Idx(cons.t)].state = "PINNED" /\ \A c \in views : Idx(c) # Idx(cons.t)
    BY <1>8 DEF FreeTail, ConsAt, IInv, ViewInv
  <2>2. cons'.pc = "advance"
    BY <1>8, <1>f DEF FreeTail, Move, ConsumerSet
  <2>3. slots' = [slots EXCEPT ![Idx(cons.t)] = FreeSlot]
    BY <1>8 DEF FreeTail, SetSlot
  <2>4. \A c \in views : slots'[Idx(c)] = slots[Idx(c)]
    BY <1>v, <2>1, <2>3
  <2>5. LeaseInv' /\ LeasesKept
    BY <1>8, <1>o, <2>1, <2>3 DEF FreeTail
  <2> QED BY <1>8, <2>2, <2>4, <2>5 DEF FreeTail, IInv, ViewInv, ViewsKept
<1>9. CASE AdvanceTail
  <2>1. cons'.pc = "idle"
    BY <1>9, <1>e DEF AdvanceTail
  <2> QED BY <1>9, <1>u, <2>1 DEF AdvanceTail, IInv, ViewInv, ViewsKept
<1>10. CASE ConsOpen
  BY <1>10, HeldCleanup
<1>11. CASE ConsRescan
  <2>1. cons'.pc = "idle"
    BY <1>11, <1>e DEF ConsRescan
  <2> QED BY <1>11, <1>u, <2>1 DEF ConsRescan, IInv, ViewInv, ViewsKept
<1>12. CASE ConsDie
  <2>1. cons'.pc = "dead" /\ views' = {}
    BY <1>12, <1>f DEF ConsDie, Consumer
  <2> QED BY <1>12, <1>u, <2>1 DEF ConsDie, ViewInv, ViewsKept
<1> QED
  BY <1>1, <1>2, <1>3, <1>4, <1>5, <1>6, <1>7, <1>8, <1>9, <1>10, <1>11, <1>12 DEF ConsumerStep

LEMMA HeldRelease ==
  ASSUME IInv, ReleaseStep
  PROVE  LeaseInv' /\ ViewInv' /\ ViewsKept /\ LeasesKept
<1>f. slots \in [0 .. Cap - 1 -> SlotSet] /\ cons.t \in Nat
      /\ \A c \in views : c \in Nat /\ Idx(c) \in 0 .. Cap - 1
  BY Facts, IdxIn DEF IInv, ConsumerSet
<1>1. ASSUME NEW c \in views, Release(c)
      PROVE  LeaseInv' /\ ViewInv' /\ ViewsKept /\ LeasesKept
  <2>1. /\ slots' = [slots EXCEPT ![Idx(c)] = FreeSlot] /\ views' = views \ {c}
        /\ UNCHANGED <<pr, leases, cons>>
    BY <1>1 DEF Release, SetSlot
  <2>2. \A j \in 0 .. Cap - 1 : j # Idx(c) => slots'[j] = slots[j]
    BY <1>f, <2>1
  <2>3. slots[Idx(c)].state = "PINNED"
    BY DEF IInv, ViewInv
  <2>4. \A d \in views' : d \in views /\ Idx(d) # Idx(c)
    BY <2>1 DEF IInv, ViewInv
  <2>5. \A d \in views' : slots'[Idx(d)] = slots[Idx(d)]
    BY <1>f, <2>2, <2>4
  <2>6. cons.pc \in {"pin", "take", "stamp", "lower", "cas", "keep", "free"} =>
          slots'[Idx(cons.t)] = slots[Idx(cons.t)]
    <3>1. cons.pc \in {"pin", "take", "stamp", "lower", "cas", "keep", "free"} =>
            Idx(cons.t) # Idx(c)
      BY <2>3 DEF IInv, ViewInv
    <3>2. Idx(cons.t) \in 0 .. Cap - 1
      BY <1>f, IdxIn
    <3> QED BY <2>2, <3>1, <3>2
  <2>7. LeaseInv' /\ LeasesKept
    BY <1>f, <2>1, <2>2, <2>3, LeasesStay DEF IInv
  <2> QED BY <2>1, <2>4, <2>5, <2>6, <2>7 DEF IInv, ViewInv, ViewsKept
<1>2. CASE UnpinEntry \/ UnpinScan \/ UnpinRaise
  <2>1. UNCHANGED <<slots, pr, leases, cons, views>>
    BY <1>2 DEF UnpinEntry, UnpinScan, UnpinRaise
  <2>2. LeaseInv' /\ LeasesKept
    BY <2>1, LeasesStay DEF IInv
  <2>3. ViewInv' /\ ViewsKept
    BY <2>1, ViewsStay DEF IInv
  <2> QED BY <2>2, <2>3
<1> QED BY <1>1, <1>2 DEF ReleaseStep

LEMMA HeldNext == IInv /\ [Next]_vars => IInv' /\ ViewsKept /\ LeasesKept
<1>1. ASSUME IInv, UNCHANGED vars PROVE LeaseInv' /\ ViewInv' /\ ViewsKept /\ LeasesKept
  <2>1. UNCHANGED <<slots, pr, leases, cons, views>>
    BY <1>1 DEF vars
  <2> QED BY <1>1, <2>1, LeasesStay, ViewsStay DEF IInv
<1>2. ASSUME IInv, Next PROVE LeaseInv' /\ ViewInv' /\ ViewsKept /\ LeasesKept
  BY <1>2, HeldProducer, HeldCleanup, HeldConsumer, HeldRelease DEF Next
<1> QED BY <1>1, <1>2, TypedNext DEF IInv

\* "The payload bytes stay valid for as long as the view is alive": no step of
\* anyone changes a slot under a view that is held before and after it, nor
\* the slot of a lease that is neither published nor aborted in it; neither
\* the guard nor the floor is needed for it, the slot's own state is enough.
THEOREM HeldSlotsAreTheHolders == Spec => HeldSlotsStable
<1>1. Init => IInv
  BY TypedInit, HeldInit DEF IInv
<1>2. IInv /\ [Next]_vars => IInv'
  BY HeldNext
<1>3. IInv /\ [Next]_vars =>
        [/\ \A c \in views \cap views' : slots'[Idx(c)] = slots[Idx(c)]
         /\ \A l \in leases \cap leases' : slots'[l.idx] = slots[l.idx]]_vars
  BY HeldNext DEF ViewsKept, LeasesKept
<1> QED BY <1>1, <1>2, <1>3, PTL DEF Spec, HeldSlotsStable

-----------------------------------------------------------------------------
(* The ring as the cursors see it                                          *)

\* The cursor value of the slot the producer writes next, and the first one
\* nobody has reserved: the head cursor does not count leases, nor the slot
\* being committed.
Tip == head + Cardinality(leases) + (IF pr.pc = "publish" THEN 1 ELSE 0)
Top == Tip + (IF pr.pc = "commit" THEN 1 ELSE 0)

\* The number the next slot gets.
Nxt == IF pr.pc \in {"claim", "mark"} THEN pr.next - 1 ELSE pr.next

\* The oldest cursor value not yet received.
Low == tail + (IF cons.pc \in {"free", "advance"} THEN 1 ELSE 0)

Reading == {"gate", "pin", "stamp", "lower", "cas", "keep", "take", "free", "advance"}

\* The producer's index is its cursor's, its cursors are below the bound.
Placed ==
  /\ IsFiniteSet(leases)
  /\ pr.idx = Idx(Tip)
  /\ Top <= Begun /\ Begun <= scenario.sends
  /\ pr.pc \in {"floor", "lease"} => Begun < scenario.sends
  /\ pr.pc \in {"claim", "mark"} => Top < Begun

\* What a reservation knows of its slot.
Numbered ==
  /\ \A l \in leases : slots[l.idx].seq = l.seq
  /\ At("commit") => slots[pr.idx].seq = pr.next - 1 /\ slots[pr.idx].msg = pr.id

LEMMA Fields ==
  ASSUME Typed
  PROVE  /\ pr.idx \in 0 .. Cap - 1 /\ pr.t \in Nat /\ pr.bias \in Nat /\ pr.next \in Nat
         /\ pr.id \in Nat /\ Nxt \in Nat
         /\ cons.t \in Nat /\ cons.expected \in Nat /\ cons.inc \in Nat /\ cons.resync \in BOOLEAN
         /\ rel.c \in Nat /\ rel.entry \in Nat /\ rel.next \in Nat
         /\ \A l \in leases : l.idx \in 0 .. Cap - 1 /\ l.seq \in Nat
         /\ \A c \in Nat : Idx(c) \in 0 .. Cap - 1
         /\ \A c \in views : c \in Nat /\ Idx(c) \in 0 .. Cap - 1
         /\ Low \in Nat /\ tail <= Low /\ Low <= tail + 1
<1>1. /\ pr.idx \in 0 .. Cap - 1 /\ pr.t \in Nat /\ pr.bias \in 0 .. Cap /\ pr.next \in Nat
      /\ pr.id \in Nat
      /\ cons.t \in Nat /\ cons.expected \in Nat /\ cons.inc \in Nat /\ cons.resync \in BOOLEAN
      /\ rel.c \in Nat /\ rel.entry \in Nat /\ rel.next \in Nat
      /\ \A l \in leases : l.idx \in 0 .. Cap - 1 /\ l.seq \in Nat
  BY Facts DEF ProducerSet, ConsumerSet, ReleaseSet, LeaseSet
<1>2. Nxt \in Nat
  <2>1. pr.pc \in {"claim", "mark"} => pr.next >= 1
    BY Facts
  <2> QED BY <1>1, <2>1 DEF Nxt
<1>3. \A c \in Nat : Idx(c) \in 0 .. Cap - 1
  BY IdxIn
<1>4. views \subseteq Nat /\ tail \in Nat /\ Cap \in Nat
  BY Facts
<1>5. Low \in Nat /\ tail <= Low /\ Low <= tail + 1
  BY <1>4 DEF Low
<1>6. pr.bias \in Nat
  BY <1>1, <1>4
<1> QED BY <1>1, <1>2, <1>3, <1>4, <1>5, <1>6

LEMMA TopFacts ==
  ASSUME Typed, IsFiniteSet(leases)
  PROVE  /\ Cardinality(leases) \in Nat /\ Tip \in Nat /\ Top \in Nat /\ Begun \in Nat
         /\ Top = IF pr.pc = "commit" THEN Tip + 1 ELSE Tip
<1>1. Cardinality(leases) \in Nat
  BY FS_CardinalityType
<1>2. head \in Nat /\ pr.id \in Nat
  BY Facts, Fields
<1>3. Tip \in Nat
  BY <1>1, <1>2 DEF Tip
<1>4. Top \in Nat /\ Top = IF pr.pc = "commit" THEN Tip + 1 ELSE Tip
  BY <1>3 DEF Top
<1> QED BY <1>1, <1>2, <1>3, <1>4 DEF Begun

\* Who moves neither the head nor the producer's handle moves none of these.
LEMMA TopKept ==
  ASSUME UNCHANGED <<head, leases, pr>>
  PROVE  Tip' = Tip /\ Top' = Top /\ Nxt' = Nxt /\ Begun' = Begun
  BY DEF Tip, Top, Nxt, Begun

\* The slots of one lap are different, and any slot has a cursor value in it.
LEMMA Lap ==
  ASSUME NEW c \in Nat, NEW d \in Nat, c < d, d < c + Cap
  PROVE  Idx(c) # Idx(d)
  BY CapAssumption, WindowDistinct DEF Idx

LEMMA SameSlot ==
  ASSUME NEW c \in Nat
  PROVE  Idx(c + Cap) = Idx(c) /\ Idx(Idx(c) + 1) = Idx(c + 1)
  BY CapAssumption, NextLap, NextSlot DEF Idx

LEMMA PreviousSlot ==
  ASSUME NEW c \in Nat \ {0}
  PROVE  Idx(Idx(c) + Cap - 1) = Idx(c - 1)
<1>1. Cap \in Nat \ {0} /\ c \in Nat /\ c - 1 \in Nat /\ Idx(c) \in 0 .. Cap - 1
  BY CapAssumption, IdxIn
<1>2. PICK r \in Nat : r = Idx(c)
  BY <1>1
<1>3. PICK p \in Nat : p = Idx(c - 1) /\ p \in 0 .. Cap - 1
  BY <1>1, IdxIn
<1>4. r = Idx(p + 1)
  <2>1. Idx(Idx(c - 1) + 1) = Idx((c - 1) + 1)
    BY <1>1, SameSlot
  <2>2. (c - 1) + 1 = c
    BY <1>1
  <2> QED BY <1>2, <1>3, <2>1, <2>2
<1>5. \A x \in 0 .. Cap - 1 : Idx(x) = x
  <2>1. SUFFICES ASSUME NEW x \in 0 .. Cap - 1 PROVE x % Cap = x
    BY DEF Idx
  <2>2. x \in Nat /\ x = Cap * 0 + x /\ 0 \in Nat
    BY <1>1
  <2> QED BY <1>1, <2>2, SlotOf
<1>6. CASE p + 1 < Cap
  <2>1. p + 1 \in 0 .. Cap - 1
    BY <1>1, <1>3, <1>6
  <2>2. r = p + 1
    BY <1>4, <1>5, <2>1
  <2>3. r + Cap - 1 = p + Cap
    BY <1>1, <1>3, <2>2
  <2>4. Idx(p + Cap) = Idx(p)
    BY <1>3, SameSlot
  <2> QED BY <1>2, <1>3, <1>5, <2>3, <2>4
<1>7. CASE p + 1 = Cap
  <2>1. 0 \in 0 .. Cap - 1 /\ 0 + Cap = Cap /\ 0 \in Nat
    BY <1>1
  <2>2. Idx(Cap) = 0
    BY <1>5, <2>1, SameSlot
  <2>3. r = 0 /\ r + Cap - 1 = p
    BY <1>1, <1>3, <1>4, <1>7, <2>2
  <2> QED BY <1>2, <1>3, <1>5, <2>3
<1> QED BY <1>1, <1>3, <1>6, <1>7

\* The cursor value below b + Cap, and not below b, of a slot.
LEMMA OwnCursor ==
  ASSUME NEW b \in Nat, NEW i \in 0 .. Cap - 1
  PROVE  \E c \in Nat : b <= c /\ c < b + Cap /\ Idx(c) = i
<1>1. Cap \in Nat \ {0} /\ i \in Nat
  BY CapAssumption
<1>2. PICK q \in Nat, r \in Nat : q = b \div Cap /\ r = b % Cap /\ b = Cap * q + r /\ r < Cap
  BY <1>1, LapAndSlot
<1>3. Cap * q \in Nat /\ Cap * (q + 1) = Cap * q + Cap /\ q + 1 \in Nat
  BY <1>1, <1>2
<1>4. PICK m \in Nat : m = Cap * q
  BY <1>3
<1>5. CASE r <= i
  <2>1. m + i \in Nat /\ b <= m + i /\ m + i < b + Cap
    BY <1>1, <1>2, <1>4, <1>5
  <2>2. Idx(m + i) = i
    BY <1>1, <1>2, <1>4, <2>1, SlotOf DEF Idx
  <2> QED BY <2>1, <2>2
<1>6. CASE i < r
  <2>1. m + Cap + i \in Nat /\ b <= m + Cap + i /\ m + Cap + i < b + Cap
    BY <1>1, <1>2, <1>4, <1>6
  <2>2. m + Cap + i = Cap * (q + 1) + i
    BY <1>1, <1>3, <1>4
  <2>3. (m + Cap + i) % Cap = i
    BY <1>1, <1>3, <2>1, <2>2, SlotOf
  <2>4. Idx(m + Cap + i) = i
    BY <2>3 DEF Idx
  <2> QED BY <2>1, <2>4
<1> QED BY <1>1, <1>2, <1>5, <1>6

-----------------------------------------------------------------------------
(* What a step of the producer does to the ring                            *)

\* Nothing; a number may be spent.
Rests ==
  /\ UNCHANGED <<slots, sent>> /\ Top' = Top
  /\ \/ Nxt' = Nxt /\ met' = met
     \/ Nxt' = Nxt + 1 /\ met' = met \cup {"spent"}

\* The next slot is reserved, by a send or an alloc, ...
Reserves ==
  \E x \in SlotSet :
    /\ slots[Idx(Top)].state = "FREE" /\ slots' = [slots EXCEPT ![Idx(Top)] = x]
    /\ x.state = "WRITING" /\ x.owner = 0 /\ x.seq = Nxt
    /\ Top' = Top + 1 /\ Nxt' = Nxt + 1 /\ UNCHANGED <<sent, met>>

\* ... one reserved is committed, ...
Fills ==
  \E i \in 0 .. Cap - 1, m \in Nat :
    /\ slots[i].state = "WRITING"
    /\ slots' = [slots EXCEPT ![i] = [slots[i] EXCEPT !.state = "COMMITTED", !.msg = m]]
    /\ sent' = SentWith(slots[i].seq, m)
    /\ Top' = Top /\ Nxt' = Nxt /\ UNCHANGED met

\* ... or the newest is given back.
Withdraws ==
  /\ Top >= 1 /\ slots[Idx(Top - 1)].state = "WRITING"
  /\ slots' = [slots EXCEPT ![Idx(Top - 1)] = FreeSlot]
  /\ Top' = Top - 1 /\ Nxt' = slots[Idx(Top - 1)].seq /\ UNCHANGED <<sent, met>>

Produces ==
  /\ Rests \/ Reserves \/ Fills \/ Withdraws
  /\ UNCHANGED <<scenario, tail, floor, cons, views, rel, got>>

\* Either call ends with its number taken and its handle idle, or goes on.
LEMMA GuardMoves ==
  ASSUME Typed, Placed, Numbered,
         \/ \E op \in {"send", "alloc"} : GuardLoad(op)
         \/ GuardFloor \/ ClaimSlot \/ PublishHead
  PROVE  Produces /\ Placed' /\ Numbered'
<1>f. /\ pr \in ProducerSet /\ pr.idx \in 0 .. Cap - 1 /\ pr.next \in Nat /\ pr.id \in Nat
      /\ head \in Nat /\ leases \subseteq LeaseSet
      /\ Cardinality(leases) \in Nat /\ Tip \in Nat /\ Top \in Nat /\ Begun \in Nat
      /\ scenario.sends \in Nat
  BY Facts, Fields, TopFacts, ScenariosAssumption DEF Placed
<1>k. PICK k \in Nat : k = Cardinality(leases)
  BY <1>f
<1>u. UNCHANGED <<scenario, tail, floor, cons, views, rel, got, slots, sent, leases>>
  BY DEF GuardLoad, GuardFloor, ClaimSlot, PublishHead
<1>l. \A l \in leases' : slots'[l.idx].seq = l.seq
  BY <1>u DEF Numbered
<1> SUFFICES Rests /\ Placed' /\ Numbered'
  BY <1>u DEF Produces
<1>1. ASSUME NEW op \in {"send", "alloc"}, GuardLoad(op) PROVE Rests /\ Placed' /\ Numbered'
  <2>1. pr' = [pr EXCEPT !.pc = "floor", !.op = op, !.t = tail] /\ pr.pc = "idle"
        /\ UNCHANGED <<head, met>> /\ Begun < scenario.sends
    BY <1>1 DEF GuardLoad, At
  <2>2. pr'.pc = "floor" /\ pr'.idx = pr.idx /\ pr'.next = pr.next /\ pr'.id = pr.id
    BY <1>f, <2>1 DEF ProducerSet
  <2>3. Tip' = Tip /\ Top' = Top /\ Nxt' = Nxt /\ Begun' = Begun
    BY <1>u, <2>1, <2>2 DEF Tip, Top, Nxt, Begun
  <2>4. Rests
    BY <1>u, <2>1, <2>3 DEF Rests
  <2>5. Placed'
    BY <1>u, <2>1, <2>2, <2>3 DEF Placed
  <2> QED BY <1>l, <2>2, <2>4, <2>5 DEF Numbered, At
<1>2. CASE GuardFloor
  <2>1. pr.pc = "floor" /\ UNCHANGED <<head, met>>
    BY <1>2 DEF GuardFloor, At
  <2>2. CASE pr' = [pr EXCEPT !.pc = "claim", !.next = pr.next + 1, !.id = pr.id + 1]
    <3>1. pr'.pc = "claim" /\ pr'.idx = pr.idx /\ pr'.next = pr.next + 1 /\ pr'.id = pr.id + 1
      BY <1>f, <2>2 DEF ProducerSet
    <3>2. Tip' = Tip /\ Top' = Top
      BY <1>u, <2>1, <3>1 DEF Tip, Top
    <3>3. Nxt' = Nxt
      <4>1. (pr.next + 1) - 1 = pr.next
        BY <1>f
      <4> QED BY <2>1, <3>1, <4>1 DEF Nxt
    <3>4. Begun' = Begun + 1
      <4>1. pr.id + 1 + k = pr.id + k + 1
        BY <1>f
      <4> QED BY <1>k, <1>u, <3>1, <4>1 DEF Begun
    <3>5. Top < Begun + 1 /\ Begun + 1 <= scenario.sends /\ Top <= Begun + 1
      BY <1>f, <2>1 DEF Placed
    <3>6. Rests
      BY <1>u, <2>1, <3>2, <3>3 DEF Rests
    <3>7. Placed'
      BY <1>u, <3>1, <3>2, <3>4, <3>5 DEF Placed
    <3> QED BY <1>l, <3>1, <3>6, <3>7 DEF Numbered, At
  <2>3. CASE pr' = [pr EXCEPT !.pc = "idle", !.op = "none"] \/ pr' = [pr EXCEPT !.pc = "lease"]
    <3>1. pr'.pc \in {"idle", "lease"} /\ pr'.idx = pr.idx /\ pr'.next = pr.next /\ pr'.id = pr.id
      BY <1>f, <2>3 DEF ProducerSet
    <3>2. Tip' = Tip /\ Top' = Top /\ Nxt' = Nxt /\ Begun' = Begun
      BY <1>u, <2>1, <3>1 DEF Tip, Top, Nxt, Begun
    <3>3. Rests
      BY <1>u, <2>1, <3>2 DEF Rests
    <3>4. Placed'
      BY <1>u, <2>1, <3>1, <3>2 DEF Placed
    <3> QED BY <1>l, <3>1, <3>3, <3>4 DEF Numbered, At
  <2> QED BY <1>2, <2>2, <2>3 DEF GuardFloor
<1>3. CASE ClaimSlot
  <2>1. pr.pc = "claim" /\ UNCHANGED head
    BY <1>3 DEF ClaimSlot, At
  <2>2. CASE Goto("mark") /\ UNCHANGED met
    <3>1. pr'.pc = "mark" /\ pr'.idx = pr.idx /\ pr'.next = pr.next /\ pr'.id = pr.id
      BY <1>f, <2>2 DEF ProducerSet, Goto
    <3>2. Tip' = Tip /\ Top' = Top /\ Nxt' = Nxt /\ Begun' = Begun
      BY <1>u, <2>1, <3>1 DEF Tip, Top, Nxt, Begun
    <3>3. Rests
      BY <1>u, <2>2, <3>2 DEF Rests
    <3>4. Placed'
      BY <1>u, <2>1, <3>1, <3>2 DEF Placed
    <3> QED BY <1>l, <3>1, <3>3, <3>4 DEF Numbered, At
  <2>3. CASE Goto("idle") /\ met' = met \cup {"spent"}
    <3>1. pr'.pc = "idle" /\ pr'.idx = pr.idx /\ pr'.next = pr.next /\ pr'.id = pr.id
      BY <1>f, <2>3 DEF ProducerSet, Goto
    <3>2. Tip' = Tip /\ Top' = Top /\ Begun' = Begun
      BY <1>u, <2>1, <3>1 DEF Tip, Top, Begun
    <3>3. Nxt' = Nxt + 1
      <4>1. (pr.next - 1) + 1 = pr.next
        BY <1>f
      <4> QED BY <2>1, <3>1, <4>1 DEF Nxt
    <3>4. Rests
      BY <1>u, <2>3, <3>2, <3>3 DEF Rests
    <3>5. Placed'
      BY <1>u, <2>1, <3>1, <3>2 DEF Placed
    <3> QED BY <1>l, <3>1, <3>4, <3>5 DEF Numbered, At
  <2> QED BY <1>3, <2>2, <2>3 DEF ClaimSlot
<1>4. CASE PublishHead
  <2>1. pr.pc = "publish" /\ head' = head + 1 /\ pr' = [pr EXCEPT !.pc = "idle", !.op = "none"]
        /\ UNCHANGED met
    BY <1>4 DEF PublishHead, At
  <2>2. pr'.pc = "idle" /\ pr'.idx = pr.idx /\ pr'.next = pr.next /\ pr'.id = pr.id
    BY <1>f, <2>1 DEF ProducerSet
  <2>3. Tip' = Tip
    <3>1. head + 1 + k + 0 = head + k + 1
      BY <1>f
    <3> QED BY <1>k, <1>u, <2>1, <2>2, <3>1 DEF Tip
  <2>4. Top' = Top /\ Nxt' = Nxt /\ Begun' = Begun
    BY <1>u, <2>1, <2>2, <2>3 DEF Top, Nxt, Begun
  <2>5. Rests
    BY <1>u, <2>1, <2>4 DEF Rests
  <2>6. Placed'
    BY <1>u, <2>1, <2>2, <2>3, <2>4 DEF Placed
  <2> QED BY <1>l, <2>2, <2>5, <2>6 DEF Numbered, At
<1> QED BY <1>1, <1>2, <1>3, <1>4

LEMMA SlotMoves ==
  ASSUME Typed, LeaseInv, Placed, Numbered, MarkSlot \/ CommitSlot \/ LeaseSlot
  PROVE  Produces /\ Placed' /\ Numbered'
<1>f. /\ pr \in ProducerSet /\ pr.idx \in 0 .. Cap - 1 /\ pr.next \in Nat /\ pr.id \in Nat
      /\ head \in Nat /\ leases \subseteq LeaseSet /\ slots \in [0 .. Cap - 1 -> SlotSet]
      /\ Cardinality(leases) \in Nat /\ Tip \in Nat /\ Top \in Nat /\ Begun \in Nat
      /\ Top = IF pr.pc = "commit" THEN Tip + 1 ELSE Tip
      /\ scenario.sends \in Nat /\ \A l \in leases : l.idx \in 0 .. Cap - 1
      /\ pr.pc \in {"claim", "mark", "commit"} => pr.next - 1 \in Nat
      /\ pr.idx = Idx(Tip)
  <2>1. pr.pc \in {"claim", "mark", "commit"} => pr.next >= 1
    BY Facts
  <2>2. pr.next \in Nat
    BY Fields
  <2>3. pr.pc \in {"claim", "mark", "commit"} => pr.next - 1 \in Nat
    BY <2>1, <2>2
  <2>4. scenario.sends \in Nat
    BY Facts, ScenariosAssumption
  <2> QED BY <2>3, <2>4, Facts, Fields, TopFacts DEF Placed
<1>k. PICK k \in Nat : k = Cardinality(leases)
  BY <1>f
<1>u. UNCHANGED <<scenario, head, tail, floor, cons, views, rel, got, met>>
  BY DEF MarkSlot, CommitSlot, LeaseSlot
<1>1. CASE MarkSlot
  <2> DEFINE x == [state |-> "WRITING", seq |-> pr.next - 1, owner |-> 0, msg |-> pr.id]
  <2>1. pr.pc = "mark" /\ slots' = [slots EXCEPT ![pr.idx] = x] /\ UNCHANGED <<sent, leases>>
    BY <1>1 DEF MarkSlot, At, SetSlot
  <2>2. pr'.pc = "commit" /\ pr'.idx = pr.idx /\ pr'.next = pr.next /\ pr'.id = pr.id
    BY <1>1, <1>f DEF MarkSlot, Goto, ProducerSet
  <2>3. Tip' = Tip /\ Top = Tip /\ Begun' = Begun
    BY <1>f, <1>u, <2>1, <2>2 DEF Tip, Begun
  <2>4. Top' = Top + 1
    BY <2>2, <2>3 DEF Top
  <2>5. Nxt = pr.next - 1 /\ Nxt' = Nxt + 1
    <3>1. (pr.next - 1) + 1 = pr.next
      BY <1>f
    <3> QED BY <2>1, <2>2, <3>1 DEF Nxt
  <2>6. x \in SlotSet /\ x.state = "WRITING" /\ x.owner = 0 /\ x.seq = Nxt /\ x.msg = pr.id
    BY <1>f, <2>1, <2>5 DEF SlotSet, SlotState
  <2> HIDE DEF x
  <2>7. slots[pr.idx].state = "FREE" /\ pr.idx = Idx(Top)
    BY <1>f, <2>1, <2>3 DEF LeaseInv, At
  <2>8. Reserves
    BY <1>u, <2>1, <2>4, <2>5, <2>6, <2>7 DEF Reserves
  <2>9. Top + 1 <= Begun
    BY <1>f, <2>1 DEF Placed
  <2>10. Placed'
    BY <1>f, <1>u, <2>1, <2>2, <2>3, <2>4, <2>9 DEF Placed
  <2>11. \A l \in leases : slots'[l.idx].seq = l.seq
    BY <1>f, <2>1, <2>7 DEF LeaseInv, Numbered
  <2>12. slots'[pr.idx] = x
    BY <1>f, <2>1
  <2>13. Numbered'
    BY <2>1, <2>2, <2>5, <2>6, <2>11, <2>12 DEF Numbered, At
  <2> QED BY <1>u, <2>8, <2>10, <2>13 DEF Produces
<1>2. CASE CommitSlot
  <2>1. /\ pr.pc = "commit" /\ slots' = [slots EXCEPT ![pr.idx].state = "COMMITTED"]
        /\ sent' = SentWith(pr.next - 1, pr.id) /\ UNCHANGED leases
    BY <1>2 DEF CommitSlot, At
  <2>2. /\ pr'.pc = "publish" /\ pr'.idx = Idx(pr.idx + 1) /\ pr'.next = pr.next
        /\ pr'.id = pr.id
    BY <1>2, <1>f DEF CommitSlot, ProducerSet
  <2>3. Top = Tip + 1 /\ Begun' = Begun
    BY <1>f, <1>u, <2>1, <2>2 DEF Begun
  <2>4. Tip' = Top
    <3>1. Tip = head + k
      BY <1>f, <1>k, <2>1 DEF Tip
    <3>2. Tip' = head + k + 1
      BY <1>k, <1>u, <2>1, <2>2 DEF Tip
    <3> QED BY <1>f, <2>3, <3>1, <3>2
  <2>5. Top' = Top /\ Nxt' = Nxt
    BY <1>f, <2>1, <2>2, <2>4 DEF Top, Nxt
  <2>6. pr'.idx = Idx(Tip')
    BY <1>f, <2>2, <2>3, <2>4, SameSlot
  <2>7. slots[pr.idx] \in SlotSet /\ slots[pr.idx].state = "WRITING"
        /\ slots[pr.idx].seq = pr.next - 1 /\ slots[pr.idx].msg = pr.id
    BY <1>f, <2>1 DEF LeaseInv, Numbered, At
  <2>8. [slots[pr.idx] EXCEPT !.state = "COMMITTED", !.msg = pr.id]
          = [slots[pr.idx] EXCEPT !.state = "COMMITTED"]
    BY <2>7 DEF SlotSet
  <2>9. slots' = [slots EXCEPT ![pr.idx] = [slots[pr.idx] EXCEPT !.state = "COMMITTED",
                                                                 !.msg = pr.id]]
    BY <2>1, <2>8
  <2>10. Fills
    BY <1>f, <1>u, <2>1, <2>5, <2>7, <2>9 DEF Fills
  <2>11. Placed'
    BY <1>f, <1>u, <2>1, <2>2, <2>3, <2>5, <2>6 DEF Placed
  <2>12. \A l \in leases : slots'[l.idx].seq = l.seq
    BY <1>f, <2>1 DEF LeaseInv, Numbered, At
  <2>13. Numbered'
    BY <2>1, <2>2, <2>12 DEF Numbered, At
  <2> QED BY <1>u, <2>10, <2>11, <2>13 DEF Produces
<1>3. CASE LeaseSlot
  <2> DEFINE x == [state |-> "WRITING", seq |-> pr.next, owner |-> 0, msg |-> 0]
             l == [idx |-> pr.idx, seq |-> pr.next]
  <2>1. pr.pc = "lease" /\ UNCHANGED sent /\ Begun < scenario.sends
    BY <1>3 DEF LeaseSlot, At, Placed
  <2>2. CASE Writable(pr.idx)
    <3>1. /\ slots' = [slots EXCEPT ![pr.idx] = x] /\ leases' = leases \cup {l}
          /\ pr' = [pr EXCEPT !.pc = "idle", !.op = "none", !.next = pr.next + 1,
                              !.idx = Idx(pr.idx + 1)]
      BY <1>3, <2>2 DEF LeaseSlot, SetSlot
    <3>2. /\ pr'.pc = "idle" /\ pr'.idx = Idx(pr.idx + 1) /\ pr'.next = pr.next + 1
          /\ pr'.id = pr.id
      BY <1>f, <3>1 DEF ProducerSet
    <3>3. slots[pr.idx].state = "FREE"
      BY <2>2 DEF Writable
    <3>4. x \in SlotSet /\ x.state = "WRITING" /\ x.owner = 0 /\ x.seq = pr.next
          /\ l.idx = pr.idx /\ l.seq = pr.next
      BY <1>f DEF SlotSet, SlotState
    <3> HIDE DEF x, l
    <3>5. l \notin leases /\ \A m \in leases : m.idx # pr.idx
      BY <3>3, <3>4 DEF LeaseInv
    <3>6. IsFiniteSet(leases') /\ Cardinality(leases') = k + 1
      BY <1>k, <3>1, <3>5, FS_AddElement DEF Placed
    <3>7. Tip' = Tip + 1 /\ Top = Tip
      <4>1. Tip = head + k /\ Tip' = head + (k + 1)
        BY <1>f, <1>k, <1>u, <2>1, <3>2, <3>6 DEF Tip
      <4> QED BY <1>f, <2>1, <4>1
    <3>8. Top' = Top + 1 /\ Nxt = pr.next /\ Nxt' = Nxt + 1
      <4>1. Top' = Tip'
        BY <3>2, <3>7, <1>f DEF Top
      <4> QED BY <2>1, <3>2, <3>7, <4>1 DEF Nxt
    <3>9. Begun' = Begun + 1
      <4>1. Begun = pr.id + k /\ Begun' = pr.id + (k + 1)
        BY <1>k, <3>2, <3>6 DEF Begun
      <4> QED BY <1>f, <4>1
    <3>10. Reserves
      BY <1>f, <1>u, <2>1, <3>1, <3>3, <3>4, <3>7, <3>8 DEF Reserves
    <3>11. pr'.idx = Idx(Tip')
      BY <1>f, <3>2, <3>7, SameSlot
    <3>12. Top + 1 <= Begun + 1 /\ Begun + 1 <= scenario.sends
      BY <1>f, <2>1 DEF Placed
    <3>13. Placed'
      BY <1>u, <3>2, <3>6, <3>8, <3>9, <3>11, <3>12 DEF Placed
    <3>14. slots'[pr.idx] = x /\ \A m \in leases : slots'[m.idx] = slots[m.idx]
      BY <1>f, <3>1, <3>5
    <3>15. \A m \in leases' : slots'[m.idx].seq = m.seq
      BY <3>1, <3>4, <3>14 DEF Numbered
    <3>16. Numbered'
      BY <3>2, <3>15 DEF Numbered, At
    <3> QED BY <1>u, <3>10, <3>13, <3>16 DEF Produces
  <2>3. CASE ~Writable(pr.idx)
    <3>1. pr' = [pr EXCEPT !.pc = "idle", !.op = "none"] /\ UNCHANGED <<slots, leases>>
      BY <1>3, <2>3 DEF LeaseSlot
    <3>2. pr'.pc = "idle" /\ pr'.idx = pr.idx /\ pr'.next = pr.next /\ pr'.id = pr.id
      BY <1>f, <3>1 DEF ProducerSet
    <3>3. Tip' = Tip /\ Top' = Top /\ Nxt' = Nxt /\ Begun' = Begun
      BY <1>u, <2>1, <3>1, <3>2 DEF Tip, Top, Nxt, Begun
    <3>4. Rests
      BY <1>u, <2>1, <3>1, <3>3 DEF Rests
    <3>5. Placed'
      BY <1>u, <3>1, <3>2, <3>3 DEF Placed
    <3>6. Numbered'
      BY <3>1, <3>2 DEF Numbered, At
    <3> QED BY <1>u, <3>4, <3>5, <3>6 DEF Produces
  <2> QED BY <2>2, <2>3
<1> QED BY <1>1, <1>2, <1>3

\* A lease ends: it is filled, or it was the newest and is given back.
LEMMA LeaseMoves ==
  ASSUME Typed, LeaseInv, Placed, Numbered, LeaseEnds
  PROVE  Produces /\ Placed' /\ Numbered'
<1>f. /\ pr \in ProducerSet /\ pr.idx \in 0 .. Cap - 1 /\ pr.next \in Nat /\ pr.id \in Nat
      /\ head \in Nat /\ leases \subseteq LeaseSet /\ slots \in [0 .. Cap - 1 -> SlotSet]
      /\ Cardinality(leases) \in Nat /\ Tip \in Nat /\ Top \in Nat /\ Begun \in Nat
      /\ Top = IF pr.pc = "commit" THEN Tip + 1 ELSE Tip
      /\ scenario.sends \in Nat /\ \A l \in leases : l.idx \in 0 .. Cap - 1 /\ l.seq \in Nat
      /\ pr.idx = Idx(Tip)
  BY Facts, Fields, TopFacts, ScenariosAssumption DEF Placed
<1>k. PICK k \in Nat : k = Cardinality(leases)
  BY <1>f
<1>0. PICK l \in leases : Publish(l) \/ Abort(l)
  BY DEF LeaseEnds
<1>u. UNCHANGED <<scenario, head, tail, floor, cons, views, rel, got, met>>
      /\ pr.pc = "idle" /\ leases' = leases \ {l}
  BY <1>0 DEF Publish, Abort, At
<1>c. IsFiniteSet(leases') /\ Cardinality(leases') = k - 1 /\ k >= 1
  <2>1. IsFiniteSet(leases') /\ Cardinality(leases') = k - 1
    BY <1>k, <1>u, FS_RemoveElement DEF Placed
  <2>2. Cardinality(leases') \in Nat
    BY <2>1, FS_CardinalityType
  <2> QED BY <2>1, <2>2
<1>t. Tip = head + k /\ Top = Tip /\ Begun = pr.id + k /\ Nxt = pr.next
  BY <1>f, <1>k, <1>u DEF Tip, Begun, Nxt
<1>o. \A m \in leases' : m \in leases /\ m.idx # l.idx
  BY <1>u DEF LeaseInv
<1>s. slots[l.idx] \in SlotSet /\ slots[l.idx].state = "WRITING" /\ slots[l.idx].seq = l.seq
  BY <1>f DEF LeaseInv, Numbered
<1>1. CASE Publish(l)
  <2>1. /\ slots' = [slots EXCEPT ![l.idx] = [slots[l.idx] EXCEPT !.state = "COMMITTED",
                                                                  !.msg = pr.id + 1]]
        /\ sent' = SentWith(l.seq, pr.id + 1)
    BY <1>1 DEF Publish, SetSlot
  <2>2. /\ pr'.pc = "publish" /\ pr'.idx = pr.idx /\ pr'.next = pr.next
        /\ pr'.id = pr.id + 1
    BY <1>1, <1>f DEF Publish, ProducerSet
  <2>3. Tip' = Tip /\ Begun' = Begun
    <3>1. Tip' = head + (k - 1) + 1 /\ Begun' = (pr.id + 1) + (k - 1)
      BY <1>c, <1>u, <2>2 DEF Tip, Begun
    <3> QED BY <1>f, <1>t, <3>1
  <2>4. Top' = Top /\ Nxt' = Nxt
    BY <1>f, <1>t, <2>2, <2>3 DEF Top, Nxt
  <2>5. Fills
    <3>1. pr.id + 1 \in Nat
      BY <1>f
    <3> QED BY <1>f, <1>s, <1>u, <2>1, <2>4, <3>1 DEF Fills
  <2>6. Placed'
    BY <1>c, <1>u, <2>2, <2>3, <2>4 DEF Placed
  <2>7. \A m \in leases' : slots'[m.idx].seq = m.seq
    BY <1>f, <1>o, <2>1 DEF Numbered
  <2>8. Numbered'
    BY <2>2, <2>7 DEF Numbered, At
  <2> QED BY <1>u, <2>5, <2>6, <2>8 DEF Produces
<1>2. CASE Abort(l)
  <2>1. /\ slots' = [slots EXCEPT ![l.idx] = FreeSlot] /\ l.idx = Idx(pr.idx + Cap - 1)
        /\ UNCHANGED sent
    BY <1>2 DEF Abort, SetSlot, Newest
  <2>2. pr'.pc = "idle" /\ pr'.idx = l.idx /\ pr'.next = l.seq /\ pr'.id = pr.id
    BY <1>2, <1>f, <1>u DEF Abort, ProducerSet
  <2>3. Top >= 1 /\ l.idx = Idx(Top - 1)
    <3>1. Top >= 1
      BY <1>c, <1>f, <1>t
    <3>2. Top \in Nat \ {0}
      BY <1>f, <3>1
    <3> QED BY <1>f, <1>t, <2>1, <3>1, <3>2, PreviousSlot
  <2>4. Tip' = Top - 1 /\ Begun' = Begun - 1
    <3>1. Tip' = head + (k - 1) + 0 /\ Begun' = pr.id + (k - 1)
      BY <1>c, <1>u, <2>2 DEF Tip, Begun
    <3> QED BY <1>f, <1>t, <3>1
  <2>5. Top' = Top - 1 /\ Nxt' = l.seq
    <3>1. Top' = Tip' + 0
      BY <2>2 DEF Top
    <3> QED BY <1>f, <2>2, <2>4, <3>1 DEF Nxt
  <2>6. Withdraws
    BY <1>s, <1>u, <2>1, <2>3, <2>5 DEF Withdraws
  <2>7. Top - 1 <= Begun - 1 /\ Begun - 1 <= scenario.sends
    BY <1>f DEF Placed
  <2>8. Placed'
    BY <1>c, <1>u, <2>2, <2>3, <2>4, <2>5, <2>7 DEF Placed
  <2>9. \A m \in leases' : slots'[m.idx].seq = m.seq
    BY <1>f, <1>o, <2>1 DEF Numbered
  <2>10. Numbered'
    BY <2>2, <2>9 DEF Numbered, At
  <2> QED BY <1>u, <2>6, <2>8, <2>10 DEF Produces
<1> QED BY <1>0, <1>1, <1>2

-----------------------------------------------------------------------------
(* What the guard counts from                                              *)

\* Behind the consumer a slot is free or pinned, and ahead of everything
\* reserved one that was never used is free; the consumer is never ahead of
\* what is reserved.
Behind ==
  /\ \A c \in Nat : c < Low /\ Top <= c + Cap => slots[Idx(c)].state \in {"FREE", "PINNED"}
  /\ \A c \in Nat : Top <= c /\ c < Cap => slots[Idx(c)].state = "FREE"
  /\ Low <= Top
  /\ cons.pc \in Reading => cons.t = tail
  /\ cons.pc \in Reading \ {"gate"} => tail < Top
  /\ pr.pc = "floor" => pr.t <= tail

\* A slot that is being written or read is one of those in the window.
LEMMA InWindow ==
  ASSUME Typed, IsFiniteSet(leases), Behind, NEW i \in 0 .. Cap - 1,
         slots[i].state \in {"WRITING", "COMMITTED"}
  PROVE  \E c \in Nat : Low <= c /\ c < Top /\ Top <= c + Cap /\ Idx(c) = i
<1>1. Top \in Nat /\ Low \in Nat /\ Cap \in Nat \ {0}
  BY TopFacts, Fields, CapAssumption
<1>2. PICK t \in Nat : t = Top
  BY <1>1
<1>3. CASE t >= Cap
  <2>1. t - Cap \in Nat /\ (t - Cap) + Cap = t
    BY <1>1, <1>2, <1>3
  <2>2. PICK b \in Nat : b = t - Cap /\ b + Cap = t
    BY <2>1
  <2>3. PICK c \in Nat : b <= c /\ c < b + Cap /\ Idx(c) = i
    BY <2>2, OwnCursor
  <2>4. c < Top /\ Top <= c + Cap
    BY <1>1, <1>2, <2>2, <2>3
  <2>5. ~ (c < Low)
    BY <2>3, <2>4 DEF Behind
  <2> QED BY <1>1, <2>3, <2>4, <2>5
<1>4. CASE t < Cap
  <2>1. PICK c \in Nat : 0 <= c /\ c < 0 + Cap /\ Idx(c) = i
    BY OwnCursor
  <2>2. c < Cap /\ Top <= c + Cap
    BY <1>1, <1>2, <1>4, <2>1
  <2>3. ~ (Top <= c)
    BY <2>1, <2>2 DEF Behind
  <2>4. ~ (c < Low)
    BY <2>1, <2>2 DEF Behind
  <2> QED BY <1>1, <2>1, <2>2, <2>3, <2>4
<1> QED BY <1>1, <1>2, <1>3, <1>4

\* No slot behind the consumer becomes more than free or pinned.
LEMMA BehindKept ==
  ASSUME Typed, IsFiniteSet(leases), Behind, UNCHANGED <<tail, cons>>, Top' = Top,
         pr'.pc = "floor" => pr'.t <= tail,
         \A i \in 0 .. Cap - 1 : slots[i].state \in {"FREE", "PINNED"} =>
           slots'[i] = slots[i] \/ slots'[i].state = "FREE"
  PROVE  Behind'
<1>1. Low' = Low
  BY DEF Low
<1>2. \A c \in Nat : Idx(c) \in 0 .. Cap - 1
  BY Fields
<1>3. \A c \in Nat : c < Low /\ Top <= c + Cap => slots'[Idx(c)].state \in {"FREE", "PINNED"}
  BY <1>2 DEF Behind
<1>4. \A c \in Nat : Top <= c /\ c < Cap => slots'[Idx(c)].state = "FREE"
  BY <1>2 DEF Behind
<1> QED BY <1>1, <1>3, <1>4 DEF Behind

\* A step of the producer keeps it: a slot it fills is not behind.
LEMMA ProducesBehind ==
  ASSUME Typed, IsFiniteSet(leases), Behind, Produces, Top' \in Nat,
         pr'.pc = "floor" => pr'.t <= tail,
         LeaseInv, ViewInv
  PROVE  Behind'
<1>f. /\ Top \in Nat /\ Low \in Nat /\ Cap \in Nat \ {0} /\ tail \in Nat /\ tail <= Low
      /\ \A c \in Nat : Idx(c) \in 0 .. Cap - 1
      /\ slots \in [0 .. Cap - 1 -> SlotSet] /\ UNCHANGED <<tail, cons>>
  BY TopFacts, Fields, Facts, CapAssumption DEF Produces
<1>l. Low' = Low /\ UNCHANGED <<tail, cons>>
  BY <1>f DEF Low
<1>1. CASE Rests
  <2>1. UNCHANGED slots /\ Top' = Top
    BY <1>1 DEF Rests
  <2> QED BY <1>f, <2>1, BehindKept
<1>2. CASE Fills
  <2>1. PICK i \in 0 .. Cap - 1 :
          /\ slots[i].state = "WRITING" /\ \E x : slots' = [slots EXCEPT ![i] = x]
          /\ Top' = Top
    BY <1>2 DEF Fills
  <2>2. \A j \in 0 .. Cap - 1 : slots[j].state \in {"FREE", "PINNED"} => slots'[j] = slots[j]
    BY <1>f, <2>1
  <2> QED BY <1>f, <2>1, <2>2, BehindKept
<1>3. CASE Reserves
  <2>1. PICK x : slots' = [slots EXCEPT ![Idx(Top)] = x] /\ Top' = Top + 1
    BY <1>3 DEF Reserves
  <2>2. PICK t \in Nat : t = Top
    BY <1>f
  <2>3. ASSUME NEW c \in Nat, c < Low, t + 1 <= c + Cap
        PROVE  slots'[Idx(c)].state \in {"FREE", "PINNED"}
    <3>1. c < t /\ t < c + Cap /\ t <= c + Cap
      BY <1>f, <2>2, <2>3 DEF Behind
    <3>2. Idx(c) # Idx(t)
      BY <3>1, Lap
    <3>3. slots'[Idx(c)] = slots[Idx(c)]
      BY <1>f, <2>1, <2>2, <3>2
    <3> QED BY <2>2, <2>3, <3>1, <3>3 DEF Behind
  <2>4. ASSUME NEW c \in Nat, t + 1 <= c, c < Cap PROVE slots'[Idx(c)].state = "FREE"
    <3>1. t < c /\ c < t + Cap /\ t <= c
      BY <1>f, <2>4
    <3>2. Idx(c) # Idx(t)
      BY <3>1, Lap
    <3>3. slots'[Idx(c)] = slots[Idx(c)]
      BY <1>f, <2>1, <2>2, <3>2
    <3> QED BY <2>2, <2>4, <3>1, <3>3 DEF Behind
  <2>5. Low <= t + 1 /\ (tail < t => tail < t + 1)
    BY <1>f, <2>2 DEF Behind
  <2> QED BY <1>l, <2>1, <2>2, <2>3, <2>4, <2>5 DEF Behind
<1>4. CASE Withdraws
  <2>1. /\ slots' = [slots EXCEPT ![Idx(Top - 1)] = FreeSlot] /\ Top' = Top - 1 /\ Top >= 1
        /\ slots[Idx(Top - 1)].state = "WRITING"
    BY <1>4 DEF Withdraws
  <2>2. PICK t \in Nat : t = Top - 1 /\ Top = t + 1
    BY <1>f, <2>1
  <2>3. slots'[Idx(t)].state = "FREE"
    BY <1>f, <2>1, <2>2 DEF FreeSlot
  <2>4. ASSUME NEW c \in Nat, c < Low, t <= c + Cap
        PROVE  slots'[Idx(c)].state \in {"FREE", "PINNED"}
    <3>1. CASE t = c + Cap
      <4>1. Idx(c) = Idx(t)
        BY <3>1, SameSlot
      <4> QED BY <2>3, <4>1
    <3>2. CASE t # c + Cap
      <4>1. t + 1 <= c + Cap
        BY <1>f, <2>4, <3>2
      <4>2. slots[Idx(c)].state \in {"FREE", "PINNED"}
        BY <2>2, <2>4, <4>1 DEF Behind
      <4>3. slots'[Idx(c)] = slots[Idx(c)]
        BY <1>f, <2>1, <2>2, <4>2
      <4> QED BY <4>2, <4>3
    <3> QED BY <3>1, <3>2
  <2>5. ASSUME NEW c \in Nat, t <= c, c < Cap PROVE slots'[Idx(c)].state = "FREE"
    <3>1. CASE t = c
      BY <2>3, <3>1
    <3>2. CASE t # c
      <4>1. t + 1 <= c
        BY <2>5, <3>2
      <4>2. slots[Idx(c)].state = "FREE"
        BY <2>2, <2>5, <4>1 DEF Behind
      <4>3. slots'[Idx(c)] = slots[Idx(c)]
        BY <1>f, <2>1, <2>2, <4>2
      <4> QED BY <4>2, <4>3
    <3> QED BY <3>1, <3>2
  <2>6. Low <= t
    <3>1. Top <= t + Cap
      BY <1>f, <2>2
    <3>2. ~ (t < Low)
      BY <2>1, <2>2, <3>1 DEF Behind
    <3> QED BY <1>f, <3>2
  <2>7. cons.pc \in Reading \ {"gate"} => tail < t
    <3>1. SUFFICES ASSUME cons.pc \in Reading \ {"gate"} PROVE tail < t
      OBVIOUS
    <3>2. cons.t = tail
      BY <3>1 DEF Behind
    <3>3. CASE cons.pc \in {"pin", "take", "stamp", "lower", "cas", "keep", "free"}
      <4>1. slots[Idx(tail)].state \in {"COMMITTED", "PINNED"}
        BY <3>2, <3>3 DEF ViewInv
      <4>2. tail # t
        BY <2>1, <2>2, <4>1
      <4> QED BY <1>f, <2>6, <4>2
    <3>4. CASE cons.pc = "advance"
      <4>1. Low = tail + 1
        BY <3>4 DEF Low
      <4> QED BY <1>f, <2>6, <4>1
    <3> QED BY <3>1, <3>3, <3>4 DEF Reading
  <2> QED BY <1>l, <2>1, <2>2, <2>4, <2>5, <2>6, <2>7 DEF Behind
<1> QED BY <1>1, <1>2, <1>3, <1>4 DEF Produces

\* The consumer passes a slot that it has pinned or freed.
LEMMA BehindPasses ==
  ASSUME Typed, IsFiniteSet(leases), Behind, UNCHANGED <<head, leases, pr>>,
         NEW l \in Nat, NEW t \in Nat, Low' = l, tail' = t, tail <= t,
         \/ l <= Low
         \/ l = Low + 1 /\ Low < Top /\ slots'[Idx(Low)].state \in {"FREE", "PINNED"},
         cons'.pc \in Reading => cons'.t = t,
         cons'.pc \in Reading \ {"gate"} => t < Top,
         \A i \in 0 .. Cap - 1 : slots[i].state \in {"FREE", "PINNED"} =>
           slots'[i] = slots[i] \/ slots'[i].state = "FREE"
  PROVE  Behind'
<1>f. /\ Top \in Nat /\ Low \in Nat /\ tail \in Nat /\ pr.t \in Nat
      /\ \A c \in Nat : Idx(c) \in 0 .. Cap - 1
  BY TopFacts, Fields, Facts
<1>t. Top' = Top
  BY TopKept
<1>1. ASSUME NEW c \in Nat, c < l, Top <= c + Cap
      PROVE  slots'[Idx(c)].state \in {"FREE", "PINNED"}
  <2>1. CASE c < Low
    BY <1>1, <1>f, <2>1 DEF Behind
  <2>2. CASE ~ (c < Low)
    <3>1. c = Low
      BY <1>1, <1>f, <2>2
    <3>2. ~ (l <= Low)
      BY <1>1, <1>f, <3>1
    <3> QED BY <3>1, <3>2
  <2> QED BY <2>1, <2>2
<1>2. \A c \in Nat : Top <= c /\ c < Cap => slots'[Idx(c)].state = "FREE"
  BY <1>f DEF Behind
<1>3. l <= Top
  BY <1>f DEF Behind
<1>4. pr.pc = "floor" => pr.t <= t
  BY <1>f DEF Behind
<1> QED BY <1>1, <1>2, <1>3, <1>4, <1>t DEF Behind

\* A slot is read while its cursor is below what is reserved.
LEMMA ReadReserved ==
  ASSUME Typed, IsFiniteSet(leases), Behind, NEW c \in Nat, Low <= c + 1,
         slots[Idx(c)].state = "COMMITTED", c <= Low
  PROVE  c < Top
<1>1. Idx(c) \in 0 .. Cap - 1 /\ Top \in Nat /\ Low \in Nat
  BY Fields, TopFacts
<1>2. PICK d \in Nat : Low <= d /\ d < Top
  BY <1>1, InWindow
<1> QED BY <1>1, <1>2

LEMMA ReadingBehind ==
  ASSUME IInv, IsFiniteSet(leases), Behind, ConsumerStep \/ ConsDie
  PROVE  Behind'
<1>f. /\ Top \in Nat /\ Low \in Nat /\ tail \in Nat /\ cons.t \in Nat
      /\ Idx(cons.t) \in 0 .. Cap - 1 /\ cons \in ConsumerSet
      /\ slots \in [0 .. Cap - 1 -> SlotSet] /\ slots[Idx(cons.t)] \in SlotSet
  <2>1. cons.t \in Nat /\ Idx(cons.t) \in 0 .. Cap - 1
    BY Fields DEF IInv
  <2> QED BY <2>1, TopFacts, Fields, Facts DEF IInv
<1>y. Typed
  BY DEF IInv
<1>u. UNCHANGED <<head, leases, pr>>
  BY DEF ConsumerStep, RecvBegin, Gate, PinSlot, StampSlot, LoadFloor, LowerFloor, KeepPinned,
         TakeSlot, FreeTail, AdvanceTail, ConsOpen, ConsRescan, ConsDie
<1>e. \A c : RecvEnds(c) => cons'.pc = "idle"
  BY DEF RecvEnds, Consumer
\* A step that leaves the tail and does not take.
<1>s. ASSUME UNCHANGED tail,
             cons'.pc \in {"free", "advance"} => cons.pc \in {"free", "advance"},
             cons'.pc \in Reading => cons'.t = tail,
             cons'.pc \in Reading \ {"gate"} => tail < Top,
             \A i \in 0 .. Cap - 1 : slots[i].state \in {"FREE", "PINNED"} =>
               slots'[i] = slots[i] \/ slots'[i].state = "FREE"
      PROVE  Behind'
  <2>1. PICK l \in {tail, tail + 1} : l = Low' /\ l <= Low
    BY <1>f, <1>s DEF Low
  <2>2. l \in Nat
    BY <1>f, <2>1
  <2> QED BY <1>f, <1>s, <1>u, <1>y, <2>1, <2>2, BehindPasses
\* A slot that is PINNED, or being read, is passed.
<1>h. ASSUME UNCHANGED slots
      PROVE  \A i \in 0 .. Cap - 1 : slots[i].state \in {"FREE", "PINNED"} =>
               slots'[i] = slots[i] \/ slots'[i].state = "FREE"
  BY <1>h
<1>x. ASSUME NEW x, slots' = [slots EXCEPT ![Idx(cons.t)] = x],
             slots[Idx(cons.t)].state = "COMMITTED" \/ x.state = "FREE"
      PROVE  \A i \in 0 .. Cap - 1 : slots[i].state \in {"FREE", "PINNED"} =>
               slots'[i] = slots[i] \/ slots'[i].state = "FREE"
  BY <1>f, <1>x
<1>g. cons.pc \in Reading => cons.t = tail
  BY DEF Behind
<1>k. cons.pc \in Reading \ {"gate"} => tail < Top
  BY DEF Behind
<1>1. ASSUME NEW op \in {"view", "recv"}, RecvBegin(op) PROVE Behind'
  <2>1. cons'.pc = "gate" /\ cons'.t = tail /\ UNCHANGED <<tail, slots>>
    BY <1>1, <1>f DEF RecvBegin, ConsumerSet
  <2> QED BY <1>h, <1>s, <2>1
<1>2. CASE Gate
  <2>1. UNCHANGED <<tail, slots>> /\ cons.pc = "gate"
    BY <1>2 DEF Gate, ConsAt
  <2>2. CASE cons'.pc = "idle"
    BY <1>h, <1>s, <2>1, <2>2 DEF Reading
  <2>3. CASE ~ (cons'.pc = "idle")
    <3>1. /\ slots[Idx(cons.t)].state = "COMMITTED"
          /\ cons'.pc \in {"pin", "take"} /\ cons'.t = cons.t
      BY <1>2, <1>e, <1>f, <2>3 DEF Gate, Move, ConsumerSet
    <3>2. cons.t = tail /\ Low = tail
      BY <1>g, <2>1, <1>f DEF Low, Reading
    <3>3. tail < Top
      BY <1>f, <1>y, <3>1, <3>2, ReadReserved
    <3> QED BY <1>h, <1>s, <2>1, <3>1, <3>2, <3>3
  <2> QED BY <2>2, <2>3
<1>3. CASE PinSlot
  <2>1. slots[Idx(cons.t)].state = "COMMITTED" /\ cons.pc = "pin"
    BY <1>3 DEF PinSlot, ConsAt, IInv, ViewInv
  <2>2. cons'.pc = "stamp" /\ cons'.t = cons.t /\ UNCHANGED tail
    BY <1>3, <1>f DEF PinSlot, Move, ConsumerSet
  <2>3. \E x : slots' = [slots EXCEPT ![Idx(cons.t)] = x]
    BY <1>3 DEF PinSlot
  <2> QED BY <1>g, <1>k, <1>s, <1>x, <2>1, <2>2, <2>3 DEF Reading
<1>4. CASE StampSlot
  <2>1. slots[Idx(cons.t)].state = "PINNED" /\ cons.pc = "stamp"
    BY <1>4 DEF StampSlot, ConsAt, IInv, ViewInv
  <2>2. cons'.pc = "lower" /\ cons'.t = cons.t /\ UNCHANGED tail
    BY <1>4, <1>f DEF StampSlot, Move, ConsumerSet
  <2>3. slots' = [slots EXCEPT ![Idx(cons.t)] = [slots[Idx(cons.t)] EXCEPT !.owner = cons.inc]]
    BY <1>4 DEF StampSlot
  <2>4. Low' = Low
    BY <2>1, <2>2 DEF Low
  <2>5. \A i \in 0 .. Cap - 1 : slots'[i].state = slots[i].state
    BY <1>f, <2>3 DEF SlotSet
  <2>6. \A c \in Nat : Idx(c) \in 0 .. Cap - 1
    BY <1>y, Fields
  <2>7. Top' = Top
    BY <1>u, TopKept
  <2> QED BY <1>u, <2>1, <2>2, <2>4, <2>5, <2>6, <2>7 DEF Behind, Reading
<1>5. CASE LoadFloor \/ LowerFloor
  <2>1. /\ cons.pc \in {"lower", "cas"} /\ cons'.pc \in {"lower", "cas", "keep"}
        /\ cons'.t = cons.t /\ UNCHANGED <<slots, tail>>
    BY <1>5, <1>f DEF LoadFloor, LowerFloor, Move, TryAgain, ConsAt, ConsumerSet
  <2> QED BY <1>g, <1>h, <1>k, <1>s, <2>1 DEF Reading
<1>6. CASE KeepPinned
  <2>1. slots[Idx(cons.t)].state = "PINNED" /\ cons.pc = "keep" /\ UNCHANGED slots
    BY <1>6 DEF KeepPinned, ConsAt, IInv, ViewInv
  <2>2. cons'.pc = "idle" /\ tail' = cons.t + 1
    BY <1>6, <1>e DEF KeepPinned
  <2>3. cons.t = tail /\ tail < Top /\ Low = tail
    BY <1>f, <1>g, <1>k, <2>1 DEF Reading, Low
  <2>4. PICK l \in Nat : l = tail + 1
    BY <1>f
  <2>5. Low' = l /\ tail' = l
    BY <1>f, <2>2, <2>3, <2>4 DEF Low
  <2>6. slots'[Idx(Low)].state = "PINNED"
    BY <2>1, <2>3
  <2>7. tail <= l /\ l = Low + 1
    BY <1>f, <2>3, <2>4
  <2> QED BY <1>h, <1>u, <1>y, <2>1, <2>2, <2>3, <2>5, <2>6, <2>7, BehindPasses DEF Reading
<1>7. CASE TakeSlot
  <2>1. slots[Idx(cons.t)].state = "COMMITTED" /\ cons.pc = "take" /\ UNCHANGED tail
    BY <1>7 DEF TakeSlot, ConsAt, IInv, ViewInv
  <2>2. slots' = [slots EXCEPT ![Idx(cons.t)] = [slots[Idx(cons.t)] EXCEPT !.state = "PINNED"]]
    BY <1>7 DEF TakeSlot
  <2>3. \A i \in 0 .. Cap - 1 : slots[i].state \in {"FREE", "PINNED"} =>
          slots'[i] = slots[i] \/ slots'[i].state = "FREE"
    BY <1>x, <2>1, <2>2
  <2>4. CASE RecvEnds(cons)
    BY <1>e, <1>s, <2>1, <2>3, <2>4 DEF Reading
  <2>5. CASE cons' = [Adopted(cons.t) EXCEPT !.pc = "free"]
    <3>1. cons'.pc = "free" /\ cons'.t = cons.t
      <4>1. \A e : LET r == [[cons EXCEPT !.expected = e, !.resync = FALSE] EXCEPT !.pc = "free"]
                   IN  r.pc = "free" /\ r.t = cons.t
        BY <1>f DEF ConsumerSet
      <4> QED BY <2>5, <4>1 DEF Adopted
    <3>2. cons.t = tail /\ tail < Top /\ Low = tail
      BY <1>f, <1>g, <1>k, <2>1 DEF Reading, Low
    <3>3. PICK l \in Nat : l = tail + 1
      BY <1>f
    <3>4. Low' = l /\ tail' = tail
      BY <1>f, <2>1, <3>1, <3>3 DEF Low
    <3>5. slots'[Idx(Low)].state = "PINNED"
      BY <1>f, <2>2, <3>2 DEF SlotSet
    <3>6. l = Low + 1 /\ tail <= tail
      BY <1>f, <3>2, <3>3
    <3> QED BY <1>f, <1>u, <1>y, <2>3, <3>1, <3>2, <3>4, <3>5, <3>6, BehindPasses
  <2> QED BY <1>7, <2>4, <2>5 DEF TakeSlot
<1>8. CASE FreeTail
  <2>1. cons.pc = "free" /\ UNCHANGED tail
    BY <1>8 DEF FreeTail, ConsAt
  <2>2. cons'.pc = "advance" /\ cons'.t = cons.t
    BY <1>8, <1>f DEF FreeTail, Move, ConsumerSet
  <2>3. slots' = [slots EXCEPT ![Idx(cons.t)] = FreeSlot] /\ FreeSlot.state = "FREE"
    BY <1>8 DEF FreeTail, SetSlot, FreeSlot
  <2> QED BY <1>g, <1>k, <1>s, <1>x, <2>1, <2>2, <2>3 DEF Reading
<1>9. CASE AdvanceTail
  <2>1. cons.pc = "advance" /\ UNCHANGED slots /\ tail' = cons.t + 1 /\ cons'.pc = "idle"
    BY <1>9, <1>e DEF AdvanceTail, ConsAt
  <2>2. cons.t = tail
    BY <1>g, <2>1 DEF Reading
  <2>3. PICK l \in Nat : l = tail + 1
    BY <1>f
  <2>4. tail' = l /\ Low' = l /\ l <= Low /\ tail <= l
    BY <1>f, <2>1, <2>2, <2>3 DEF Low
  <2> QED BY <1>h, <1>u, <1>y, <2>1, <2>4, BehindPasses DEF Reading
<1>10. CASE ConsOpen
  <2>1. cons'.pc = "rescan" /\ UNCHANGED tail
    BY <1>10, <1>f DEF ConsOpen, ConsumerSet
  <2>2. \A i \in 0 .. Cap - 1 : slots'[i] = slots[i] \/ slots'[i].state = "FREE"
    BY <1>10, <1>f DEF ConsOpen, Reclaimed, FreeSlot
  <2> QED BY <1>s, <2>1, <2>2 DEF Reading
<1>11. CASE ConsRescan
  <2>1. cons'.pc = "idle" /\ UNCHANGED <<tail, slots>>
    BY <1>11, <1>e DEF ConsRescan
  <2> QED BY <1>h, <1>s, <2>1 DEF Reading
<1>12. CASE ConsDie
  <2>1. cons'.pc = "dead" /\ UNCHANGED <<tail, slots>>
    BY <1>12, <1>f DEF ConsDie, Consumer
  <2> QED BY <1>h, <1>s, <2>1 DEF Reading
<1> QED
  BY <1>1, <1>2, <1>3, <1>4, <1>5, <1>6, <1>7, <1>8, <1>9, <1>10, <1>11, <1>12 DEF ConsumerStep

\* A release and a cleanup free slots that are pinned.
LEMMA FreeingBehind ==
  ASSUME IInv, IsFiniteSet(leases), Behind, ReleaseStep \/ ReclaimStale
  PROVE  Behind'
<1>f. /\ slots \in [0 .. Cap - 1 -> SlotSet] /\ pr \in ProducerSet /\ Typed
      /\ \A c \in views : Idx(c) \in 0 .. Cap - 1
  BY Facts, Fields DEF IInv
<1>1. CASE ReleaseStep
  <2>1. UNCHANGED <<tail, cons, head, leases, pr>>
    BY <1>1 DEF ReleaseStep, Release, UnpinEntry, UnpinScan, UnpinRaise
  <2>2. \A i \in 0 .. Cap - 1 : slots'[i] = slots[i] \/ slots'[i].state = "FREE"
    <3>1. UNCHANGED slots \/ \E c \in views : slots' = [slots EXCEPT ![Idx(c)] = FreeSlot]
      BY <1>1 DEF ReleaseStep, Release, UnpinEntry, UnpinScan, UnpinRaise, SetSlot
    <3>2. FreeSlot.state = "FREE"
      BY DEF FreeSlot
    <3> QED BY <1>f, <3>1, <3>2
  <2>3. Top' = Top /\ (pr'.pc = "floor" => pr'.t <= tail)
    BY <2>1, TopKept DEF Behind
  <2> QED BY <1>f, <2>1, <2>2, <2>3, BehindKept
<1>2. CASE ReclaimStale
  <2>1. /\ UNCHANGED <<tail, cons, head, leases>>
        /\ pr.pc = "idle" /\ \E b : pr' = [pr EXCEPT !.bias = b]
    BY <1>2 DEF ReclaimStale, At
  <2>2. \A i \in 0 .. Cap - 1 : slots'[i] = slots[i] \/ slots'[i].state = "FREE"
    BY <1>2, <1>f DEF ReclaimStale, Reclaimed, FreeSlot
  <2>3. pr'.pc = "idle"
    BY <1>f, <2>1 DEF ProducerSet
  <2>4. Top' = Top
    BY <2>1, <2>3 DEF Tip, Top
  <2> QED BY <1>f, <2>1, <2>2, <2>3, <2>4, BehindKept
<1> QED BY <1>1, <1>2

\* What the producer is writing stays as it is when the consumer, a release or
\* a cleanup moves.
LEMMA WritingKept ==
  ASSUME IInv, ConsumerStep \/ ConsDie \/ ReleaseStep \/ ReclaimStale
  PROVE  \A i \in 0 .. Cap - 1 : slots[i].state = "WRITING" => slots'[i] = slots[i]
<1>f. /\ slots \in [0 .. Cap - 1 -> SlotSet] /\ \A c \in views : Idx(c) \in 0 .. Cap - 1
      /\ Idx(cons.t) \in 0 .. Cap - 1
  <2>1. cons.t \in Nat
    BY Fields DEF IInv
  <2> QED BY <2>1, Facts, Fields DEF IInv
<1>1. CASE ReleaseStep
  <2>1. UNCHANGED slots \/ \E c \in views : slots' = [slots EXCEPT ![Idx(c)] = FreeSlot]
    BY <1>1 DEF ReleaseStep, Release, UnpinEntry, UnpinScan, UnpinRaise, SetSlot
  <2>2. \A c \in views : slots[Idx(c)].state = "PINNED"
    BY DEF IInv, ViewInv
  <2> QED BY <1>f, <2>1, <2>2
<1>2. CASE ReclaimStale \/ ConsOpen
  <2>1. PICK dead : slots' = Reclaimed(dead) /\ dead \subseteq {i \in 0 .. Cap - 1 : DeadPin(i)}
    <3>1. CASE ReclaimStale
      BY <3>1 DEF ReclaimStale
    <3>2. CASE ConsOpen
      BY <3>2 DEF ConsOpen
    <3> QED BY <1>2, <3>1, <3>2
  <2> QED BY <2>1 DEF Reclaimed, DeadPin
<1>3. CASE PinSlot \/ StampSlot \/ TakeSlot \/ FreeTail
  <2>1. slots[Idx(cons.t)].state \in {"COMMITTED", "PINNED"}
    BY <1>3 DEF PinSlot, StampSlot, TakeSlot, FreeTail, ConsAt, IInv, ViewInv
  <2>2. \E x : slots' = [slots EXCEPT ![Idx(cons.t)] = x]
    BY <1>3 DEF PinSlot, StampSlot, TakeSlot, FreeTail, SetSlot
  <2> QED BY <1>f, <2>1, <2>2
<1>4. CASE UNCHANGED slots
  BY <1>4
<1> QED
  BY <1>1, <1>2, <1>3, <1>4
  DEF ConsumerStep, RecvBegin, Gate, LoadFloor, LowerFloor, KeepPinned, AdvanceTail, ConsRescan,
      ConsDie

Ring == IInv /\ Placed /\ Numbered /\ Behind

LEMMA RingInit == Init => Ring
<1> SUFFICES ASSUME Init PROVE Ring
  OBVIOUS
<1>1. IInv
  BY TypedInit, HeldInit DEF IInv
<1>2. /\ pr = Producer /\ leases = {} /\ head = 0 /\ tail = 0 /\ cons.pc = "idle"
      /\ pr.pc = "idle" /\ pr.idx = 0 /\ pr.id = 0 /\ pr.next = 0
  BY DEF Init, Producer, Consumer
<1>3. IsFiniteSet(leases) /\ Cardinality(leases) = 0
  BY <1>2, FS_EmptySet
<1>4. Tip = 0 /\ Top = 0 /\ Begun = 0 /\ Low = 0
  BY <1>2, <1>3 DEF Tip, Top, Begun, Low
<1>5. Idx(0) = 0
  <2>1. Cap \in Nat \ {0} /\ 0 \in 0 .. Cap - 1 /\ 0 = Cap * 0 + 0
    BY CapAssumption
  <2> QED BY <2>1, SlotOf DEF Idx
<1>6. scenario.sends \in Nat
  BY <1>1, Facts, ScenariosAssumption DEF IInv
<1>7. Placed
  BY <1>2, <1>3, <1>4, <1>5, <1>6 DEF Placed
<1>8. \A c \in Nat : slots[Idx(c)].state = "FREE"
  <2>1. \A c \in Nat : Idx(c) \in 0 .. Cap - 1
    BY IdxIn
  <2> QED BY <2>1 DEF Init, FreeSlot
<1>9. Behind
  BY <1>2, <1>4, <1>8 DEF Behind, Reading
<1> QED BY <1>1, <1>2, <1>7, <1>9 DEF Ring, Numbered, At

\* Every step of the producer is one of the kinds.
LEMMA Kinds ==
  ASSUME Ring,
         \/ \E op \in {"send", "alloc"} : GuardLoad(op)
         \/ ProducerStep \/ LeaseEnds
  PROVE  /\ Produces /\ Placed' /\ Numbered'
         /\ pr'.pc = "floor" => pr'.t <= tail
<1>1. Typed /\ LeaseInv /\ Placed /\ Numbered /\ pr \in ProducerSet /\ tail \in Nat
  BY Facts DEF Ring, IInv
<1>2. Produces /\ Placed' /\ Numbered'
  BY <1>1, GuardMoves, SlotMoves, LeaseMoves DEF ProducerStep
<1>3. pr'.pc = "floor" => pr'.t <= tail
  <2>1. CASE \E op \in {"send", "alloc"} : GuardLoad(op)
    BY <1>1, <2>1 DEF GuardLoad, ProducerSet
  <2>2. CASE ProducerStep
    <3>1. pr'.pc # "floor"
      BY <1>1, <2>2
      DEF ProducerStep, GuardFloor, ClaimSlot, MarkSlot, CommitSlot, PublishHead, LeaseSlot, Goto,
          ProducerSet
    <3> QED BY <3>1
  <2>3. CASE LeaseEnds
    <3>1. pr'.pc # "floor"
      BY <1>1, <2>3 DEF LeaseEnds, Publish, Abort, ProducerSet, At
    <3> QED BY <3>1
  <2> QED BY <2>1, <2>2, <2>3
<1> QED BY <1>2, <1>3

\* The other steps leave what is reserved alone.
LEMMA Others ==
  ASSUME Ring, ConsumerStep \/ ConsDie \/ ReleaseStep \/ ReclaimStale
  PROVE  /\ Placed' /\ Numbered' /\ Top' = Top /\ Tip' = Tip /\ Nxt' = Nxt
         /\ UNCHANGED <<scenario, head, leases, sent>>
<1>f. pr \in ProducerSet /\ pr.idx \in 0 .. Cap - 1 /\ \A l \in leases : l.idx \in 0 .. Cap - 1
  BY Facts, Fields DEF Ring, IInv
<1>w. \A i \in 0 .. Cap - 1 : slots[i].state = "WRITING" => slots'[i] = slots[i]
  BY WritingKept DEF Ring
<1>u. UNCHANGED <<scenario, head, leases, sent>>
  BY DEF ConsumerStep, RecvBegin, Gate, PinSlot, StampSlot, LoadFloor, LowerFloor, KeepPinned,
         TakeSlot, FreeTail, AdvanceTail, ConsOpen, ConsRescan, ConsDie,
         ReleaseStep, Release, UnpinEntry, UnpinScan, UnpinRaise, ReclaimStale
<1>p. pr'.pc = pr.pc /\ pr'.idx = pr.idx /\ pr'.next = pr.next /\ pr'.id = pr.id
  <2>1. CASE ReclaimStale
    <3>1. \E b : pr' = [pr EXCEPT !.bias = b]
      BY <2>1 DEF ReclaimStale
    <3> QED BY <1>f, <3>1 DEF ProducerSet
  <2>2. CASE UNCHANGED pr
    BY <2>2
  <2> QED
    BY <2>1, <2>2
    DEF ConsumerStep, RecvBegin, Gate, PinSlot, StampSlot, LoadFloor, LowerFloor, KeepPinned,
        TakeSlot, FreeTail, AdvanceTail, ConsOpen, ConsRescan, ConsDie,
        ReleaseStep, Release, UnpinEntry, UnpinScan, UnpinRaise
<1>1. Tip' = Tip /\ Top' = Top /\ Nxt' = Nxt /\ Begun' = Begun
  BY <1>p, <1>u DEF Tip, Top, Nxt, Begun
<1>2. Placed'
  BY <1>1, <1>p, <1>u DEF Placed, Ring
<1>3. \A l \in leases' : slots'[l.idx].seq = l.seq
  BY <1>f, <1>u, <1>w DEF Numbered, LeaseInv, Ring, IInv
<1>4. At("commit")' => slots'[pr'.idx].seq = pr'.next - 1 /\ slots'[pr'.idx].msg = pr'.id
  <2>1. At("commit")' <=> At("commit")
    BY <1>p DEF At
  <2>2. At("commit") => slots'[pr.idx] = slots[pr.idx]
    BY <1>f, <1>w DEF LeaseInv, Ring, IInv
  <2> QED BY <1>p, <2>1, <2>2 DEF Numbered, Ring
<1> QED BY <1>1, <1>2, <1>3, <1>4, <1>u DEF Numbered

LEMMA RingNext == Ring /\ [Next]_vars => Ring'
<1> SUFFICES ASSUME Ring, [Next]_vars PROVE Ring'
  OBVIOUS
<1>i. IInv'
  BY HeldNext DEF Ring
<1>f. Typed /\ IsFiniteSet(leases) /\ Behind /\ LeaseInv /\ ViewInv /\ IInv /\ Top \in Nat
  BY TopFacts DEF Ring, IInv, Placed
<1>1. CASE (\E op \in {"send", "alloc"} : GuardLoad(op)) \/ ProducerStep \/ LeaseEnds
  <2>1. Produces /\ Placed' /\ Numbered' /\ (pr'.pc = "floor" => pr'.t <= tail)
    BY <1>1, Kinds
  <2>2. Top' \in Nat
    <3>1. Top' = Top \/ Top' = Top + 1 \/ (Top >= 1 /\ Top' = Top - 1)
      BY <2>1 DEF Produces, Rests, Reserves, Fills, Withdraws
    <3> QED BY <1>f, <3>1
  <2>3. Behind'
    BY <1>f, <2>1, <2>2, ProducesBehind
  <2> QED BY <1>i, <2>1, <2>3 DEF Ring
<1>2. CASE ConsumerStep \/ ConsDie \/ ReleaseStep \/ ReclaimStale
  BY <1>2, <1>f, <1>i, Others, ReadingBehind, FreeingBehind DEF Ring
<1>3. CASE UNCHANGED vars
  <2>1. UNCHANGED <<slots, pr, leases, head, tail, cons, scenario>>
    BY <1>3 DEF vars
  <2>2. Tip' = Tip /\ Top' = Top /\ Begun' = Begun /\ Low' = Low
    BY <2>1 DEF Tip, Top, Begun, Low
  <2>3. Placed'
    BY <2>1, <2>2 DEF Ring, Placed
  <2>4. Numbered'
    BY <2>1 DEF Ring, Numbered, At
  <2>5. Behind'
    BY <2>1, <2>2 DEF Ring, Behind
  <2> QED BY <1>i, <2>3, <2>4, <2>5 DEF Ring
<1> QED BY <1>1, <1>2, <1>3 DEF Next

-----------------------------------------------------------------------------
(* The pin floor                                                           *)

\* No pin behind the consumer is below the floor.
PinsSeen ==
  \A c \in Nat :
    /\ c < Low /\ Top <= c + Cap /\ slots[Idx(c)].state = "PINNED"
    /\ ~ (cons.pc = "free" /\ c = cons.t)
    => floor <= c

\* A single thread loses no exchange of the floor: nobody moves it meanwhile.
\* What a release under way knows: nobody pins meanwhile, the floor is its own
\* or there was none, and the floor it found is below every pin left.
Unpinning ==
  /\ rel.pc # "none" => cons.pc = "idle" /\ slots[Idx(rel.c)].state # "PINNED"
  /\ rel.pc \in {"scan", "raise"} => floor = rel.entry /\ rel.entry \in {rel.c, None}
  /\ rel.pc = "raise" =>
       \A c \in Nat : c < tail /\ tail <= c + Cap /\ slots[Idx(c)].state = "PINNED" /\ floor <= c
                      => rel.next <= c

Floored ==
  ~scenario.threads =>
    /\ PinsSeen /\ Unpinning
    /\ cons.pc = "cas" => cons.floor = floor /\ (floor = None \/ cons.t < floor)
    /\ cons.pc = "keep" => floor <= cons.t

LEMMA MinLeast ==
  ASSUME NEW T, T \subseteq Nat, NEW x \in T
  PROVE  Min(T) \in T /\ Min(T) <= x
<1> DEFINE R == OpToRel(<, Nat)
<1>1. IsWellFoundedOn(R, Nat)
  BY NatLessThanWellFounded
<1>2. \A y, z \in Nat : <<y, z>> \in R <=> y < z
  BY DEF OpToRel
<1> HIDE DEF R
<1>3. PICK m \in T : \A y \in T : ~ (<<y, m>> \in R)
  BY <1>1, WFMin
<1>4. \A y \in T : m <= y
  <2>1. SUFFICES ASSUME NEW y \in T PROVE m <= y
    OBVIOUS
  <2>2. m \in Nat /\ y \in Nat /\ ~ (<<y, m>> \in R)
    BY <1>3
  <2>3. ~ (y < m)
    BY <1>2, <2>2
  <2> QED BY <2>2, <2>3
<1> QED BY <1>3, <1>4 DEF Min

\* The floor a scan finds is no higher than any pin in its range.
LEMMA LowestPinLeast ==
  ASSUME NEW s, NEW from \in Nat, NEW to \in Nat, NEW c \in Nat, from <= c, c < to,
         s[Idx(c)].state = "PINNED"
  PROVE  LowestPin(s, from, to) <= c
<1> DEFINE pins == {d \in from .. to - 1 : s[Idx(d)].state = "PINNED"}
<1>1. pins \subseteq Nat /\ c \in pins
  OBVIOUS
<1>2. Min(pins) <= c
  <2> HIDE DEF pins
  <2> QED BY <1>1, MinLeast
<1> QED BY <1>1, <1>2 DEF LowestPin

\* ... and one of them, when there is one.
LEMMA LowestPinFound ==
  ASSUME NEW s, NEW from \in Nat, NEW to \in Nat, LowestPin(s, from, to) # None
  PROVE  /\ from <= LowestPin(s, from, to) /\ LowestPin(s, from, to) < to
         /\ s[Idx(LowestPin(s, from, to))].state = "PINNED"
<1> DEFINE pins == {d \in from .. to - 1 : s[Idx(d)].state = "PINNED"}
<1>1. pins \subseteq Nat /\ LowestPin(s, from, to) = Min(pins) /\ pins # {}
  BY DEF LowestPin
<1>2. Min(pins) \in pins
  <2> HIDE DEF pins
  <2> QED BY <1>1, MinIn
<1> QED BY <1>1, <1>2

LEMMA WindowFrom ==
  ASSUME NEW t \in Nat, NEW c \in Nat
  PROVE  t <= c + Cap <=> WindowStart(t) <= c
  BY CapAssumption DEF WindowStart

\* Cursor values stay below the value that stands for no floor.
LEMMA BelowNone == ASSUME Ring PROVE Top < None /\ Top \in Nat
<1>1. scenario.sends \in Nat /\ scenario.sends < None
  BY Facts, ScenariosAssumption, NoneAssumption DEF Ring, IInv
<1>2. Top \in Nat /\ Begun \in Nat
  BY TopFacts DEF Ring, IInv, Placed
<1> QED BY <1>1, <1>2 DEF Ring, Placed, None

LEMMA FlooredProduces ==
  ASSUME Ring, Floored, Produces, Top' \in Nat
  PROVE  Floored'
<1> SUFFICES ASSUME ~scenario.threads PROVE Floored'
  BY DEF Floored, Produces
<1>f. /\ Top \in Nat /\ Low \in Nat /\ slots \in [0 .. Cap - 1 -> SlotSet]
      /\ \A c \in Nat : Idx(c) \in 0 .. Cap - 1
      /\ rel.c \in Nat /\ Cap \in Nat
  BY TopFacts, Fields, Facts DEF Ring, IInv, Placed
<1>u. UNCHANGED <<scenario, tail, floor, cons, rel>> /\ Low' = Low
  BY DEF Produces, Low
<1>1. \A i \in 0 .. Cap - 1 : slots'[i].state = "PINNED" => slots[i].state = "PINNED"
  <2>1. CASE Rests
    BY <2>1 DEF Rests
  <2>2. CASE Reserves
    BY <1>f, <2>2 DEF Reserves
  <2>3. CASE Fills
    <3>1. PICK i \in 0 .. Cap - 1, m \in Nat :
            slots' = [slots EXCEPT ![i] = [slots[i] EXCEPT !.state = "COMMITTED", !.msg = m]]
      BY <2>3 DEF Fills
    <3>2. [slots[i] EXCEPT !.state = "COMMITTED", !.msg = m].state = "COMMITTED"
      BY <1>f DEF SlotSet
    <3> QED BY <1>f, <3>1, <3>2
  <2>4. CASE Withdraws
    BY <1>f, <2>4 DEF Withdraws, FreeSlot
  <2> QED BY <2>1, <2>2, <2>3, <2>4 DEF Produces
<1>2. PICK t \in Nat : t = Top'
  OBVIOUS
<1>3. ASSUME NEW c \in Nat, c < Low, t <= c + Cap, slots'[Idx(c)].state = "PINNED",
             ~ (cons.pc = "free" /\ c = cons.t)
      PROVE  floor <= c
  <2>1. slots[Idx(c)].state = "PINNED"
    BY <1>1, <1>3, <1>f
  <2>2. CASE Top <= c + Cap
    BY <1>3, <1>u, <2>1, <2>2 DEF Floored, PinsSeen
  <2>3. CASE ~ (Top <= c + Cap)
    <3>1. Withdraws
      <4>1. Rests \/ Reserves \/ Fills => t = Top \/ t = Top + 1
        BY <1>2 DEF Rests, Reserves, Fills
      <4>2. t <= c + Cap /\ Top \in Nat /\ Cap \in Nat
        BY <1>3, <1>f
      <4>3. ~ (t = Top) /\ ~ (t = Top + 1)
        BY <2>3, <4>2
      <4> QED BY <4>1, <4>3 DEF Produces
    <3>2. /\ slots' = [slots EXCEPT ![Idx(Top - 1)] = FreeSlot] /\ t = Top - 1 /\ Top >= 1
      BY <1>2, <3>1 DEF Withdraws
    <3>3. Top - 1 = c + Cap
      BY <1>3, <1>f, <2>3, <3>2
    <3>4. Idx(Top - 1) = Idx(c)
      BY <3>3, SameSlot
    <3>5. slots'[Idx(c)].state = "FREE"
      BY <1>f, <3>2, <3>4 DEF FreeSlot
    <3> QED BY <1>3, <3>5
  <2> QED BY <2>2, <2>3
<1>4. PinsSeen'
  BY <1>2, <1>3, <1>u DEF PinsSeen
<1>5. Unpinning'
  BY <1>1, <1>f, <1>u DEF Floored, Unpinning
<1> QED BY <1>4, <1>5, <1>u DEF Floored

\* A step that pins nothing behind the consumer and does not raise the floor.
LEMMA SeenKept ==
  ASSUME Ring, PinsSeen, Top' = Top, NEW l \in Nat, Low' = l, NEW g \in Nat, floor' = g,
         g <= floor,
         \A c \in Nat :
           c < l /\ Top <= c + Cap /\ slots'[Idx(c)].state = "PINNED"
                 /\ ~ (cons'.pc = "free" /\ c = cons'.t)
           => g <= c \/ (/\ c < Low /\ slots[Idx(c)].state = "PINNED"
                         /\ ~ (cons.pc = "free" /\ c = cons.t))
  PROVE  PinsSeen'
<1>1. floor \in Nat
  BY Facts DEF Ring, IInv
<1>2. ASSUME NEW c \in Nat, c < l, Top <= c + Cap, slots'[Idx(c)].state = "PINNED",
             ~ (cons'.pc = "free" /\ c = cons'.t)
      PROVE  g <= c
  <2>1. CASE /\ c < Low /\ slots[Idx(c)].state = "PINNED"
             /\ ~ (cons.pc = "free" /\ c = cons.t)
    <3>1. floor <= c
      BY <1>2, <2>1 DEF PinsSeen
    <3> QED BY <1>1, <3>1
  <2> QED BY <1>2, <2>1
<1> QED BY <1>2 DEF PinsSeen

LEMMA FlooredReading ==
  ASSUME Ring, Floored, ConsumerStep \/ ConsDie
  PROVE  Floored'
<1> SUFFICES ASSUME ~scenario.threads, PinsSeen, Unpinning,
                    cons.pc = "cas" => cons.floor = floor /\ (floor = None \/ cons.t < floor),
                    cons.pc = "keep" => floor <= cons.t
             PROVE  Floored'
  <2>1. scenario' = scenario
    BY Others
  <2> QED BY <2>1 DEF Floored
<1>f. /\ Top \in Nat /\ Low \in Nat /\ tail \in Nat /\ floor \in Nat /\ cons.t \in Nat
      /\ cons.floor \in Nat /\ Cap \in Nat \ {0}
      /\ Idx(cons.t) \in 0 .. Cap - 1 /\ cons \in ConsumerSet
      /\ slots \in [0 .. Cap - 1 -> SlotSet] /\ \A c \in Nat : Idx(c) \in 0 .. Cap - 1
  <2>1. cons.t \in Nat /\ Idx(cons.t) \in 0 .. Cap - 1
    BY Fields DEF Ring, IInv
  <2>2. cons.floor \in Nat
    BY Facts DEF Ring, IInv, ConsumerSet
  <2> QED BY <2>1, <2>2, TopFacts, Fields, Facts DEF Ring, IInv, Placed
<1>z. tail \in Nat
  BY <1>f
<1>t. Top' = Top /\ scenario' = scenario
  BY Others
<1>n. tail <= Low /\ Low <= Top /\ Top < None
  BY Fields, BelowNone DEF Ring, IInv, Behind
<1>e. \A c : RecvEnds(c) => cons'.pc = "idle"
  BY DEF RecvEnds, Consumer
<1>g. /\ cons.pc \in Reading => cons.t = tail
      /\ cons.pc \in Reading \ {"gate"} => tail < Top
  BY DEF Ring, Behind
\* A slot being read is not one behind.
<1>b. \A c \in Nat : c < Low /\ Top <= c + Cap => slots[Idx(c)].state # "COMMITTED"
  BY DEF Ring, Behind
\* No release is under way while a receive is.
<1>r. ASSUME rel' = rel, cons.pc # "idle" PROVE Unpinning'
  BY <1>r DEF Unpinning
<1>q. ASSUME rel' = NoRelease PROVE Unpinning'
  BY <1>q DEF Unpinning, NoRelease
<1>s. ASSUME NEW l \in {tail, tail + 1}, Low' = l, floor' = floor,
             \A c \in Nat :
               c < l /\ Top <= c + Cap /\ slots'[Idx(c)].state = "PINNED"
                     /\ ~ (cons'.pc = "free" /\ c = cons'.t)
               => floor <= c \/ (/\ c < Low /\ slots[Idx(c)].state = "PINNED"
                                 /\ ~ (cons.pc = "free" /\ c = cons.t))
      PROVE  PinsSeen'
  <2>1. l \in Nat
    BY <1>z
  <2>2. PICK g \in Nat : g = floor
    BY <1>f
  <2>3. g <= floor /\ floor' = g
    BY <1>s, <2>2
  <2>4. \A c \in Nat :
          c < l /\ Top <= c + Cap /\ slots'[Idx(c)].state = "PINNED"
                /\ ~ (cons'.pc = "free" /\ c = cons'.t)
          => g <= c \/ (/\ c < Low /\ slots[Idx(c)].state = "PINNED"
                        /\ ~ (cons.pc = "free" /\ c = cons.t))
    BY <1>s, <2>2
  <2> QED BY <1>s, <1>t, <2>1, <2>3, <2>4, SeenKept
<1>1. ASSUME NEW op \in {"view", "recv"}, RecvBegin(op) PROVE Floored'
  <2>1. /\ cons.pc = "idle" /\ cons'.pc = "gate" /\ UNCHANGED <<tail, floor, slots, rel>>
        /\ rel.pc = "none"
    BY <1>1, <1>f DEF RecvBegin, ConsAt, ConsumerSet
  <2>2. Low' = tail /\ Low = tail
    BY <1>z, <2>1 DEF Low
  <2>3. PinsSeen'
    BY <1>s, <1>f, <2>1, <2>2
  <2>4. Unpinning'
    BY <2>1 DEF Unpinning
  <2> QED BY <2>1, <2>3, <2>4 DEF Floored
<1>2. CASE Gate
  <2>1. cons.pc = "gate" /\ UNCHANGED <<tail, floor, slots, rel>>
    BY <1>2 DEF Gate, ConsAt
  <2>2. cons'.pc \in {"idle", "pin", "take"}
    BY <1>2, <1>e, <1>f DEF Gate, Move, ConsumerSet
  <2>3. Low' = tail /\ Low = tail
    BY <1>z, <2>1, <2>2 DEF Low
  <2>4. PinsSeen'
    BY <1>s, <1>f, <2>1, <2>2, <2>3
  <2> QED BY <1>r, <2>1, <2>2, <2>4 DEF Floored
<1>3. CASE PinSlot
  <2>1. slots[Idx(cons.t)].state = "COMMITTED" /\ cons.pc = "pin"
    BY <1>3 DEF PinSlot, ConsAt, Ring, IInv, ViewInv
  <2>2. cons'.pc = "stamp" /\ UNCHANGED <<tail, floor, rel>>
    BY <1>3, <1>f DEF PinSlot, Move, ConsumerSet
  <2>3. \E x : slots' = [slots EXCEPT ![Idx(cons.t)] = x]
    BY <1>3 DEF PinSlot
  <2>4. Low' = tail /\ Low = tail
    BY <1>f, <2>1, <2>2 DEF Low
  <2>5. \A c \in Nat : c < tail /\ Top <= c + Cap => slots'[Idx(c)] = slots[Idx(c)]
    BY <1>b, <1>f, <2>1, <2>3, <2>4
  <2>6. PinsSeen'
    BY <1>s, <1>f, <2>1, <2>2, <2>4, <2>5
  <2> QED BY <1>r, <2>1, <2>2, <2>6 DEF Floored
<1>4. CASE StampSlot
  <2>1. cons.pc = "stamp" /\ cons'.pc = "lower" /\ UNCHANGED <<tail, floor, rel>>
    BY <1>4, <1>f DEF StampSlot, Move, ConsAt, ConsumerSet
  <2>2. slots' = [slots EXCEPT ![Idx(cons.t)] = [slots[Idx(cons.t)] EXCEPT !.owner = cons.inc]]
    BY <1>4 DEF StampSlot
  <2>3. \A i \in 0 .. Cap - 1 : slots'[i].state = slots[i].state
    BY <1>f, <2>2 DEF SlotSet
  <2>4. Low' = tail /\ Low = tail
    BY <1>z, <2>1 DEF Low
  <2>5. PinsSeen'
    BY <1>s, <1>f, <2>1, <2>3, <2>4
  <2> QED BY <1>r, <2>1, <2>5 DEF Floored
<1>5. CASE LoadFloor
  <2>1. cons.pc = "lower" /\ UNCHANGED <<tail, floor, rel, slots>>
    BY <1>5 DEF LoadFloor, ConsAt
  <2>2. /\ cons'.floor = floor /\ cons'.t = cons.t
        /\ cons'.pc = IF LowEnough(floor, cons.t) THEN "keep" ELSE "cas"
    BY <1>5, <1>f DEF LoadFloor, ConsumerSet
  <2>3. Low' = tail /\ Low = tail
    BY <1>z, <2>1, <2>2 DEF Low
  <2>4. PinsSeen'
    BY <1>s, <1>f, <2>1, <2>2, <2>3
  <2>5. cons'.pc = "cas" => cons'.floor = floor' /\ (floor' = None \/ cons'.t < floor')
    <3>1. ~ LowEnough(floor, cons.t) => floor = None \/ cons.t < floor
      <4>1. PICK g \in Nat, t \in Nat : g = floor /\ t = cons.t
        BY <1>f
      <4>2. ~ LowEnough(g, t) => g = None \/ t < g
        BY DEF LowEnough
      <4> QED BY <4>1, <4>2
    <3> QED BY <2>1, <2>2, <3>1
  <2>6. cons'.pc = "keep" => floor <= cons'.t
    BY <2>2 DEF LowEnough
  <2> QED BY <1>r, <2>1, <2>4, <2>5, <2>6 DEF Floored
<1>6. CASE LowerFloor
  <2>1. cons.pc = "cas" /\ UNCHANGED <<tail, rel, slots>>
    BY <1>6 DEF LowerFloor, ConsAt
  <2>2. /\ cons'.t = cons.t
        /\ floor = cons.floor /\ floor' = cons.t /\ cons'.pc = "keep"
    BY <1>6, <1>f, <2>1 DEF LowerFloor, Move, ConsumerSet
  <2>3. Low' = tail /\ Low = tail /\ cons.t = tail /\ tail < Top
    <3>1. Low = tail /\ cons.t = tail /\ tail < Top
      BY <1>f, <1>g, <2>1 DEF Low, Reading
    <3>2. cons'.pc = "keep" /\ tail' = tail
      BY <2>1, <2>2
    <3>3. Low' = tail
      BY <1>z, <3>2 DEF Low
    <3> QED BY <3>1, <3>3
  <2>4. PICK g \in Nat : g = floor' /\ g <= floor
    <3>1. cons.t < None
      BY <1>f, <1>n, <2>3 DEF None
    <3>2. CASE floor = cons.floor /\ floor' = cons.t
      <4>1. floor = None \/ cons.t < floor
        BY <2>1, <3>2
      <4>2. cons.t \in Nat /\ floor \in Nat
        BY <1>f
      <4>3. cons.t <= floor
        BY <3>1, <4>1, <4>2 DEF None
      <4> QED BY <3>2, <4>2, <4>3
    <3>3. CASE floor' = floor
      BY <1>f, <3>3
    <3> QED BY <2>2, <3>2, <3>3
  <2>5. PinsSeen'
    BY <1>f, <1>t, <2>1, <2>2, <2>3, <2>4, SeenKept
  <2>6. cons'.pc = "keep" => floor' <= cons'.t
    BY <1>f, <2>2
  <2> QED BY <1>r, <2>1, <2>2, <2>5, <2>6 DEF Floored
<1>7. CASE KeepPinned
  <2>1. cons.pc = "keep" /\ cons'.pc = "idle" /\ UNCHANGED <<floor, rel, slots>>
        /\ tail' = cons.t + 1
    BY <1>7, <1>e DEF KeepPinned, ConsAt
  <2>2. cons.t = tail /\ Low = tail
    BY <1>f, <1>g, <2>1 DEF Low, Reading
  <2>3. Low' = tail + 1
    BY <1>f, <2>1, <2>2 DEF Low
  <2>4. \A c \in Nat : c < tail + 1 => c < tail \/ floor <= c
    BY <1>f, <2>1, <2>2
  <2>5. PinsSeen'
    BY <1>s, <1>f, <2>1, <2>2, <2>3, <2>4
  <2> QED BY <1>r, <2>1, <2>5 DEF Floored
<1>8. CASE TakeSlot
  <2>1. slots[Idx(cons.t)].state = "COMMITTED" /\ cons.pc = "take" /\ UNCHANGED <<tail, floor, rel>>
    BY <1>8 DEF TakeSlot, ConsAt, Ring, IInv, ViewInv
  <2>2. \E x : slots' = [slots EXCEPT ![Idx(cons.t)] = x]
    BY <1>8 DEF TakeSlot
  <2>3. cons.t = tail /\ Low = tail
    BY <1>f, <1>g, <2>1 DEF Low, Reading
  <2>4. \A c \in Nat : c < tail /\ Top <= c + Cap => slots'[Idx(c)] = slots[Idx(c)]
    BY <1>b, <1>f, <2>1, <2>2, <2>3
  <2>5. cons'.pc = "idle" \/ (cons'.pc = "free" /\ cons'.t = cons.t)
    <3>1. \A e : LET r == [[cons EXCEPT !.expected = e, !.resync = FALSE] EXCEPT !.pc = "free"]
                 IN  r.pc = "free" /\ r.t = cons.t
      BY <1>f DEF ConsumerSet
    <3>2. CASE cons' = [Adopted(cons.t) EXCEPT !.pc = "free"]
      BY <3>1, <3>2 DEF Adopted
    <3> QED BY <1>8, <1>e, <3>2 DEF TakeSlot
  <2>6. CASE cons'.pc = "idle"
    <3>1. Low' = tail
      BY <1>f, <2>1, <2>6 DEF Low
    <3>2. PinsSeen'
      BY <1>s, <1>f, <2>1, <2>3, <2>4, <3>1
    <3> QED BY <1>r, <2>1, <2>6, <3>2 DEF Floored
  <2>7. CASE cons'.pc = "free" /\ cons'.t = cons.t
    <3>1. Low' = tail + 1
      BY <1>f, <2>1, <2>7 DEF Low
    <3>2. \A c \in Nat : c < tail + 1 /\ ~ (cons'.pc = "free" /\ c = cons'.t) => c < tail
      BY <1>f, <2>3, <2>7
    <3>3. PinsSeen'
      BY <1>s, <1>f, <2>1, <2>3, <2>4, <3>1, <3>2
    <3> QED BY <1>r, <2>1, <2>7, <3>3 DEF Floored
  <2> QED BY <2>5, <2>6, <2>7
<1>9. CASE FreeTail
  <2>1. cons.pc = "free" /\ cons'.pc = "advance" /\ UNCHANGED <<tail, floor, rel>>
    BY <1>9, <1>f DEF FreeTail, Move, ConsAt, ConsumerSet
  <2>2. slots' = [slots EXCEPT ![Idx(cons.t)] = FreeSlot] /\ FreeSlot.state = "FREE"
    BY <1>9 DEF FreeTail, SetSlot, FreeSlot
  <2>3. Low' = tail + 1 /\ Low = tail + 1
    BY <1>z, <2>1 DEF Low
  <2>4. \A c \in Nat : slots'[Idx(c)].state = "PINNED" =>
          c # cons.t /\ slots[Idx(c)].state = "PINNED"
    BY <1>f, <2>2
  <2>5. PinsSeen'
    BY <1>s, <1>f, <2>1, <2>3, <2>4
  <2> QED BY <1>r, <2>1, <2>5 DEF Floored
<1>10. CASE AdvanceTail
  <2>1. cons.pc = "advance" /\ cons'.pc = "idle" /\ UNCHANGED <<floor, rel, slots>>
        /\ tail' = cons.t + 1
    BY <1>10, <1>e DEF AdvanceTail, ConsAt
  <2>2. cons.t = tail /\ Low = tail + 1
    BY <1>f, <1>g, <2>1 DEF Low, Reading
  <2>3. Low' = tail + 1
    BY <1>f, <2>1, <2>2 DEF Low
  <2>4. PinsSeen'
    BY <1>s, <1>f, <2>1, <2>2, <2>3
  <2> QED BY <1>r, <2>1, <2>4 DEF Floored
<1>11. CASE ConsOpen
  <2>1. cons.pc = "dead" /\ cons'.pc = "rescan" /\ UNCHANGED <<tail, floor, rel>>
    BY <1>11, <1>f DEF ConsOpen, ConsAt, ConsumerSet
  <2>2. \A i \in 0 .. Cap - 1 : slots'[i].state = "PINNED" => slots[i].state = "PINNED"
    BY <1>11, <1>f DEF ConsOpen, Reclaimed, FreeSlot
  <2>3. Low' = tail /\ Low = tail
    BY <1>z, <2>1 DEF Low
  <2>4. PinsSeen'
    BY <1>s, <1>f, <2>1, <2>2, <2>3
  <2> QED BY <1>r, <2>1, <2>4 DEF Floored
<1>12. CASE ConsRescan
  <2>1. /\ cons.pc = "rescan" /\ cons'.pc = "idle" /\ UNCHANGED <<tail, slots, rel>>
        /\ floor' = LowestPin(slots, WindowStart(tail), tail)
    BY <1>12, <1>e DEF ConsRescan, RescannedFloor, ConsAt
  <2>2. Low' = tail
    BY <1>z, <2>1 DEF Low
  <2>3. ASSUME NEW c \in Nat, c < tail, Top <= c + Cap, slots[Idx(c)].state = "PINNED"
        PROVE  LowestPin(slots, WindowStart(tail), tail) <= c
    <3>1. tail <= c + Cap
      BY <1>f, <1>n, <2>3
    <3>2. WindowStart(tail) <= c /\ WindowStart(tail) \in Nat
      BY <1>f, <3>1, WindowFrom, WindowStartIn
    <3> QED BY <1>f, <2>3, <3>2, LowestPinLeast
  <2>4. PinsSeen'
    BY <1>t, <2>1, <2>2, <2>3 DEF PinsSeen
  <2> QED BY <1>r, <2>1, <2>4 DEF Floored
<1>13. CASE ConsDie
  <2>1. cons'.pc = "dead" /\ UNCHANGED <<tail, slots, floor>> /\ rel' = NoRelease
    BY <1>13, <1>f DEF ConsDie, Consumer
  <2>2. Low' = tail
    BY <1>z, <2>1 DEF Low
  <2>3. ASSUME NEW c \in Nat, c < tail PROVE ~ (cons.pc = "free" /\ c = cons.t)
    <3>1. cons.pc = "free" => cons.t = tail
      BY <1>g DEF Reading
    <3>2. c # tail
      BY <1>z, <2>3
    <3> QED BY <3>1, <3>2
  <2>4. \A c \in Nat : c < tail => c < Low
    BY <1>f, <1>n
  <2>5. PinsSeen'
    BY <1>s, <1>f, <2>1, <2>2, <2>3, <2>4
  <2> QED BY <1>q, <2>1, <2>5 DEF Floored
<1> QED
  BY <1>1, <1>2, <1>3, <1>4, <1>5, <1>6, <1>7, <1>8, <1>9, <1>10, <1>11, <1>12, <1>13
  DEF ConsumerStep

LEMMA FlooredFreeing ==
  ASSUME Ring, Floored, ReleaseStep \/ ReclaimStale
  PROVE  Floored'
<1> SUFFICES ASSUME ~scenario.threads, PinsSeen, Unpinning,
                    cons.pc = "cas" => cons.floor = floor /\ (floor = None \/ cons.t < floor),
                    cons.pc = "keep" => floor <= cons.t
             PROVE  Floored'
  <2>1. scenario' = scenario
    BY Others
  <2> QED BY <2>1 DEF Floored
<1>f. /\ Top \in Nat /\ Low \in Nat /\ tail \in Nat /\ floor \in Nat /\ rel.c \in Nat
      /\ rel.c + 1 \in Nat /\ rel \in ReleaseSet /\ tail <= Low
      /\ slots \in [0 .. Cap - 1 -> SlotSet] /\ \A c \in Nat : Idx(c) \in 0 .. Cap - 1
      /\ views \subseteq Nat /\ WindowStart(tail) \in Nat
  <2>1. rel.c \in Nat /\ tail \in Nat
    BY Fields, Facts DEF Ring, IInv
  <2>2. rel.c + 1 \in Nat /\ WindowStart(tail) \in Nat
    BY <2>1, WindowStartIn
  <2> QED BY <2>1, <2>2, TopFacts, Fields, Facts DEF Ring, IInv, Placed
<1>n. Low <= Top /\ Cap \in Nat
  BY CapAssumption DEF Ring, Behind
<1>u. UNCHANGED <<scenario, tail, cons>> /\ Low' = Low /\ Top' = Top
  <2>1. UNCHANGED <<scenario, tail, cons>>
    BY DEF ReleaseStep, Release, UnpinEntry, UnpinScan, UnpinRaise, ReclaimStale
  <2> QED BY <2>1, Others DEF Low
\* What a pin behind the consumer is to a scan.
<1>w. ASSUME NEW c \in Nat, c < Low, Top <= c + Cap
      PROVE  tail <= c + Cap /\ WindowStart(tail) <= c
  <2>1. tail <= c + Cap
    BY <1>f, <1>n, <1>w
  <2> QED BY <1>f, <2>1, WindowFrom
<1>1. ASSUME NEW c \in views, Release(c) PROVE Floored'
  <2>1. /\ rel.pc = "none" /\ cons.pc = "idle" /\ slots' = [slots EXCEPT ![Idx(c)] = FreeSlot]
        /\ rel' = [NoRelease EXCEPT !.pc = "entry", !.c = c] /\ UNCHANGED floor
    BY <1>1 DEF Release, ConsAt, SetSlot
  <2>2. c \in Nat /\ rel'.pc = "entry" /\ rel'.c = c
    BY <1>f, <2>1 DEF NoRelease
  <2>3. \A i \in 0 .. Cap - 1 : slots'[i].state = "PINNED" => slots[i].state = "PINNED"
    BY <1>f, <2>1, <2>2 DEF FreeSlot
  <2>4. slots'[Idx(c)].state = "FREE"
    BY <1>f, <2>1, <2>2 DEF FreeSlot
  <2>5. PinsSeen'
    BY <1>f, <1>u, <2>1, <2>3 DEF PinsSeen
  <2>6. Unpinning'
    BY <1>u, <2>1, <2>2, <2>4 DEF Unpinning
  <2> QED BY <1>u, <2>1, <2>5, <2>6 DEF Floored
<1>2. CASE UnpinEntry
  <2>1. rel.pc = "entry" /\ cons.pc = "idle" /\ UNCHANGED <<floor, slots>>
    BY <1>2 DEF UnpinEntry, Unpinning
  <2>2. PinsSeen'
    BY <1>u, <2>1 DEF PinsSeen
  <2>3. CASE rel' = NoRelease
    BY <1>u, <2>1, <2>2, <2>3 DEF Floored, Unpinning, NoRelease
  <2>4. CASE rel' # NoRelease
    <3>1. /\ rel' = [rel EXCEPT !.pc = "scan", !.entry = floor] /\ floor \in {rel.c, None}
      BY <1>2, <2>4 DEF UnpinEntry
    <3>2. rel'.pc = "scan" /\ rel'.entry = floor /\ rel'.c = rel.c
      BY <1>f, <3>1 DEF ReleaseSet
    <3>3. Unpinning'
      BY <1>u, <2>1, <3>1, <3>2 DEF Unpinning
    <3> QED BY <1>u, <2>1, <2>2, <3>3 DEF Floored
  <2> QED BY <2>3, <2>4
<1>3. CASE UnpinScan
  <2> DEFINE from == IF rel.entry = rel.c THEN Max({rel.c + 1, WindowStart(tail)})
                     ELSE WindowStart(tail)
             next == LowestPin(slots, from, tail)
  <2>1. /\ rel.pc = "scan" /\ cons.pc = "idle" /\ UNCHANGED <<floor, slots>>
        /\ floor = rel.entry /\ rel.entry \in {rel.c, None} /\ slots[Idx(rel.c)].state # "PINNED"
    BY <1>3 DEF UnpinScan, Unpinning
  <2>2. rel' = NoRelease \/ rel' = [rel EXCEPT !.pc = "raise", !.next = next]
    BY <1>3 DEF UnpinScan
  <2>3. ASSUME NEW c \in Nat, c < tail, tail <= c + Cap, slots[Idx(c)].state = "PINNED", floor <= c
        PROVE  next <= c
    <3>1. \A a, b \in Nat : Max({a, b}) = IF a >= b THEN a ELSE b
      BY DEF Max
    <3>2. WindowStart(tail) <= c
      BY <1>f, <2>3, WindowFrom
    <3>3. rel.entry = rel.c => rel.c + 1 <= c
      <4>1. c # rel.c
        BY <2>1, <2>3
      <4>2. rel.entry = rel.c => rel.c <= c
        BY <2>1, <2>3
      <4>3. rel.c \in Nat
        BY <1>f
      <4> QED BY <4>1, <4>2, <4>3
    <3>4. PICK a \in Nat, b \in Nat : a = rel.c + 1 /\ b = WindowStart(tail)
      BY <1>f
    <3>5. from = IF rel.entry = rel.c THEN IF a >= b THEN a ELSE b ELSE b
      BY <3>1, <3>4
    <3> HIDE DEF from
    <3>6. b <= c /\ (rel.entry = rel.c => a <= c)
      BY <3>2, <3>3, <3>4
    <3>7. from \in Nat /\ from <= c
      BY <3>4, <3>5, <3>6
    <3> QED BY <1>f, <2>3, <3>7, LowestPinLeast
  <2> HIDE DEF next
  <2>4. PinsSeen'
    BY <1>u, <2>1 DEF PinsSeen
  <2>5. CASE rel' = NoRelease
    BY <1>u, <2>1, <2>4, <2>5 DEF Floored, Unpinning, NoRelease
  <2>6. CASE rel' = [rel EXCEPT !.pc = "raise", !.next = next]
    <3>1. rel'.pc = "raise" /\ rel'.entry = rel.entry /\ rel'.c = rel.c /\ rel'.next = next
      BY <1>f, <2>6 DEF ReleaseSet
    <3>2. Unpinning'
      BY <1>u, <2>1, <2>3, <3>1 DEF Unpinning
    <3> QED BY <1>u, <2>1, <2>4, <3>2 DEF Floored
  <2> QED BY <2>2, <2>5, <2>6
<1>4. CASE UnpinRaise
  <2>1. /\ rel.pc = "raise" /\ cons.pc = "idle" /\ UNCHANGED slots /\ rel' = NoRelease
        /\ floor' = rel.next
    BY <1>4 DEF UnpinRaise, Unpinning
  <2>2. Low = tail
    BY <1>f, <2>1 DEF Low
  <2>3. ASSUME NEW c \in Nat, c < Low, Top <= c + Cap, slots[Idx(c)].state = "PINNED"
        PROVE  rel.next <= c
    <3>1. floor <= c
      BY <2>1, <2>3 DEF PinsSeen
    <3> QED BY <1>w, <2>1, <2>2, <2>3, <3>1 DEF Unpinning
  <2>4. PinsSeen'
    BY <1>u, <2>1, <2>3 DEF PinsSeen
  <2> QED BY <1>u, <2>1, <2>4 DEF Floored, Unpinning, NoRelease
<1>5. CASE ReclaimStale
  <2> DEFINE dead == {i \in 0 .. Cap - 1 : ~Covered(i) /\ DeadPin(i)}
  <2>1. /\ cons.pc = "dead" /\ UNCHANGED rel /\ slots' = Reclaimed(dead)
        /\ floor' = LowestPin(Reclaimed(dead), WindowStart(tail), tail)
    BY <1>5 DEF ReclaimStale
  <2> HIDE DEF dead
  <2>2. Low = tail
    BY <1>f, <2>1 DEF Low
  <2>3. ASSUME NEW c \in Nat, c < Low, Top <= c + Cap, slots'[Idx(c)].state = "PINNED"
        PROVE  LowestPin(Reclaimed(dead), WindowStart(tail), tail) <= c
    BY <1>f, <1>w, <2>1, <2>2, <2>3, LowestPinLeast
  <2>4. PinsSeen'
    BY <1>u, <2>1, <2>3 DEF PinsSeen
  <2>5. Unpinning'
    BY <2>1 DEF Unpinning
  <2> QED BY <1>u, <2>1, <2>4, <2>5 DEF Floored
<1> QED BY <1>1, <1>2, <1>3, <1>4, <1>5 DEF ReleaseStep

LEMMA FlooredInit == Init => Floored
<1> SUFFICES ASSUME Init PROVE Floored
  OBVIOUS
<1>1. \A c \in Nat : slots[Idx(c)].state = "FREE"
  <2>1. \A c \in Nat : Idx(c) \in 0 .. Cap - 1
    BY IdxIn
  <2> QED BY <2>1 DEF Init, FreeSlot
<1> QED BY <1>1 DEF Init, Floored, PinsSeen, Unpinning, NoRelease, Consumer

LEMMA FlooredNext == Ring /\ Floored /\ [Next]_vars => Floored'
<1> SUFFICES ASSUME Ring, Floored, [Next]_vars PROVE Floored'
  OBVIOUS
<1>1. CASE (\E op \in {"send", "alloc"} : GuardLoad(op)) \/ ProducerStep \/ LeaseEnds
  <2>1. Produces
    BY <1>1, Kinds
  <2>2. Top \in Nat
    BY BelowNone
  <2>3. Top' = Top \/ Top' = Top + 1 \/ (Top >= 1 /\ Top' = Top - 1)
    BY <2>1 DEF Produces, Rests, Reserves, Fills, Withdraws
  <2>4. Top' \in Nat
    BY <2>2, <2>3
  <2> QED BY <2>1, <2>4, FlooredProduces
<1>2. CASE ConsumerStep \/ ConsDie
  BY <1>2, FlooredReading
<1>3. CASE ReleaseStep \/ ReclaimStale
  BY <1>3, FlooredFreeing
<1>4. CASE UNCHANGED vars
  <2>1. UNCHANGED <<scenario, slots, pr, leases, head, tail, cons, rel, floor>>
    BY <1>4 DEF vars
  <2>2. Top' = Top /\ Low' = Low
    BY <2>1 DEF Tip, Top, Low
  <2>3. PinsSeen' <=> PinsSeen
    BY <2>1, <2>2 DEF PinsSeen
  <2>4. Unpinning' <=> Unpinning
    BY <2>1 DEF Unpinning
  <2> QED BY <2>1, <2>3, <2>4 DEF Floored
<1> QED BY <1>1, <1>2, <1>3, <1>4 DEF Next

\* A FREE slot stays FREE until the producer takes it.
LEMMA FreeKept ==
  ASSUME IInv, ConsumerStep \/ ConsDie \/ ReleaseStep \/ ReclaimStale
  PROVE  \A i \in 0 .. Cap - 1 : slots[i].state = "FREE" => slots'[i].state = "FREE"
<1>f. /\ slots \in [0 .. Cap - 1 -> SlotSet] /\ \A c \in views : Idx(c) \in 0 .. Cap - 1
      /\ Idx(cons.t) \in 0 .. Cap - 1 /\ FreeSlot.state = "FREE"
  <2>1. cons.t \in Nat
    BY Fields DEF IInv
  <2> QED BY <2>1, Facts, Fields DEF IInv, FreeSlot
<1>1. CASE ReleaseStep
  <2>1. UNCHANGED slots \/ \E c \in views : slots' = [slots EXCEPT ![Idx(c)] = FreeSlot]
    BY <1>1 DEF ReleaseStep, Release, UnpinEntry, UnpinScan, UnpinRaise, SetSlot
  <2> QED BY <1>f, <2>1
<1>2. CASE ReclaimStale \/ ConsOpen
  <2>1. \E dead : slots' = Reclaimed(dead)
    BY <1>2 DEF ReclaimStale, ConsOpen
  <2> QED BY <1>f, <2>1 DEF Reclaimed
<1>3. CASE PinSlot \/ StampSlot \/ TakeSlot \/ FreeTail
  <2>1. slots[Idx(cons.t)].state # "FREE"
    BY <1>3 DEF PinSlot, StampSlot, TakeSlot, FreeTail, ConsAt, IInv, ViewInv
  <2>2. \E x : slots' = [slots EXCEPT ![Idx(cons.t)] = x]
    BY <1>3 DEF PinSlot, StampSlot, TakeSlot, FreeTail, SetSlot
  <2> QED BY <1>f, <2>1, <2>2
<1>4. CASE UNCHANGED slots
  BY <1>4
<1> QED
  BY <1>1, <1>2, <1>3, <1>4
  DEF ConsumerStep, RecvBegin, Gate, LoadFloor, LowerFloor, KeepPinned, AdvanceTail, ConsRescan,
      ConsDie

\* Without leases, the guard admits a send only when the slot at the head is
\* none of those behind the consumer that are pinned, nor of those ahead of it.
LEMMA GuardFindsFree ==
  ASSUME Ring, Floored, ~scenario.threads, GuardFloor, pr'.pc = "claim", leases = {}
  PROVE  slots[pr.idx].state = "FREE"
<1>f. /\ Top \in Nat /\ Low \in Nat /\ tail \in Nat /\ floor \in Nat /\ head \in Nat
      /\ pr.t \in Nat /\ pr.bias \in Nat /\ Cap \in Nat \ {0} /\ cons.t \in Nat
      /\ tail <= Low /\ Low <= Top /\ pr \in ProducerSet
  BY TopFacts, Fields, Facts, CapAssumption DEF Ring, IInv, Placed, Behind
<1>1. pr.pc = "floor" /\ pr.t <= tail
  BY DEF GuardFloor, At, Ring, Behind
<1>2. Top = head /\ pr.idx = Idx(head)
  <2>1. Cardinality(leases) = 0
    BY FS_EmptySet
  <2>2. Tip = head
    BY <1>1, <1>f, <2>1 DEF Tip
  <2>3. Top = head
    BY <1>1, <1>f, <2>2 DEF Top
  <2> QED BY <2>2, <2>3 DEF Ring, Placed
<1> DEFINE from == IF floor = None THEN pr.t ELSE Min({floor, pr.t})
<1>3. from <= pr.t /\ from \in Nat /\ (floor # None => from <= floor)
  <2>1. {floor, pr.t} \subseteq Nat
    BY <1>f
  <2>2. \A x \in {floor, pr.t} : Min({floor, pr.t}) \in {floor, pr.t} /\ Min({floor, pr.t}) <= x
    BY <2>1, MinLeast
  <2>3. PICK m : m = Min({floor, pr.t})
    OBVIOUS
  <2>4. m \in {floor, pr.t} /\ m <= floor /\ m <= pr.t
    BY <2>2, <2>3
  <2> QED BY <1>f, <2>3, <2>4
<1>4. head < from + Cap
  <2>1. Cap >= GuardLen(pr.t, floor) + 1
    <3>1. CASE ~ (Cap >= GuardLen(pr.t, floor) + 1)
      <4>1. pr'.pc = "idle"
        BY <1>f, <3>1 DEF GuardFloor, ProducerSet
      <4> QED BY <4>1
    <3> QED BY <3>1
  <2>2. GuardLen(pr.t, floor) = (IF head > from THEN head - from ELSE 0) + pr.bias
    BY DEF GuardLen
  <2> HIDE DEF from
  <2> QED BY <1>f, <1>3, <2>1, <2>2
<1> HIDE DEF from
<1>5. CASE head < Cap
  BY <1>2, <1>5, <1>f DEF Ring, Behind
<1>6. CASE ~ (head < Cap)
  <2>1. PICK c \in Nat : head = c + Cap
    <3>1. head - Cap \in Nat /\ head = (head - Cap) + Cap
      BY <1>6, <1>f
    <3> QED BY <3>1
  <2>2. Idx(c) = pr.idx
    BY <1>2, <2>1, SameSlot
  <2>3. c < from
    BY <1>3, <1>4, <1>f, <2>1
  <2>4. c < tail /\ c < Low /\ Top <= c + Cap
    BY <1>1, <1>2, <1>3, <1>f, <2>1, <2>3
  <2>5. slots[pr.idx].state \in {"FREE", "PINNED"}
    BY <2>2, <2>4 DEF Ring, Behind
  <2>6. slots[pr.idx].state # "PINNED"
    <3>1. SUFFICES ASSUME slots[pr.idx].state = "PINNED" PROVE FALSE
      OBVIOUS
    <3>2. cons.pc = "free" => cons.t = tail
      BY DEF Ring, Behind, Reading
    <3>3. ~ (cons.pc = "free" /\ c = cons.t)
      BY <1>f, <2>4, <3>2
    <3>4. floor <= c
      BY <2>2, <2>4, <3>1, <3>3 DEF Floored, PinsSeen
    <3>5. c < None
      BY <1>2, <1>f, <2>1, BelowNone DEF None
    <3>6. floor # None
      BY <1>f, <3>4, <3>5 DEF None
    <3> QED BY <1>3, <1>f, <2>3, <3>4, <3>6
  <2> QED BY <2>5, <2>6
<1> QED BY <1>5, <1>6

FloorInv == Ring /\ Floored /\ ClaimFindsFree

LEMMA FloorInvNext == FloorInv /\ [Next]_vars => FloorInv'
<1> SUFFICES ASSUME FloorInv, [Next]_vars PROVE FloorInv'
  OBVIOUS
<1>1. Ring' /\ Floored'
  BY RingNext, FlooredNext DEF FloorInv
<1>f. pr \in ProducerSet /\ Ring /\ Floored /\ ClaimFindsFree /\ IInv /\ pr.idx \in 0 .. Cap - 1
  BY Facts, Fields DEF FloorInv, Ring, IInv
<1> USE DEF At
<1>2. ClaimFindsFree'
  <2>1. CASE GuardFloor
    <3>1. scenario' = scenario /\ leases' = leases /\ slots' = slots
      BY <2>1 DEF GuardFloor
    <3>2. CASE pr'.pc # "claim"
      BY <3>2 DEF ClaimFindsFree
    <3>3. CASE pr'.pc = "claim"
      <4>1. pr'.idx = pr.idx
        BY <1>f, <2>1 DEF GuardFloor, ProducerSet
      <4> QED BY <1>f, <2>1, <3>1, <3>3, <4>1, GuardFindsFree DEF ClaimFindsFree
    <3> QED BY <3>2, <3>3
  <2>2. CASE \/ \E op \in {"send", "alloc"} : GuardLoad(op)
             \/ ClaimSlot \/ MarkSlot \/ CommitSlot \/ PublishHead \/ LeaseSlot \/ LeaseEnds
    <3>1. pr'.pc # "claim"
      BY <1>f, <2>2
      DEF GuardLoad, ClaimSlot, MarkSlot, CommitSlot, PublishHead, LeaseSlot, LeaseEnds, Publish,
          Abort, Goto, ProducerSet
    <3> QED BY <3>1 DEF ClaimFindsFree
  <2>3. CASE ReclaimStale
    <3>1. pr'.pc # "claim"
      BY <1>f, <2>3 DEF ReclaimStale, ProducerSet
    <3> QED BY <3>1 DEF ClaimFindsFree
  <2>4. CASE ConsumerStep \/ ConsDie \/ ReleaseStep
    <3>1. UNCHANGED <<scenario, leases>>
      BY <1>f, <2>4, Others
    <3>2. UNCHANGED pr
      BY <2>4
      DEF ConsumerStep, RecvBegin, Gate, PinSlot, StampSlot, LoadFloor, LowerFloor, KeepPinned,
          TakeSlot, FreeTail, AdvanceTail, ConsOpen, ConsRescan, ConsDie,
          ReleaseStep, Release, UnpinEntry, UnpinScan, UnpinRaise
    <3>3. slots[pr.idx].state = "FREE" => slots'[pr.idx].state = "FREE"
      BY <1>f, <2>4, FreeKept
    <3> QED BY <1>f, <3>1, <3>2, <3>3 DEF ClaimFindsFree
  <2>5. CASE UNCHANGED vars
    BY <1>f, <2>5 DEF ClaimFindsFree, vars
  <2> QED BY <2>1, <2>2, <2>3, <2>4, <2>5 DEF Next, ProducerStep
<1> QED BY <1>1, <1>2 DEF FloorInv

\* What the send guard admits finds a FREE slot: the floor it counts from is
\* never above a pin left behind the consumer, whoever is killed where, and no
\* number is spent on nothing unless leases fill the ring.
THEOREM GuardFindsRoom == Spec => []ClaimFindsFree
<1>1. Init => FloorInv
  <2>1. Init => ClaimFindsFree
    BY DEF Init, ClaimFindsFree, At, Producer
  <2> QED BY <2>1, RingInit, FlooredInit DEF FloorInv
<1>2. FloorInv => ClaimFindsFree
  BY DEF FloorInv
<1> QED BY <1>1, <1>2, FloorInvNext, PTL DEF Spec

-----------------------------------------------------------------------------
(* The order of the messages                                               *)

\* The scenarios in which no consumer is killed between the PINNED header it
\* writes and the tail it moves: what it leaves there nobody can tell from a
\* message or from a gap.
ReadsComplete == scenario.ckill \subseteq {"idle", "gate", "pin", "take", "rescan"}

\* The slots by cursor value; those from Low to Top wait to be received.
Queue == [c \in Nat |-> slots[Idx(c)]]

\* What waits is nowhere free, and numbered in the order of the cursors.
Ordered(q, lo, to, nx) ==
  /\ \A c \in Nat : lo <= c /\ c < to => q[c].state # "FREE" /\ q[c].seq < nx
  /\ \A c, d \in Nat : lo <= c /\ c < d /\ d < to => q[c].seq < q[d].seq

\* What was received is the beginning of what was sent, and older than anything
\* that waits; the rest of what was sent is what waits and is written.
Delivers(q, lo, to, nx, s, g) ==
  /\ \A j, k \in 1 .. Len(s) : j < k => s[j][1] < s[k][1]
  /\ Len(g) <= Len(s)
  /\ \A j \in 1 .. Len(g) :
       /\ g[j] = s[j][2] /\ s[j][1] < nx
       /\ \A c \in Nat : lo <= c /\ c < to => s[j][1] < q[c].seq
  /\ \A j \in Len(g) + 1 .. Len(s) :
       \E c \in Nat : /\ lo <= c /\ c < to /\ q[c].state # "WRITING"
                      /\ s[j] = <<q[c].seq, q[c].msg>>
  /\ \A c \in Nat : lo <= c /\ c < to /\ q[c].state # "WRITING" =>
       \E j \in Len(g) + 1 .. Len(s) : s[j] = <<q[c].seq, q[c].msg>>

Keeps(q, lo, to, nx, s, g) == Ordered(q, lo, to, nx) /\ Delivers(q, lo, to, nx, s, g)

\* Nothing that waits changes, but for the state of what is read.
SameWaiting(q, r, lo, to) ==
  \A c \in Nat : lo <= c /\ c < to =>
    /\ q[c].seq \in Nat /\ r[c].seq = q[c].seq /\ r[c].msg = q[c].msg
    /\ r[c].state # "FREE" /\ (r[c].state = "WRITING" <=> q[c].state = "WRITING")

LEMMA KeepsSame ==
  ASSUME NEW q, NEW r, NEW lo \in Nat, NEW to \in Nat, NEW nx \in Nat, NEW ny \in Nat, nx <= ny,
         NEW s \in Seq(Nat \X Nat), NEW g \in Seq(Nat), Keeps(q, lo, to, nx, s, g),
         SameWaiting(q, r, lo, to)
  PROVE  Keeps(r, lo, to, ny, s, g)
<1> USE DEF SameWaiting
<1>1. \A j \in 1 .. Len(s) : s[j][1] \in Nat
  <2>1. \A j \in 1 .. Len(s) : s[j] \in Nat \X Nat
    BY ElementOfSeq
  <2> QED BY <2>1
<1>n. PICK n \in Nat, k \in Nat : n = Len(s) /\ k = Len(g)
  BY LenProperties
<1>o. Ordered(q, lo, to, nx) /\ Delivers(q, lo, to, nx, s, g)
  BY DEF Keeps
<1>2. Ordered(r, lo, to, ny)
  <2>1. \A c \in Nat : lo <= c /\ c < to => r[c].state # "FREE" /\ r[c].seq < ny
    <3>1. SUFFICES ASSUME NEW c \in Nat, lo <= c, c < to PROVE r[c].state # "FREE" /\ r[c].seq < ny
      OBVIOUS
    <3>2. q[c].seq < nx /\ q[c].seq \in Nat /\ r[c].seq = q[c].seq /\ r[c].state # "FREE"
      BY <1>o, <3>1 DEF Ordered
    <3> QED BY <3>2
  <2>2. \A c, d \in Nat : lo <= c /\ c < d /\ d < to => r[c].seq < r[d].seq
    <3>1. SUFFICES ASSUME NEW c \in Nat, NEW d \in Nat, lo <= c, c < d, d < to
                   PROVE  r[c].seq < r[d].seq
      OBVIOUS
    <3>2. c < to /\ lo <= d
      BY <3>1
    <3>3. q[c].seq < q[d].seq
      BY <1>o, <3>1 DEF Ordered
    <3> QED BY <3>1, <3>2, <3>3
  <2> QED BY <2>1, <2>2 DEF Ordered
<1>3. ASSUME NEW j \in 1 .. Len(g)
      PROVE  /\ g[j] = s[j][2] /\ s[j][1] < ny
             /\ \A c \in Nat : lo <= c /\ c < to => s[j][1] < r[c].seq
  <2>1. g[j] = s[j][2] /\ s[j][1] < nx
    BY <1>o DEF Delivers
  <2>2. \A c \in Nat : lo <= c /\ c < to => s[j][1] < q[c].seq
    BY <1>o DEF Delivers
  <2>3. s[j][1] \in Nat
    <3>1. k <= n
      BY <1>n, <1>o DEF Delivers
    <3>2. j \in 1 .. n
      BY <1>n, <3>1
    <3> QED BY <1>1, <1>n, <3>2
  <2>4. s[j][1] < ny
    BY <2>1, <2>3
  <2> QED BY <2>1, <2>2, <2>4
<1>4. ASSUME NEW j \in Len(g) + 1 .. Len(s)
      PROVE  \E c \in Nat : /\ lo <= c /\ c < to /\ r[c].state # "WRITING"
                            /\ s[j] = <<r[c].seq, r[c].msg>>
  <2>1. PICK c \in Nat : /\ lo <= c /\ c < to /\ q[c].state # "WRITING"
                         /\ s[j] = <<q[c].seq, q[c].msg>>
    BY <1>o DEF Delivers
  <2> QED BY <2>1
<1>5. ASSUME NEW c \in Nat, lo <= c, c < to, r[c].state # "WRITING"
      PROVE  \E j \in Len(g) + 1 .. Len(s) : s[j] = <<r[c].seq, r[c].msg>>
  <2>1. q[c].state # "WRITING" /\ r[c].seq = q[c].seq /\ r[c].msg = q[c].msg
    BY <1>5
  <2>2. \E j \in Len(g) + 1 .. Len(s) : s[j] = <<q[c].seq, q[c].msg>>
    BY <1>5, <1>o, <2>1 DEF Delivers
  <2> QED BY <2>1, <2>2
<1>6. (\A j, i \in 1 .. Len(s) : j < i => s[j][1] < s[i][1]) /\ Len(g) <= Len(s)
  BY <1>o DEF Delivers
<1>7. Delivers(r, lo, to, ny, s, g)
  BY <1>3, <1>4, <1>5, <1>6 DEF Delivers
<1> QED BY <1>2, <1>7 DEF Keeps

\* What the place of a number in the sequence of messages is.
LEMMA PlaceIs ==
  ASSUME sent \in Seq(Nat \X Nat), NEW s \in Nat,
         \A j, k \in 1 .. Len(sent) : j < k => sent[j][1] < sent[k][1],
         \A j \in 1 .. Len(sent) : sent[j][1] # s
  PROVE  /\ Place(s) \in 0 .. Len(sent)
         /\ \A j \in 1 .. Place(s) : sent[j][1] < s
         /\ \A j \in Place(s) + 1 .. Len(sent) : s < sent[j][1]
<1>n. PICK n \in Nat : n = Len(sent)
  OBVIOUS
<1>f. \A j \in 1 .. n : sent[j][1] \in Nat
  <2>1. \A j \in 1 .. n : sent[j] \in Nat \X Nat
    BY <1>n
  <2> QED BY <2>1
<1> DEFINE rest == {j \in 1 .. n + 1 : j = n + 1 \/ s < sent[j][1]}
<1>1. rest \subseteq Nat /\ n + 1 \in rest
  BY <1>n
<1>2. PICK m \in rest : \A j \in rest : m <= j
  <2>1. Min(rest) \in rest /\ \A j \in rest : Min(rest) <= j
    <3> HIDE DEF rest
    <3> QED BY <1>1, MinLeast
  <2> QED BY <2>1
<1>3. PICK p \in Nat : m = p + 1 /\ p <= n
  <2>1. m - 1 \in Nat /\ m = (m - 1) + 1 /\ m - 1 <= n
    BY <1>2
  <2> QED BY <2>1
<1>4. \A j \in 1 .. p : sent[j][1] < s
  <2>1. SUFFICES ASSUME NEW j \in 1 .. p PROVE sent[j][1] < s
    OBVIOUS
  <2>2. j \in 1 .. n /\ j < m
    BY <1>3, <2>1
  <2>3. ~ (s < sent[j][1])
    BY <1>2, <2>2
  <2> QED BY <1>f, <1>n, <2>2, <2>3
<1>5. \A j \in p + 1 .. n : s < sent[j][1]
  <2>1. SUFFICES ASSUME NEW j \in p + 1 .. n PROVE s < sent[j][1]
    OBVIOUS
  <2>2. m \in 1 .. n /\ j \in 1 .. n /\ m <= j
    BY <1>3, <2>1
  <2>3. s < sent[m][1]
    BY <1>2, <2>2
  <2>4. sent[m][1] <= sent[j][1]
    <3>1. CASE m = j
      BY <1>f, <2>2, <3>1
    <3>2. CASE m # j
      <4>1. m < j
        BY <2>2, <3>2
      <4>2. sent[m][1] < sent[j][1]
        BY <1>n, <2>2, <4>1
      <4> QED BY <1>f, <2>2, <4>2
    <3> QED BY <3>1, <3>2
  <2> QED BY <1>f, <2>2, <2>3, <2>4
<1>6. {j \in 1 .. Len(sent) : sent[j][1] < s} = 1 .. p
  <2>1. ASSUME NEW j \in 1 .. n, sent[j][1] < s PROVE j \in 1 .. p
    <3>1. ~ (s < sent[j][1])
      BY <1>f, <2>1
    <3>2. ~ (j \in p + 1 .. n)
      BY <1>5, <3>1
    <3> QED BY <1>3, <2>1, <3>2
  <2>2. \A j \in 1 .. p : j \in 1 .. n
    BY <1>3
  <2> QED BY <1>4, <1>n, <2>1, <2>2
<1>7. Cardinality(1 .. p) = p
  BY <1>3, FS_Interval
<1>8. Place(s) = p
  BY <1>6, <1>7 DEF Place
<1> QED BY <1>3, <1>4, <1>5, <1>8, <1>n

\* One more element in the middle of a sequence.
Splice(u, p, x) == SubSeq(u, 1, p) \o <<x>> \o SubSeq(u, p + 1, Len(u))

LEMMA Spliced ==
  ASSUME NEW S, NEW u \in Seq(S), NEW x \in S, NEW p \in 0 .. Len(u)
  PROVE  /\ Splice(u, p, x) \in Seq(S) /\ Len(Splice(u, p, x)) = Len(u) + 1
         /\ \A j \in 1 .. p : Splice(u, p, x)[j] = u[j]
         /\ Splice(u, p, x)[p + 1] = x
         /\ \A j \in p + 1 .. Len(u) : Splice(u, p, x)[j + 1] = u[j]
<1>w. PICK w : w = Splice(u, p, x)
  OBVIOUS
<1>n. PICK n \in Nat : n = Len(u)
  OBVIOUS
<1>p. p \in Nat /\ p <= n
  BY <1>n
<1>u. \A i \in 1 .. n : u[i] \in S
  BY <1>n, ElementOfSeq
<1> DEFINE before == SubSeq(u, 1, p)
           after == SubSeq(u, p + 1, n)
           both == before \o <<x>>
<1>1. before \in Seq(S) /\ Len(before) = p /\ \A j \in 1 .. p : before[j] = u[j]
  <2>1. \A i \in 1 .. p : u[i] \in S
    BY <1>p, <1>u
  <2>2. /\ before \in Seq(S) /\ Len(before) = IF 1 <= p THEN p - 1 + 1 ELSE 0
        /\ \A i \in 1 .. p - 1 + 1 : before[i] = u[1 + i - 1]
    BY <1>p, <2>1, SubSeqProperties
  <2>3. p - 1 + 1 = p /\ \A i \in 1 .. p : 1 + i - 1 = i
    BY <1>p
  <2>4. p = IF 1 <= p THEN p - 1 + 1 ELSE 0
    BY <1>p
  <2> QED BY <2>2, <2>3, <2>4
<1>2. after \in Seq(S) /\ Len(after) = n - p /\ \A j \in 1 .. n - p : after[j] = u[p + j]
  <2>1. \A i \in p + 1 .. n : u[i] \in S
    BY <1>p, <1>u
  <2>2. /\ after \in Seq(S) /\ Len(after) = IF p + 1 <= n THEN n - (p + 1) + 1 ELSE 0
        /\ \A i \in 1 .. n - (p + 1) + 1 : after[i] = u[(p + 1) + i - 1]
    BY <1>n, <1>p, <2>1, SubSeqProperties
  <2>3. n - (p + 1) + 1 = n - p /\ \A i \in 1 .. n - p : (p + 1) + i - 1 = p + i
    BY <1>n, <1>p
  <2>4. n - p = IF p + 1 <= n THEN n - (p + 1) + 1 ELSE 0
    BY <1>n, <1>p
  <2> QED BY <2>2, <2>3, <2>4
<1>3. <<x>> \in Seq(S) /\ Len(<<x>>) = 1 /\ <<x>>[1] = x
  OBVIOUS
<1> HIDE DEF before, after
<1>4. /\ both \in Seq(S) /\ Len(both) = p + 1
      /\ \A j \in 1 .. p + 1 : both[j] = IF j <= p THEN before[j] ELSE <<x>>[j - p]
  BY <1>1, <1>3, ConcatProperties
<1>5. \A j \in 1 .. p : both[j] = u[j]
  <2>1. \A j \in 1 .. p : j \in 1 .. p + 1 /\ j <= p
    BY <1>p
  <2> QED BY <1>1, <1>4, <2>1
<1>6. both[p + 1] = x
  <2>1. p + 1 \in 1 .. p + 1 /\ ~ (p + 1 <= p) /\ (p + 1) - p = 1
    BY <1>p
  <2> QED BY <1>3, <1>4, <2>1
<1> HIDE DEF both
<1>7. w = both \o after
  BY <1>n, <1>w DEF both, before, after, Splice
<1>8. /\ w \in Seq(S) /\ Len(w) = (p + 1) + (n - p)
      /\ \A j \in 1 .. (p + 1) + (n - p) :
           w[j] = IF j <= p + 1 THEN both[j] ELSE after[j - (p + 1)]
  <2>1. PICK b \in Seq(S), a \in Seq(S) : b = both /\ a = after /\ w = b \o a
    BY <1>2, <1>4, <1>7
  <2>2. /\ b \o a \in Seq(S) /\ Len(b \o a) = Len(b) + Len(a)
        /\ \A i \in 1 .. Len(b) + Len(a) :
             (b \o a)[i] = IF i <= Len(b) THEN b[i] ELSE a[i - Len(b)]
    BY <2>1, ConcatProperties
  <2>3. Len(b) = p + 1 /\ Len(a) = n - p
    BY <1>2, <1>4, <2>1
  <2> QED BY <2>1, <2>2, <2>3
<1>9. (p + 1) + (n - p) = n + 1
  BY <1>n, <1>p
<1>10. \A j \in 1 .. p + 1 : j \in 1 .. n + 1 /\ j <= p + 1 /\ (j <= p \/ j = p + 1)
  BY <1>n, <1>p
<1>11. \A j \in 1 .. p : w[j] = u[j]
  <2>1. \A j \in 1 .. p : j \in 1 .. p + 1
    BY <1>p
  <2> QED BY <1>5, <1>8, <1>9, <1>10, <2>1
<1>12. w[p + 1] = x
  <2>1. p + 1 \in 1 .. p + 1
    BY <1>p
  <2> QED BY <1>6, <1>8, <1>9, <1>10, <2>1
<1>13. ASSUME NEW j \in p + 1 .. n PROVE w[j + 1] = u[j]
  <2>1. /\ j + 1 \in 1 .. n + 1 /\ ~ (j + 1 <= p + 1) /\ (j + 1) - (p + 1) = j - p
        /\ j - p \in 1 .. n - p /\ p + (j - p) = j
    BY <1>n, <1>p
  <2>2. w[j + 1] = after[j - p]
    BY <1>8, <1>9, <2>1
  <2> QED BY <1>2, <2>1, <2>2
<1> QED BY <1>8, <1>9, <1>11, <1>12, <1>13, <1>n, <1>w

\* A message put in its place.
LEMMA SentWithIs ==
  ASSUME sent \in Seq(Nat \X Nat), NEW s \in Nat, NEW m \in Nat, NEW p \in 0 .. Len(sent),
         p = Place(s)
  PROVE  /\ Len(SentWith(s, m)) = Len(sent) + 1
         /\ \A j \in 1 .. p : SentWith(s, m)[j] = sent[j]
         /\ SentWith(s, m)[p + 1] = <<s, m>>
         /\ \A j \in p + 1 .. Len(sent) : SentWith(s, m)[j + 1] = sent[j]
<1>t. PICK T : T = Nat \X Nat
  OBVIOUS
<1>1. PICK u \in Seq(T) : u = sent
  BY <1>t
<1>2. PICK x \in T : x = <<s, m>>
  BY <1>t
<1>3. SentWith(s, m) = Splice(u, p, x)
  BY <1>1, <1>2 DEF SentWith, Splice
<1>4. p \in 0 .. Len(u)
  BY <1>1
<1>5. /\ Len(Splice(u, p, x)) = Len(u) + 1
      /\ \A j \in 1 .. p : Splice(u, p, x)[j] = u[j]
      /\ Splice(u, p, x)[p + 1] = x
      /\ \A j \in p + 1 .. Len(u) : Splice(u, p, x)[j + 1] = u[j]
  BY <1>4, Spliced
<1> QED BY <1>1, <1>2, <1>3, <1>5

\* A slot joins at the end, being written.
LEMMA KeepsReserved ==
  ASSUME NEW q, NEW r, NEW lo \in Nat, NEW to \in Nat, NEW nx \in Nat, lo <= to,
         NEW s \in Seq(Nat \X Nat), NEW g \in Seq(Nat), Keeps(q, lo, to, nx, s, g),
         \A c \in Nat : lo <= c /\ c < to => r[c] = q[c] /\ q[c].seq \in Nat,
         r[to].state = "WRITING", r[to].seq = nx
  PROVE  Keeps(r, lo, to + 1, nx + 1, s, g)
<1>o. Ordered(q, lo, to, nx) /\ Delivers(q, lo, to, nx, s, g)
  BY DEF Keeps
<1>t. \A c \in Nat : c < to + 1 <=> c < to \/ c = to
  OBVIOUS
<1>1. \A j \in 1 .. Len(s) : s[j][1] \in Nat
  <2>1. \A j \in 1 .. Len(s) : s[j] \in Nat \X Nat
    BY ElementOfSeq
  <2> QED BY <2>1
<1>n. PICK n \in Nat, k \in Nat : n = Len(s) /\ k = Len(g)
  BY LenProperties
<1>2. Ordered(r, lo, to + 1, nx + 1)
  <2>1. ASSUME NEW c \in Nat, lo <= c, c < to + 1
        PROVE  r[c].state # "FREE" /\ r[c].seq < nx + 1
    <3>1. CASE c < to
      <4>1. q[c].state # "FREE" /\ q[c].seq < nx /\ q[c].seq \in Nat /\ r[c] = q[c]
        BY <1>o, <2>1, <3>1 DEF Ordered
      <4>2. q[c].seq < nx + 1
        BY <4>1
      <4> QED BY <4>1, <4>2
    <3>2. CASE c = to
      <4>1. nx < nx + 1
        OBVIOUS
      <4> QED BY <3>2, <4>1
    <3> QED BY <1>t, <2>1, <3>1, <3>2
  <2>2. ASSUME NEW c \in Nat, NEW d \in Nat, lo <= c, c < d, d < to + 1
        PROVE  r[c].seq < r[d].seq
    <3>1. c < to
      BY <2>2
    <3>2. CASE d < to
      <4>1. lo <= d
        BY <2>2
      <4> QED BY <1>o, <2>2, <3>1, <3>2, <4>1 DEF Ordered
    <3>3. CASE d = to
      BY <1>o, <2>2, <3>1, <3>3 DEF Ordered
    <3> QED BY <1>t, <2>2, <3>2, <3>3
  <2> QED BY <2>1, <2>2 DEF Ordered
<1>3. ASSUME NEW j \in 1 .. Len(g)
      PROVE  /\ g[j] = s[j][2] /\ s[j][1] < nx + 1
             /\ \A c \in Nat : lo <= c /\ c < to + 1 => s[j][1] < r[c].seq
  <2>1. g[j] = s[j][2] /\ s[j][1] < nx
    BY <1>o DEF Delivers
  <2>2. \A c \in Nat : lo <= c /\ c < to => s[j][1] < q[c].seq
    BY <1>o DEF Delivers
  <2>3. s[j][1] \in Nat
    <3>1. k <= n
      BY <1>n, <1>o DEF Delivers
    <3>2. j \in 1 .. n
      BY <1>n, <3>1
    <3> QED BY <1>1, <1>n, <3>2
  <2>4. s[j][1] < nx + 1
    BY <2>1, <2>3
  <2> QED BY <1>t, <2>1, <2>2, <2>4
<1>4. ASSUME NEW j \in Len(g) + 1 .. Len(s)
      PROVE  \E c \in Nat : /\ lo <= c /\ c < to + 1 /\ r[c].state # "WRITING"
                            /\ s[j] = <<r[c].seq, r[c].msg>>
  <2>1. PICK c \in Nat : /\ lo <= c /\ c < to /\ q[c].state # "WRITING"
                         /\ s[j] = <<q[c].seq, q[c].msg>>
    BY <1>o DEF Delivers
  <2> QED BY <1>t, <2>1
<1>5. ASSUME NEW c \in Nat, lo <= c, c < to + 1, r[c].state # "WRITING"
      PROVE  \E j \in Len(g) + 1 .. Len(s) : s[j] = <<r[c].seq, r[c].msg>>
  <2>1. c < to /\ r[c] = q[c]
    BY <1>5, <1>t
  <2>2. \E j \in Len(g) + 1 .. Len(s) : s[j] = <<q[c].seq, q[c].msg>>
    BY <1>5, <1>o, <2>1 DEF Delivers
  <2> QED BY <2>1, <2>2
<1>6. (\A j, i \in 1 .. Len(s) : j < i => s[j][1] < s[i][1]) /\ Len(g) <= Len(s)
  BY <1>o DEF Delivers
<1>7. Delivers(r, lo, to + 1, nx + 1, s, g)
  BY <1>3, <1>4, <1>5, <1>6 DEF Delivers
<1> QED BY <1>2, <1>7 DEF Keeps

\* The last slot leaves before it is written.
LEMMA KeepsWithdrawn ==
  ASSUME NEW q, NEW r, NEW lo \in Nat, NEW to \in Nat, NEW nx \in Nat, lo <= to,
         NEW s \in Seq(Nat \X Nat), NEW g \in Seq(Nat), Keeps(q, lo, to + 1, nx, s, g),
         \A c \in Nat : lo <= c /\ c < to => r[c] = q[c] /\ q[c].seq \in Nat,
         q[to].state = "WRITING"
  PROVE  Keeps(r, lo, to, q[to].seq, s, g)
<1>o. Ordered(q, lo, to + 1, nx) /\ Delivers(q, lo, to + 1, nx, s, g)
  BY DEF Keeps
<1>t. \A c \in Nat : c < to + 1 <=> c < to \/ c = to
  OBVIOUS
<1>2. Ordered(r, lo, to, q[to].seq)
  <2>1. ASSUME NEW c \in Nat, lo <= c, c < to
        PROVE  r[c].state # "FREE" /\ r[c].seq < q[to].seq
    <3>1. q[c].state # "FREE" /\ q[c].seq < q[to].seq
      BY <1>o, <1>t, <2>1 DEF Ordered
    <3> QED BY <2>1, <3>1
  <2>2. ASSUME NEW c \in Nat, NEW d \in Nat, lo <= c, c < d, d < to
        PROVE  r[c].seq < r[d].seq
    <3>1. c < to /\ lo <= d /\ d < to + 1
      BY <2>2
    <3>2. q[c].seq < q[d].seq
      BY <1>o, <2>2, <3>1 DEF Ordered
    <3> QED BY <2>2, <3>1, <3>2
  <2> QED BY <2>1, <2>2 DEF Ordered
<1>3. ASSUME NEW j \in 1 .. Len(g)
      PROVE  /\ g[j] = s[j][2] /\ s[j][1] < q[to].seq
             /\ \A c \in Nat : lo <= c /\ c < to => s[j][1] < r[c].seq
  BY <1>o, <1>t DEF Delivers
<1>4. ASSUME NEW j \in Len(g) + 1 .. Len(s)
      PROVE  \E c \in Nat : /\ lo <= c /\ c < to /\ r[c].state # "WRITING"
                            /\ s[j] = <<r[c].seq, r[c].msg>>
  <2>1. PICK c \in Nat : /\ lo <= c /\ c < to + 1 /\ q[c].state # "WRITING"
                         /\ s[j] = <<q[c].seq, q[c].msg>>
    BY <1>o DEF Delivers
  <2>2. c < to
    BY <1>t, <2>1
  <2> QED BY <2>1, <2>2
<1>5. ASSUME NEW c \in Nat, lo <= c, c < to, r[c].state # "WRITING"
      PROVE  \E j \in Len(g) + 1 .. Len(s) : s[j] = <<r[c].seq, r[c].msg>>
  <2>1. r[c] = q[c] /\ c < to + 1
    BY <1>5, <1>t
  <2>2. \E j \in Len(g) + 1 .. Len(s) : s[j] = <<q[c].seq, q[c].msg>>
    BY <1>5, <1>o, <2>1 DEF Delivers
  <2> QED BY <2>1, <2>2
<1>6. (\A j, i \in 1 .. Len(s) : j < i => s[j][1] < s[i][1]) /\ Len(g) <= Len(s)
  BY <1>o DEF Delivers
<1>7. Delivers(r, lo, to, q[to].seq, s, g)
  BY <1>3, <1>4, <1>5, <1>6 DEF Delivers
<1> QED BY <1>2, <1>7 DEF Keeps

\* The first slot is received: its message is the next of those sent.
LEMMA KeepsReceived ==
  ASSUME NEW q, NEW r, NEW lo \in Nat, NEW to \in Nat, NEW nx \in Nat, lo < to,
         NEW s \in Seq(Nat \X Nat), NEW g \in Seq(Nat), Keeps(q, lo, to, nx, s, g),
         \A c \in Nat : lo <= c /\ c < to => q[c].seq \in Nat,
         \A c \in Nat : lo < c /\ c < to => r[c] = q[c],
         q[lo].state # "WRITING", q[lo].msg \in Nat
  PROVE  Keeps(r, lo + 1, to, nx, s, Append(g, q[lo].msg))
<1>o. Ordered(q, lo, to, nx) /\ Delivers(q, lo, to, nx, s, g)
  BY DEF Keeps
<1>t. \A c \in Nat : lo + 1 <= c <=> lo < c
  OBVIOUS
<1>1. \A j \in 1 .. Len(s) : s[j][1] \in Nat
  <2>1. \A j \in 1 .. Len(s) : s[j] \in Nat \X Nat
    BY ElementOfSeq
  <2> QED BY <2>1
<1>n. PICK n \in Nat, k \in Nat : n = Len(s) /\ k = Len(g)
  BY LenProperties
<1>k. k <= n /\ \A j, i \in 1 .. n : j < i => s[j][1] < s[i][1]
  BY <1>n, <1>o DEF Delivers
<1>2. PICK first \in k + 1 .. n : s[first] = <<q[lo].seq, q[lo].msg>>
  <2>1. lo <= lo
    OBVIOUS
  <2> QED BY <1>n, <1>o, <2>1 DEF Delivers
<1>3. first = k + 1
  <2>1. SUFFICES ASSUME first # k + 1 PROVE FALSE
    OBVIOUS
  <2>2. k + 1 \in k + 1 .. n /\ k + 1 \in 1 .. n /\ first \in 1 .. n /\ k + 1 < first
    BY <2>1, <1>k
  <2>3. s[k + 1][1] < q[lo].seq
    BY <1>2, <1>k, <2>2
  <2>4. PICK c \in Nat : lo <= c /\ c < to /\ s[k + 1] = <<q[c].seq, q[c].msg>>
    BY <1>n, <1>o, <2>2 DEF Delivers
  <2>5. c # lo
    <3>1. SUFFICES ASSUME c = lo PROVE FALSE
      OBVIOUS
    <3>2. q[lo].seq < q[lo].seq /\ q[lo].seq \in Nat
      BY <2>3, <2>4, <3>1
    <3> QED BY <3>2
  <2>6. lo < c /\ lo <= lo
    BY <2>4, <2>5
  <2>7. q[lo].seq < q[c].seq
    BY <1>o, <2>4, <2>6 DEF Ordered
  <2>8. q[c].seq < q[lo].seq /\ q[c].seq \in Nat /\ q[lo].seq \in Nat
    BY <2>3, <2>4
  <2> QED BY <2>7, <2>8
<1> DEFINE h == Append(g, q[lo].msg)
<1>h. h \in Seq(Nat) /\ Len(h) = k + 1 /\ h[k + 1] = q[lo].msg /\ \A j \in 1 .. k : h[j] = g[j]
  BY <1>n
<1> HIDE DEF h
<1>f. s[k + 1] = <<q[lo].seq, q[lo].msg>> /\ k + 1 \in 1 .. n /\ k + 1 <= n
  BY <1>2, <1>3
<1>4. Ordered(r, lo + 1, to, nx)
  <2>1. ASSUME NEW c \in Nat, lo < c, c < to
        PROVE  r[c].state # "FREE" /\ r[c].seq < nx
    <3>1. lo <= c
      BY <2>1
    <3> QED BY <1>o, <2>1, <3>1 DEF Ordered
  <2>2. ASSUME NEW c \in Nat, NEW d \in Nat, lo < c, c < d, d < to
        PROVE  r[c].seq < r[d].seq
    <3>1. c < to /\ lo <= c /\ lo < d
      BY <2>2
    <3>2. q[c].seq < q[d].seq
      BY <1>o, <2>2, <3>1 DEF Ordered
    <3> QED BY <2>2, <3>1, <3>2
  <2> QED BY <1>t, <2>1, <2>2 DEF Ordered
<1>5. ASSUME NEW j \in 1 .. k + 1
      PROVE  /\ h[j] = s[j][2] /\ s[j][1] < nx
             /\ \A c \in Nat : lo < c /\ c < to => s[j][1] < r[c].seq
  <2>l. \A c \in Nat : lo < c => lo <= c
    OBVIOUS
  <2>1. CASE j \in 1 .. k
    <3>1. j \in 1 .. Len(g)
      BY <2>1, <1>n
    <3>2. g[j] = s[j][2] /\ s[j][1] < nx
      BY <1>o, <3>1 DEF Delivers
    <3>3. \A c \in Nat : lo <= c /\ c < to => s[j][1] < q[c].seq
      BY <1>o, <3>1 DEF Delivers
    <3> QED BY <1>h, <2>1, <2>l, <3>2, <3>3
  <2>2. CASE j = k + 1
    <3>1. q[lo].seq < nx /\ \A c \in Nat : lo < c /\ c < to => q[lo].seq < q[c].seq
      <4>1. lo <= lo
        OBVIOUS
      <4> QED BY <1>o, <4>1 DEF Ordered
    <3>2. s[j][1] = q[lo].seq /\ s[j][2] = q[lo].msg
      <4>1. s[j] = <<q[lo].seq, q[lo].msg>>
        BY <1>f, <2>2
      <4> QED BY <4>1
    <3>3. h[j] = q[lo].msg
      BY <1>h, <2>2
    <3>4. \A c \in Nat : lo < c /\ c < to => s[j][1] < r[c].seq
      <4>1. SUFFICES ASSUME NEW c \in Nat, lo < c, c < to PROVE s[j][1] < r[c].seq
        OBVIOUS
      <4>2. r[c] = q[c] /\ q[lo].seq < q[c].seq
        BY <3>1, <4>1
      <4> QED BY <3>2, <4>2
    <3> QED BY <3>1, <3>2, <3>3, <3>4
  <2>3. j \in 1 .. k \/ j = k + 1
    OBVIOUS
  <2> QED BY <2>1, <2>2, <2>3
<1>6. ASSUME NEW j \in (k + 1) + 1 .. n
      PROVE  \E c \in Nat : /\ lo < c /\ c < to /\ r[c].state # "WRITING"
                            /\ s[j] = <<r[c].seq, r[c].msg>>
  <2>1. j \in k + 1 .. n /\ j \in 1 .. n /\ k + 1 < j
    OBVIOUS
  <2>2. PICK c \in Nat : /\ lo <= c /\ c < to /\ q[c].state # "WRITING"
                         /\ s[j] = <<q[c].seq, q[c].msg>>
    BY <1>n, <1>o, <2>1 DEF Delivers
  <2>3. s[k + 1][1] < s[j][1]
    BY <1>f, <1>k, <2>1
  <2>4. c # lo
    <3>1. SUFFICES ASSUME c = lo PROVE FALSE
      OBVIOUS
    <3>2. q[lo].seq < q[lo].seq /\ q[lo].seq \in Nat
      BY <1>f, <2>2, <2>3, <3>1
    <3> QED BY <3>2
  <2>5. lo < c
    BY <2>2, <2>4
  <2> QED BY <2>2, <2>5
<1>7. ASSUME NEW c \in Nat, lo < c, c < to, r[c].state # "WRITING"
      PROVE  \E j \in (k + 1) + 1 .. n : s[j] = <<r[c].seq, r[c].msg>>
  <2>1. r[c] = q[c] /\ lo <= c
    BY <1>7
  <2>2. PICK j \in k + 1 .. n : s[j] = <<q[c].seq, q[c].msg>>
    BY <1>7, <1>n, <1>o, <2>1 DEF Delivers
  <2>3. q[lo].seq < q[c].seq /\ q[lo].seq \in Nat
    <3>1. lo <= lo
      OBVIOUS
    <3> QED BY <1>7, <1>o, <3>1 DEF Ordered
  <2>4. j # k + 1
    <3>1. SUFFICES ASSUME j = k + 1 PROVE FALSE
      OBVIOUS
    <3>2. q[lo].seq = q[c].seq
      BY <1>f, <2>2, <3>1
    <3> QED BY <2>3, <3>2
  <2>5. j \in (k + 1) + 1 .. n
    BY <2>4
  <2> QED BY <2>1, <2>2, <2>5
<1>8. Delivers(r, lo + 1, to, nx, s, h)
  <2>1. \A c \in Nat : lo + 1 <= c /\ c < to => lo < c
    BY <1>t
  <2>2. \A c \in Nat : lo < c => lo + 1 <= c
    BY <1>t
  <2>3. \A j, i \in 1 .. Len(s) : j < i => s[j][1] < s[i][1]
    BY <1>k, <1>n
  <2>4. Len(h) <= Len(s)
    BY <1>f, <1>h, <1>n
  <2>5. \A j \in 1 .. Len(h) :
           /\ h[j] = s[j][2] /\ s[j][1] < nx
           /\ \A c \in Nat : lo + 1 <= c /\ c < to => s[j][1] < r[c].seq
    BY <1>5, <1>h, <2>1
  <2>6. \A j \in Len(h) + 1 .. Len(s) :
           \E c \in Nat : /\ lo + 1 <= c /\ c < to /\ r[c].state # "WRITING"
                          /\ s[j] = <<r[c].seq, r[c].msg>>
    BY <1>6, <1>h, <1>n, <2>2
  <2>7. \A c \in Nat : lo + 1 <= c /\ c < to /\ r[c].state # "WRITING" =>
           \E j \in Len(h) + 1 .. Len(s) : s[j] = <<r[c].seq, r[c].msg>>
    BY <1>7, <1>h, <1>n, <2>1
  <2> QED BY <2>3, <2>4, <2>5, <2>6, <2>7 DEF Delivers
<1> QED BY <1>4, <1>8 DEF Keeps, h

\* A slot that is being written has no message among those sent.
Unsent(s, n) == \A j \in 1 .. Len(s) : s[j][1] # n

LEMMA NotSent ==
  ASSUME NEW q, NEW lo \in Nat, NEW to \in Nat, NEW nx \in Nat,
         NEW s, Len(s) \in Nat, NEW g, Len(g) \in Nat, Keeps(q, lo, to, nx, s, g),
         \A c \in Nat : lo <= c /\ c < to => q[c].seq \in Nat,
         NEW a \in Nat, lo <= a, a < to, q[a].state = "WRITING"
  PROVE  Unsent(s, q[a].seq)
<1>o. Ordered(q, lo, to, nx) /\ Delivers(q, lo, to, nx, s, g)
  BY DEF Keeps
<1>n. PICK n \in Nat, k \in Nat : n = Len(s) /\ k = Len(g)
  OBVIOUS
<1>1. SUFFICES ASSUME NEW j \in 1 .. n, s[j][1] = q[a].seq PROVE FALSE
  BY <1>n DEF Unsent
<1>2. q[a].seq \in Nat
  OBVIOUS
<1>3. CASE j <= k
  <2>1. j \in 1 .. k
    BY <1>3
  <2>2. s[j][1] < q[a].seq
    BY <1>n, <1>o, <2>1 DEF Delivers
  <2> QED BY <1>1, <1>2, <2>2
<1>4. CASE k < j
  <2>1. j \in k + 1 .. n
    BY <1>4
  <2>2. PICK c \in Nat : /\ lo <= c /\ c < to /\ q[c].state # "WRITING"
                         /\ s[j] = <<q[c].seq, q[c].msg>>
    BY <1>n, <1>o, <2>1 DEF Delivers
  <2>3. q[c].seq = q[a].seq
    BY <1>1, <2>2
  <2>4. c < a \/ a < c
    BY <2>2
  <2>5. q[c].seq < q[a].seq \/ q[a].seq < q[c].seq
    BY <1>o, <2>2, <2>4 DEF Ordered
  <2> QED BY <1>2, <2>3, <2>5
<1> QED BY <1>3, <1>4

\* A slot is written: its message has its place.
LEMMA KeepsFilled ==
  ASSUME NEW q, NEW r, NEW lo \in Nat, NEW to \in Nat, NEW nx \in Nat,
         NEW s \in Seq(Nat \X Nat), NEW g \in Seq(Nat), Keeps(q, lo, to, nx, s, g),
         \A c \in Nat : lo <= c /\ c < to => q[c].seq \in Nat,
         NEW a \in Nat, lo <= a, a < to, q[a].state = "WRITING",
         NEW m \in Nat, r[a].state \notin {"WRITING", "FREE"}, r[a].seq = q[a].seq, r[a].msg = m,
         \A c \in Nat : lo <= c /\ c < to /\ c # a => r[c] = q[c],
         NEW w, NEW p \in 0 .. Len(s), Len(w) = Len(s) + 1,
         \A j \in 1 .. p : w[j] = s[j] /\ s[j][1] < q[a].seq,
         w[p + 1] = <<q[a].seq, m>>,
         \A j \in p + 1 .. Len(s) : w[j + 1] = s[j] /\ q[a].seq < s[j][1]
  PROVE  Keeps(r, lo, to, nx, w, g)
<1>o. Ordered(q, lo, to, nx) /\ Delivers(q, lo, to, nx, s, g)
  BY DEF Keeps
<1>1. \A j \in 1 .. Len(s) : s[j][1] \in Nat
  <2>1. \A j \in 1 .. Len(s) : s[j] \in Nat \X Nat
    BY ElementOfSeq
  <2> QED BY <2>1
<1>n. PICK n \in Nat, k \in Nat : n = Len(s) /\ k = Len(g)
  BY LenProperties
<1>p. p \in Nat /\ p <= n
  BY <1>n
<1>k. k <= n /\ \A j, i \in 1 .. n : j < i => s[j][1] < s[i][1]
  BY <1>n, <1>o DEF Delivers
<1>s. \A j \in 1 .. p : w[j] = s[j] /\ s[j][1] < q[a].seq
  OBVIOUS
<1>l. \A j \in p + 1 .. n : w[j + 1] = s[j] /\ q[a].seq < s[j][1]
  BY <1>n
<1>v. w[p + 1][1] = q[a].seq /\ q[a].seq \in Nat
  OBVIOUS
<1>2. k <= p
  <2>1. SUFFICES ASSUME p < k PROVE FALSE
    BY <1>n, <1>p
  <2>2. p + 1 \in 1 .. k /\ p + 1 \in p + 1 .. n /\ p + 1 \in 1 .. n
    BY <1>k, <1>p, <2>1
  <2>3. s[p + 1][1] < q[a].seq
    BY <1>n, <1>o, <2>2 DEF Delivers
  <2>4. q[a].seq < s[p + 1][1]
    BY <1>l, <2>2
  <2>5. s[p + 1][1] \in Nat
    BY <1>1, <1>n, <2>2
  <2>6. PICK x \in Nat, y \in Nat : x = s[p + 1][1] /\ y = q[a].seq
    BY <1>v, <2>5
  <2>7. x < y /\ y < x
    BY <2>3, <2>4, <2>6
  <2> QED BY <2>7
<1>c. \A j \in 1 .. n + 1 : j \in 1 .. p \/ j = p + 1 \/ \E i \in p + 1 .. n : j = i + 1
  <2>1. SUFFICES ASSUME NEW j \in 1 .. n + 1, ~ (j \in 1 .. p), j # p + 1
                 PROVE  \E i \in p + 1 .. n : j = i + 1
    OBVIOUS
  <2>2. j - 1 \in p + 1 .. n /\ j = (j - 1) + 1
    BY <1>p, <2>1
  <2> QED BY <2>2
<1>3. ASSUME NEW j \in 1 .. n + 1, NEW i \in 1 .. n + 1, j < i
      PROVE  w[j][1] < w[i][1]
  <2>1. CASE i \in 1 .. p
    <3>1. j \in 1 .. p /\ j \in 1 .. n /\ i \in 1 .. n
      BY <1>3, <1>p, <2>1
    <3> QED BY <1>3, <1>k, <1>s, <2>1, <3>1
  <2>2. CASE i = p + 1
    <3>1. j \in 1 .. p
      BY <1>3, <1>p, <2>2
    <3> QED BY <1>s, <1>v, <2>2, <3>1
  <2>3. CASE \E b \in p + 1 .. n : i = b + 1
    <3>1. PICK b \in p + 1 .. n : i = b + 1
      BY <2>3
    <3>2. w[i] = s[b] /\ q[a].seq < s[b][1] /\ b \in 1 .. n
      BY <1>l, <1>p, <3>1
    <3>3. CASE j \in 1 .. p
      <4>1. j < b /\ j \in 1 .. n
        BY <1>p, <3>1, <3>3
      <4> QED BY <1>k, <1>s, <3>2, <3>3, <4>1
    <3>4. CASE j = p + 1
      BY <1>v, <3>2, <3>4
    <3>5. CASE \E d \in p + 1 .. n : j = d + 1
      <4>1. PICK d \in p + 1 .. n : j = d + 1
        BY <3>5
      <4>2. d < b /\ d \in 1 .. n /\ w[j] = s[d]
        BY <1>3, <1>l, <1>p, <3>1, <4>1
      <4> QED BY <1>k, <3>2, <4>2
    <3> QED BY <1>c, <3>3, <3>4, <3>5
  <2> QED BY <1>c, <2>1, <2>2, <2>3
<1>r. \A c \in Nat : lo <= c /\ c < to => r[c].seq = q[c].seq /\ r[c].state # "FREE"
  <2>1. SUFFICES ASSUME NEW c \in Nat, lo <= c, c < to
                 PROVE  r[c].seq = q[c].seq /\ r[c].state # "FREE"
    OBVIOUS
  <2>2. CASE c = a
    BY <2>2
  <2>3. CASE c # a
    <3>1. r[c] = q[c]
      BY <2>1, <2>3
    <3> QED BY <1>o, <2>1, <3>1 DEF Ordered
  <2> QED BY <2>2, <2>3
<1>4. Ordered(r, lo, to, nx)
  <2>1. \A c \in Nat : lo <= c /\ c < to => r[c].state # "FREE" /\ r[c].seq < nx
    BY <1>o, <1>r DEF Ordered
  <2>2. ASSUME NEW c \in Nat, NEW d \in Nat, lo <= c, c < d, d < to PROVE r[c].seq < r[d].seq
    <3>1. c < to /\ lo <= d
      BY <2>2
    <3>2. q[c].seq < q[d].seq
      BY <1>o, <2>2 DEF Ordered
    <3> QED BY <1>r, <2>2, <3>1, <3>2
  <2> QED BY <2>1, <2>2 DEF Ordered
<1>5. ASSUME NEW j \in 1 .. k
      PROVE  /\ g[j] = w[j][2] /\ w[j][1] < nx
             /\ \A c \in Nat : lo <= c /\ c < to => w[j][1] < r[c].seq
  <2>1. j \in 1 .. p /\ j \in 1 .. Len(g)
    BY <1>2, <1>n, <1>p
  <2>2. w[j] = s[j]
    BY <1>s, <2>1
  <2>3. /\ g[j] = s[j][2] /\ s[j][1] < nx
        /\ \A c \in Nat : lo <= c /\ c < to => s[j][1] < q[c].seq
    BY <1>o, <2>1 DEF Delivers
  <2> QED BY <1>r, <2>2, <2>3
<1>6. ASSUME NEW i \in k + 1 .. n
      PROVE  \E c \in Nat : /\ lo <= c /\ c < to /\ r[c].state # "WRITING"
                            /\ s[i] = <<r[c].seq, r[c].msg>>
  <2>1. PICK c \in Nat : /\ lo <= c /\ c < to /\ q[c].state # "WRITING"
                         /\ s[i] = <<q[c].seq, q[c].msg>>
    BY <1>n, <1>o DEF Delivers
  <2>2. c # a
    BY <2>1
  <2> QED BY <2>1, <2>2
<1>7. ASSUME NEW j \in k + 1 .. n + 1
      PROVE  \E c \in Nat : /\ lo <= c /\ c < to /\ r[c].state # "WRITING"
                            /\ w[j] = <<r[c].seq, r[c].msg>>
  <2>0. j \in 1 .. n + 1
    OBVIOUS
  <2>1. CASE j \in 1 .. p
    <3>1. j \in k + 1 .. n
      BY <1>p, <2>1
    <3> QED BY <1>6, <1>s, <2>1, <3>1
  <2>2. CASE j = p + 1
    BY <2>2
  <2>3. CASE \E i \in p + 1 .. n : j = i + 1
    <3>1. PICK i \in p + 1 .. n : j = i + 1
      BY <2>3
    <3>2. w[j] = s[i] /\ i \in k + 1 .. n
      BY <1>2, <1>l, <1>p, <3>1
    <3> QED BY <1>6, <3>2
  <2> QED BY <1>c, <2>0, <2>1, <2>2, <2>3
<1>8. ASSUME NEW c \in Nat, lo <= c, c < to, r[c].state # "WRITING"
      PROVE  \E j \in k + 1 .. n + 1 : w[j] = <<r[c].seq, r[c].msg>>
  <2>1. CASE c = a
    <3>1. p + 1 \in k + 1 .. n + 1
      BY <1>2, <1>p
    <3> QED BY <2>1, <3>1
  <2>2. CASE c # a
    <3>1. r[c] = q[c]
      BY <1>8, <2>2
    <3>2. PICK j \in k + 1 .. n : s[j] = <<q[c].seq, q[c].msg>>
      BY <1>8, <1>n, <1>o, <3>1 DEF Delivers
    <3>3. CASE j <= p
      <4>1. j \in 1 .. p /\ j \in k + 1 .. n + 1
        BY <1>p, <3>3
      <4> QED BY <1>s, <3>1, <3>2, <4>1
    <3>4. CASE p < j
      <4>1. j \in p + 1 .. n /\ j + 1 \in k + 1 .. n + 1
        BY <1>p, <3>4
      <4>2. w[j + 1] = s[j]
        BY <1>l, <4>1
      <4> QED BY <3>1, <3>2, <4>1, <4>2
    <3>5. j \in Nat
      OBVIOUS
    <3>6. j <= p \/ p < j
      BY <1>p, <3>5
    <3> QED BY <3>3, <3>4, <3>6
  <2> QED BY <2>1, <2>2
<1>9. Delivers(r, lo, to, nx, w, g)
  <2>1. Len(w) = n + 1 /\ Len(g) = k /\ k <= n + 1
    BY <1>k, <1>n
  <2> QED BY <1>3, <1>5, <1>7, <1>8, <2>1 DEF Delivers
<1> QED BY <1>4, <1>9 DEF Keeps

-----------------------------------------------------------------------------
(* Whose the pinned slots are                                              *)

\* A consumer's views, and the slot it makes a view of, carry its number.
Stamping == {"lower", "cas", "keep"}
Owners ==
  /\ cons.inc # 0
  /\ \A v \in views : slots[Idx(v)].owner = cons.inc
  /\ cons.pc \in Stamping => slots[Idx(cons.t)].owner = cons.inc

\* The producer touches no slot that is to be read, or is read.
LEMMA ReadKept ==
  ASSUME Ring, Produces
  PROVE  \A i \in 0 .. Cap - 1 : slots[i].state \in {"COMMITTED", "PINNED"} => slots'[i] = slots[i]
<1>1. slots \in [0 .. Cap - 1 -> SlotSet]
  BY Facts DEF Ring, IInv
<1>2. CASE Rests
  BY <1>2 DEF Rests
<1>3. CASE Reserves
  BY <1>1, <1>3 DEF Reserves
<1>4. CASE Fills
  BY <1>1, <1>4 DEF Fills
<1>5. CASE Withdraws
  BY <1>1, <1>5 DEF Withdraws
<1> QED BY <1>2, <1>3, <1>4, <1>5 DEF Produces

LEMMA OwnersInit == Init => Owners
  BY DEF Init, Owners, Consumer, Stamping

LEMMA OwnersReading ==
  ASSUME Ring, Owners, ConsumerStep \/ ConsDie
  PROVE  Owners'
<1>f. /\ cons \in ConsumerSet /\ slots \in [0 .. Cap - 1 -> SlotSet] /\ cons.t \in Nat
      /\ Idx(cons.t) \in 0 .. Cap - 1 /\ cons.inc \in Nat
  <2>1. cons.t \in Nat
    BY Fields DEF Ring, IInv
  <2> QED BY <2>1, Facts, Fields DEF Ring, IInv
<1>v. ViewsKept
  BY HeldConsumer DEF Ring
<1>a. \A v \in views \cap views' : slots'[Idx(v)].owner = cons.inc
  BY <1>v DEF ViewsKept, Owners
<1>e. \A c : RecvEnds(c) => cons'.pc = "idle" /\ cons'.inc = cons.inc
  BY DEF RecvEnds, Consumer
<1>s. ASSUME cons'.inc = cons.inc, cons'.pc \notin Stamping, views' \subseteq views
      PROVE  Owners'
  BY <1>a, <1>s DEF Owners
<1>1. CASE \E op \in {"view", "recv"} : RecvBegin(op)
  BY <1>1, <1>f, <1>s DEF RecvBegin, ConsumerSet, Stamping
<1>2. CASE Gate
  <2>1. cons'.pc \in {"idle", "pin", "take"} /\ cons'.inc = cons.inc /\ views' = views
    BY <1>2, <1>e, <1>f DEF Gate, Move, ConsumerSet
  <2> QED BY <1>s, <2>1 DEF Stamping
<1>3. CASE PinSlot
  BY <1>3, <1>f, <1>s DEF PinSlot, Move, ConsumerSet, Stamping
<1>4. CASE StampSlot
  <2>1. /\ cons' = [cons EXCEPT !.pc = "lower"] /\ views' = views
        /\ slots' = [slots EXCEPT ![Idx(cons.t)].owner = cons.inc]
    BY <1>4 DEF StampSlot, Move
  <2>2. cons'.inc = cons.inc /\ cons'.t = cons.t
    BY <1>f, <2>1 DEF ConsumerSet
  <2>3. slots[Idx(cons.t)] \in SlotSet
    BY <1>f
  <2>4. slots'[Idx(cons.t)].owner = cons.inc
    BY <1>f, <2>1, <2>3 DEF SlotSet
  <2> QED BY <1>a, <2>1, <2>2, <2>4 DEF Owners
<1>5. CASE LoadFloor \/ LowerFloor
  <2>1. /\ cons'.inc = cons.inc /\ cons'.t = cons.t /\ UNCHANGED <<slots, views>>
    BY <1>5, <1>f DEF LoadFloor, LowerFloor, Move, TryAgain, ConsumerSet
  <2>2. cons.pc \in Stamping
    BY <1>5 DEF LoadFloor, LowerFloor, ConsAt, Stamping
  <2> QED BY <2>1, <2>2 DEF Owners
<1>6. CASE KeepPinned
  <2>1. /\ cons.pc \in Stamping /\ views' = views \cup {cons.t} /\ UNCHANGED slots
        /\ cons'.pc = "idle" /\ cons'.inc = cons.inc
    BY <1>6, <1>e DEF KeepPinned, ConsAt, Stamping
  <2> QED BY <2>1 DEF Owners, Stamping
<1>7. CASE TakeSlot
  <2>1. cons'.pc \in {"idle", "free"} /\ cons'.inc = cons.inc /\ views' = views
    BY <1>7, <1>e, <1>f DEF TakeSlot, Adopted, ConsumerSet
  <2> QED BY <1>s, <2>1 DEF Stamping
<1>8. CASE FreeTail
  BY <1>8, <1>f, <1>s DEF FreeTail, Move, ConsumerSet, Stamping
<1>9. CASE AdvanceTail
  BY <1>9, <1>e, <1>s DEF AdvanceTail, Stamping
<1>10. CASE ConsOpen
  <2>1. views' = views /\ views = {} /\ cons'.pc = "rescan" /\ cons'.inc = cons.inc + 1
    BY <1>10, <1>f DEF ConsOpen, ConsAt, Ring, IInv, ViewInv, ConsumerSet
  <2>2. cons.inc + 1 # 0
    BY <1>f
  <2> QED BY <2>1, <2>2 DEF Owners, Stamping
<1>11. CASE ConsRescan
  <2>1. cons'.pc = "idle" /\ cons'.inc = cons.inc /\ views' = views
    BY <1>11, <1>e DEF ConsRescan
  <2> QED BY <1>s, <2>1 DEF Stamping
<1>12. CASE ConsDie
  BY <1>12, <1>s DEF ConsDie, Consumer, Stamping
<1> QED
  BY <1>1, <1>2, <1>3, <1>4, <1>5, <1>6, <1>7, <1>8, <1>9, <1>10, <1>11, <1>12 DEF ConsumerStep

LEMMA OwnersNext == Ring /\ Owners /\ [Next]_vars => Owners'
<1> SUFFICES ASSUME Ring, Owners, [Next]_vars PROVE Owners'
  OBVIOUS
<1>f. /\ slots \in [0 .. Cap - 1 -> SlotSet] /\ cons.t \in Nat /\ Idx(cons.t) \in 0 .. Cap - 1
      /\ \A v \in views : Idx(v) \in 0 .. Cap - 1
  <2>1. cons.t \in Nat
    BY Fields DEF Ring, IInv
  <2> QED BY <2>1, Facts, Fields DEF Ring, IInv
<1>p. /\ \A v \in views : slots[Idx(v)].state = "PINNED"
      /\ cons.pc \in Stamping => /\ slots[Idx(cons.t)].state = "PINNED"
                                 /\ \A v \in views : Idx(v) # Idx(cons.t)
      /\ cons.pc = "dead" => views = {}
  BY DEF Ring, IInv, ViewInv, Stamping
<1>v. ViewsKept
  BY HeldNext DEF Ring
<1>1. CASE (\E op \in {"send", "alloc"} : GuardLoad(op)) \/ ProducerStep \/ LeaseEnds
  <2>1. Produces
    BY <1>1, Kinds
  <2>2. UNCHANGED <<cons, views>>
    BY <2>1 DEF Produces
  <2> QED BY <1>f, <1>p, <2>1, <2>2, ReadKept DEF Owners
<1>2. CASE ConsumerStep \/ ConsDie
  BY <1>2, OwnersReading
<1>3. CASE \E c \in views : Release(c)
  <2>1. PICK c \in views : slots' = [slots EXCEPT ![Idx(c)] = FreeSlot] /\ views' = views \ {c}
                           /\ UNCHANGED cons
    BY <1>3 DEF Release, SetSlot
  <2>2. cons.pc \in Stamping => slots'[Idx(cons.t)] = slots[Idx(cons.t)]
    BY <1>f, <1>p, <2>1
  <2> QED BY <1>v, <2>1, <2>2 DEF Owners, ViewsKept
<1>4. CASE UnpinEntry \/ UnpinScan \/ UnpinRaise
  BY <1>4 DEF UnpinEntry, UnpinScan, UnpinRaise, Owners
<1>5. CASE ReclaimStale
  <2>1. UNCHANGED <<cons, views>> /\ cons.pc = "dead"
    BY <1>5 DEF ReclaimStale
  <2> QED BY <1>p, <2>1 DEF Owners, Stamping
<1>6. CASE UNCHANGED vars
  BY <1>6 DEF vars, Owners
<1> QED BY <1>1, <1>2, <1>3, <1>4, <1>5, <1>6 DEF Next, ReleaseStep

-----------------------------------------------------------------------------
(* Messages are received in the order of their slots                       *)

\* While no number is spent, the numbers are the cursors.
Counted(q, lo, to, nx) == nx = to /\ \A c \in Nat : lo <= c /\ c < to => q[c].seq = c

InOrder ==
  /\ Top <= Low + Cap
  /\ cons.pc = "free" => Top <= tail + Cap
  /\ \A c \in Nat : Low <= c /\ c < Top =>
       slots[Idx(c)].owner = 0 \/ (cons.pc \in Stamping /\ c = cons.t)
  /\ Keeps(Queue, Low, Top, Nxt, sent, got)
  /\ "spent" \notin met => Counted(Queue, Low, Top, Nxt)

LEMMA QueueFacts ==
  ASSUME Ring
  PROVE  /\ Top \in Nat /\ Low \in Nat /\ tail \in Nat /\ Nxt \in Nat /\ Cap \in Nat \ {0}
         /\ tail <= Low /\ Low <= tail + 1 /\ Low <= Top
         /\ \A c \in Nat : /\ Idx(c) \in 0 .. Cap - 1 /\ Queue[c] = slots[Idx(c)]
                           /\ slots[Idx(c)] \in SlotSet
                           /\ slots[Idx(c)].seq \in Nat /\ slots[Idx(c)].msg \in Nat
         /\ sent \in Seq(Nat \X Nat) /\ got \in Seq(Nat)
<1>1. /\ Top \in Nat /\ Low \in Nat /\ tail \in Nat /\ Nxt \in Nat /\ Cap \in Nat \ {0}
      /\ tail <= Low /\ Low <= tail + 1 /\ Low <= Top
      /\ sent \in Seq(Nat \X Nat) /\ got \in Seq(Nat)
  BY TopFacts, Fields, Facts, CapAssumption DEF Ring, IInv, Placed, Behind
<1>2. slots \in [0 .. Cap - 1 -> SlotSet] /\ \A c \in Nat : Idx(c) \in 0 .. Cap - 1
  BY Fields, Facts DEF Ring, IInv
<1>3. \A c \in Nat : slots[Idx(c)] \in SlotSet
  BY <1>2
<1>4. \A x \in SlotSet : x.seq \in Nat /\ x.msg \in Nat
  BY DEF SlotSet
<1>5. \A c \in Nat : Queue[c] = slots[Idx(c)]
  BY DEF Queue
<1> QED BY <1>1, <1>2, <1>3, <1>4, <1>5

LEMMA NxtIn == Ring => Nxt \in Nat
  BY QueueFacts

LEMMA NxtNext == (Ring => Nxt \in Nat)'
  BY NxtIn, PTL

\* Different cursor values that wait are different slots.
LEMMA WaitingApart ==
  ASSUME NEW lo \in Nat, NEW to \in Nat, to <= lo + Cap, NEW c \in Nat, NEW d \in Nat,
         lo <= c, c < to, lo <= d, d < to, c # d
  PROVE  Idx(c) # Idx(d)
<1>f. Cap \in Nat
  BY CapAssumption
<1>1. CASE c < d
  <2>1. d < c + Cap
    BY <1>f
  <2> QED BY <1>1, <2>1, Lap
<1>2. CASE d < c
  <2>1. c < d + Cap
    BY <1>f
  <2> QED BY <1>2, <2>1, Lap
<1> QED BY <1>1, <1>2

\* Nothing that waits changes, but for the state of what is read.
LEMMA OrderSame ==
  ASSUME Ring, InOrder, Ring', Low' = Low, Top' = Top, UNCHANGED <<sent, got>>, Nxt <= Nxt',
         "spent" \notin met' => "spent" \notin met /\ Nxt' = Nxt,
         cons'.pc = "free" => Top <= tail' + Cap,
         \A c \in Nat : Low <= c /\ c < Top =>
           /\ slots'[Idx(c)].seq = slots[Idx(c)].seq /\ slots'[Idx(c)].msg = slots[Idx(c)].msg
           /\ slots'[Idx(c)].state # "FREE"
           /\ slots'[Idx(c)].state = "WRITING" <=> slots[Idx(c)].state = "WRITING"
           /\ slots'[Idx(c)].owner = 0 \/ (cons'.pc \in Stamping /\ c = cons'.t)
  PROVE  InOrder'
<1>f. /\ Top \in Nat /\ Low \in Nat /\ Nxt \in Nat
      /\ \A c \in Nat : Queue[c] = slots[Idx(c)] /\ slots[Idx(c)].seq \in Nat
      /\ sent \in Seq(Nat \X Nat) /\ got \in Seq(Nat)
  BY QueueFacts
<1>g. Nxt' \in Nat
  BY NxtNext
<1>q. \A c \in Nat : Queue'[c] = slots'[Idx(c)]
  BY DEF Queue
<1>1. PICK lo \in Nat, to \in Nat, nx \in Nat, ny \in Nat :
        lo = Low /\ to = Top /\ nx = Nxt /\ ny = Nxt'
  BY <1>f, <1>g
<1>r. PICK q, r : q = Queue /\ r = Queue'
  OBVIOUS
<1>w. \A c \in Nat : q[c] = slots[Idx(c)] /\ r[c] = slots'[Idx(c)]
  BY <1>f, <1>q, <1>r
<1>2. Keeps(q, lo, to, nx, sent, got)
  BY <1>1, <1>r DEF InOrder
<1>3. SameWaiting(q, r, lo, to)
  <2>1. SUFFICES ASSUME NEW c \in Nat, Low <= c, c < Top
                 PROVE  /\ slots[Idx(c)].seq \in Nat
                        /\ slots'[Idx(c)].seq = slots[Idx(c)].seq
                        /\ slots'[Idx(c)].msg = slots[Idx(c)].msg
                        /\ slots'[Idx(c)].state # "FREE"
                        /\ (slots'[Idx(c)].state = "WRITING" <=> slots[Idx(c)].state = "WRITING")
    BY <1>1, <1>w DEF SameWaiting
  <2> QED BY <1>f, <2>1
<1>4. Keeps(r, lo, to, ny, sent, got)
  <2>1. sent \in Seq(Nat \X Nat) /\ got \in Seq(Nat) /\ nx <= ny
    BY <1>1, <1>f
  <2> QED BY <1>2, <1>3, <2>1, KeepsSame
<1>5. Keeps(Queue', Low', Top', Nxt', sent', got')
  BY <1>1, <1>4, <1>r
<1>6. Top <= Low + Cap
  BY DEF InOrder
<1>7. ASSUME "spent" \notin met' PROVE Counted(Queue', Low', Top', Nxt')
  <2>1. Counted(q, lo, to, nx) /\ nx = ny
    BY <1>1, <1>7, <1>r DEF InOrder
  <2>2. Counted(r, lo, to, ny)
    BY <1>3, <2>1 DEF Counted, SameWaiting
  <2> QED BY <1>1, <1>r, <2>2
<1> QED BY <1>5, <1>6, <1>7 DEF InOrder

\* A reservation is put behind everything that waits.
LEMMA OrderReserves ==
  ASSUME Ring, InOrder, Reserves, UNCHANGED <<tail, cons, got, met>>
  PROVE  InOrder'
<1>f. /\ Top \in Nat /\ Low \in Nat /\ Nxt \in Nat /\ tail \in Nat /\ Cap \in Nat \ {0} /\ Low <= Top
      /\ \A c \in Nat : Queue[c] = slots[Idx(c)] /\ slots[Idx(c)].seq \in Nat
                        /\ Idx(c) \in 0 .. Cap - 1
      /\ sent \in Seq(Nat \X Nat) /\ got \in Seq(Nat)
  BY QueueFacts
<1>g. slots \in [0 .. Cap - 1 -> SlotSet]
  BY Facts DEF Ring, IInv
<1>x. PICK x \in SlotSet :
        /\ slots[Idx(Top)].state = "FREE" /\ slots' = [slots EXCEPT ![Idx(Top)] = x]
        /\ x.state = "WRITING" /\ x.owner = 0 /\ x.seq = Nxt
        /\ Top' = Top + 1 /\ Nxt' = Nxt + 1 /\ sent' = sent
  BY DEF Reserves
<1>l. Low' = Low
  BY DEF Low
<1>k. Keeps(Queue, Low, Top, Nxt, sent, got) /\ Top <= Low + Cap
  BY DEF InOrder
<1>1. PICK lo \in Nat, to \in Nat, nx \in Nat, b \in Nat :
        lo = Low /\ to = Top /\ nx = Nxt /\ b = tail
  BY <1>f
<1>2. to < lo + Cap
  <2>1. SUFFICES ASSUME to = lo + Cap PROVE FALSE
    <3>1. to <= lo + Cap
      BY <1>1, <1>k
    <3> QED BY <1>f, <3>1
  <2>2. lo <= lo /\ lo < to
    BY <1>f, <2>1
  <2>3. Idx(to) = Idx(lo)
    BY <2>1, SameSlot
  <2>4. Queue[lo].state # "FREE"
    BY <1>1, <1>k, <2>2 DEF Keeps, Ordered
  <2> QED BY <1>1, <1>f, <1>x, <2>3, <2>4
<1>3. cons.pc = "free" => to < b + Cap
  <2>1. SUFFICES ASSUME cons.pc = "free", to = b + Cap PROVE FALSE
    <3>1. cons.pc = "free" => to <= b + Cap
      BY <1>1 DEF InOrder
    <3> QED BY <1>f, <3>1
  <2>2. slots[Idx(cons.t)].state = "PINNED" /\ cons.t = tail
    BY <2>1 DEF Ring, IInv, ViewInv, Behind, Reading
  <2>3. Idx(to) = Idx(b)
    BY <2>1, SameSlot
  <2> QED BY <1>1, <1>x, <2>2, <2>3
<1>4. \A c \in Nat : lo <= c /\ c < to => slots'[Idx(c)] = slots[Idx(c)]
  <2>1. SUFFICES ASSUME NEW c \in Nat, lo <= c, c < to PROVE slots'[Idx(c)] = slots[Idx(c)]
    OBVIOUS
  <2>2. to < c + Cap
    BY <1>2, <1>f, <2>1
  <2>3. Idx(c) # Idx(to)
    BY <2>1, <2>2, Lap
  <2> QED BY <1>1, <1>f, <1>g, <1>x, <2>3
<1>5. slots'[Idx(to)] = x
  BY <1>1, <1>f, <1>g, <1>x
<1>r. PICK q, r : q = Queue /\ r = Queue'
  OBVIOUS
<1>w. \A c \in Nat : q[c] = slots[Idx(c)] /\ r[c] = slots'[Idx(c)]
  <2>1. \A c \in Nat : Queue'[c] = slots'[Idx(c)]
    BY DEF Queue
  <2> QED BY <1>f, <1>r, <2>1
<1>6. Keeps(r, lo, to + 1, nx + 1, sent, got)
  <2>1. \A c \in Nat : lo <= c /\ c < to => r[c] = q[c] /\ q[c].seq \in Nat
    BY <1>4, <1>f, <1>w
  <2>2. r[to].state = "WRITING" /\ r[to].seq = nx
    BY <1>1, <1>5, <1>w, <1>x
  <2>3. Keeps(q, lo, to, nx, sent, got) /\ lo <= to
    BY <1>1, <1>f, <1>k, <1>r
  <2>4. sent \in Seq(Nat \X Nat) /\ got \in Seq(Nat)
    BY <1>f
  <2> QED BY <2>1, <2>2, <2>3, <2>4, KeepsReserved
<1>7. Keeps(Queue', Low', Top', Nxt', sent', got')
  BY <1>1, <1>6, <1>l, <1>r, <1>x
<1>8. \A c \in Nat : lo <= c /\ c < to + 1 =>
        slots'[Idx(c)].owner = 0 \/ (cons.pc \in Stamping /\ c = cons.t)
  <2>1. SUFFICES ASSUME NEW c \in Nat, lo <= c, c < to + 1
                 PROVE  slots'[Idx(c)].owner = 0 \/ (cons.pc \in Stamping /\ c = cons.t)
    OBVIOUS
  <2>2. CASE c < to
    BY <1>1, <1>4, <2>1, <2>2 DEF InOrder
  <2>3. CASE c = to
    BY <1>5, <1>x, <2>3
  <2> QED BY <2>1, <2>2, <2>3
<1>9. to + 1 <= lo + Cap /\ (cons.pc = "free" => to + 1 <= b + Cap)
  BY <1>2, <1>3, <1>f
<1>10. Top' = to + 1 /\ Low' = lo /\ tail' = b /\ cons' = cons
  BY <1>1, <1>l, <1>x
<1>11. ASSUME "spent" \notin met' PROVE Counted(Queue', Low', Top', Nxt')
  <2>1. Counted(q, lo, to, nx)
    BY <1>1, <1>11, <1>r DEF InOrder
  <2>2. Counted(r, lo, to + 1, nx + 1)
    <3>1. \A c \in Nat : c < to + 1 <=> c < to \/ c = to
      BY <1>1
    <3>2. \A c \in Nat : lo <= c /\ c < to => r[c] = q[c]
      BY <1>4, <1>w
    <3>3. r[to].seq = to
      BY <1>1, <1>5, <1>w, <1>x, <2>1 DEF Counted
    <3> QED BY <2>1, <3>1, <3>2, <3>3 DEF Counted
  <2> QED BY <1>1, <1>10, <1>r, <1>x, <2>2
<1> QED BY <1>7, <1>8, <1>9, <1>10, <1>11 DEF InOrder

\* The newest reservation is given back before it has a message.
LEMMA OrderWithdraws ==
  ASSUME Ring, InOrder, Withdraws, UNCHANGED <<tail, cons, got, met>>
  PROVE  InOrder'
<1>f. /\ Top \in Nat /\ Low \in Nat /\ Nxt \in Nat /\ tail \in Nat /\ Cap \in Nat \ {0} /\ Low <= Top
      /\ \A c \in Nat : Queue[c] = slots[Idx(c)] /\ slots[Idx(c)].seq \in Nat
                        /\ Idx(c) \in 0 .. Cap - 1
      /\ sent \in Seq(Nat \X Nat) /\ got \in Seq(Nat)
  BY QueueFacts
<1>g. slots \in [0 .. Cap - 1 -> SlotSet]
  BY Facts DEF Ring, IInv
<1>l. Low' = Low
  BY DEF Low
<1>k. Keeps(Queue, Low, Top, Nxt, sent, got) /\ Top <= Low + Cap
  BY DEF InOrder
<1>1. PICK lo \in Nat, to \in Nat, nx \in Nat, b \in Nat :
        lo = Low /\ to + 1 = Top /\ to = Top - 1 /\ nx = Nxt /\ b = tail
  <2>1. Top - 1 \in Nat /\ (Top - 1) + 1 = Top
    BY <1>f DEF Withdraws
  <2> QED BY <1>f, <2>1
<1>x. /\ slots[Idx(to)].state = "WRITING" /\ slots' = [slots EXCEPT ![Idx(to)] = FreeSlot]
      /\ Top' = to /\ Nxt' = slots[Idx(to)].seq /\ sent' = sent
  BY <1>1 DEF Withdraws
<1>2. lo <= to
  <2>1. PICK c \in Nat : Low <= c /\ c < Top
    <3>1. Typed /\ IsFiniteSet(leases) /\ Behind /\ Idx(to) \in 0 .. Cap - 1
      BY <1>f DEF Ring, IInv, Placed
    <3> QED BY <1>x, <3>1, InWindow
  <2> QED BY <1>1, <2>1
<1>4. \A c \in Nat : lo <= c /\ c < to => slots'[Idx(c)] = slots[Idx(c)]
  <2>1. SUFFICES ASSUME NEW c \in Nat, lo <= c, c < to PROVE slots'[Idx(c)] = slots[Idx(c)]
    OBVIOUS
  <2>2. to + 1 <= lo + Cap /\ Cap \in Nat
    BY <1>1, <1>f, <1>k
  <2>3. to < c + Cap
    BY <2>1, <2>2
  <2>4. Idx(c) # Idx(to)
    BY <2>1, <2>3, Lap
  <2> QED BY <1>f, <1>g, <1>x, <2>4
<1>r. PICK q, r : q = Queue /\ r = Queue'
  OBVIOUS
<1>w. \A c \in Nat : q[c] = slots[Idx(c)] /\ r[c] = slots'[Idx(c)]
  <2>1. \A c \in Nat : Queue'[c] = slots'[Idx(c)]
    BY DEF Queue
  <2> QED BY <1>f, <1>r, <2>1
<1>6. Keeps(r, lo, to, q[to].seq, sent, got)
  <2>1. \A c \in Nat : lo <= c /\ c < to => r[c] = q[c] /\ q[c].seq \in Nat
    BY <1>4, <1>f, <1>w
  <2>2. q[to].state = "WRITING"
    BY <1>w, <1>x
  <2>3. Keeps(q, lo, to + 1, nx, sent, got)
    BY <1>1, <1>k, <1>r
  <2>4. sent \in Seq(Nat \X Nat) /\ got \in Seq(Nat)
    BY <1>f
  <2> QED BY <1>2, <2>1, <2>2, <2>3, <2>4, KeepsWithdrawn
<1>7. Keeps(Queue', Low', Top', Nxt', sent', got')
  BY <1>1, <1>6, <1>l, <1>r, <1>w, <1>x
<1>8. \A c \in Nat : lo <= c /\ c < to =>
        slots'[Idx(c)].owner = 0 \/ (cons.pc \in Stamping /\ c = cons.t)
  <2>1. \A c \in Nat : c < to => c < to + 1
    OBVIOUS
  <2> QED BY <1>1, <1>4, <2>1 DEF InOrder
<1>9. to <= lo + Cap /\ (cons.pc = "free" => to <= b + Cap)
  <2>1. to + 1 <= lo + Cap /\ (cons.pc = "free" => to + 1 <= b + Cap)
    BY <1>1, <1>k DEF InOrder
  <2> QED BY <1>f, <2>1
<1>10. Top' = to /\ Low' = lo /\ tail' = b /\ cons' = cons
  BY <1>1, <1>l, <1>x
<1>11. ASSUME "spent" \notin met' PROVE Counted(Queue', Low', Top', Nxt')
  <2>1. Counted(q, lo, to + 1, nx)
    BY <1>1, <1>11, <1>k, <1>r DEF InOrder
  <2>2. Counted(r, lo, to, q[to].seq)
    <3>1. \A c \in Nat : c < to + 1 <=> c < to \/ c = to
      BY <1>1
    <3>2. \A c \in Nat : lo <= c /\ c < to => r[c] = q[c]
      BY <1>4, <1>w
    <3>3. q[to].seq = to
      BY <1>2, <2>1, <3>1 DEF Counted
    <3> QED BY <2>1, <3>1, <3>2, <3>3 DEF Counted
  <2> QED BY <1>1, <1>10, <1>r, <1>w, <1>x, <2>2
<1> QED BY <1>7, <1>8, <1>9, <1>10, <1>11 DEF InOrder

\* A reservation is filled: its message goes where its slot is.
LEMMA OrderFills ==
  ASSUME Ring, InOrder, Fills, UNCHANGED <<tail, cons, got, met>>
  PROVE  InOrder'
<1>f. /\ Top \in Nat /\ Low \in Nat /\ Nxt \in Nat /\ tail \in Nat /\ Cap \in Nat \ {0} /\ Low <= Top
      /\ \A c \in Nat : Queue[c] = slots[Idx(c)] /\ slots[Idx(c)].seq \in Nat
                        /\ Idx(c) \in 0 .. Cap - 1
      /\ sent \in Seq(Nat \X Nat) /\ got \in Seq(Nat)
  BY QueueFacts
<1>g. slots \in [0 .. Cap - 1 -> SlotSet]
  BY Facts DEF Ring, IInv
<1>l. Low' = Low
  BY DEF Low
<1>k. Keeps(Queue, Low, Top, Nxt, sent, got) /\ Top <= Low + Cap
  BY DEF InOrder
<1>1. PICK lo \in Nat, to \in Nat, nx \in Nat :
        lo = Low /\ to = Top /\ nx = Nxt
  BY <1>f
<1>i. PICK i \in 0 .. Cap - 1, m \in Nat :
        /\ slots[i].state = "WRITING"
        /\ slots' = [slots EXCEPT ![i] = [slots[i] EXCEPT !.state = "COMMITTED", !.msg = m]]
        /\ sent' = SentWith(slots[i].seq, m)
        /\ Top' = Top /\ Nxt' = Nxt
  BY DEF Fills
<1>a. PICK a \in Nat : lo <= a /\ a < to /\ Idx(a) = i
  <2>1. Typed /\ IsFiniteSet(leases) /\ Behind
    BY DEF Ring, IInv, Placed
  <2> QED BY <1>1, <1>i, <2>1, InWindow
<1>x. PICK x : x = [slots[i] EXCEPT !.state = "COMMITTED", !.msg = m]
  OBVIOUS
<1>2. /\ x.state = "COMMITTED" /\ x.msg = m /\ x.seq = slots[i].seq /\ x.owner = slots[i].owner
  <2>1. slots[i] \in SlotSet
    BY <1>g
  <2> QED BY <1>x, <2>1 DEF SlotSet
<1>3. slots'[i] = x /\ \A j \in 0 .. Cap - 1 : j # i => slots'[j] = slots[j]
  BY <1>g, <1>i, <1>x
<1>4. \A c \in Nat : lo <= c /\ c < to /\ c # a => slots'[Idx(c)] = slots[Idx(c)]
  <2>1. SUFFICES ASSUME NEW c \in Nat, lo <= c, c < to, c # a PROVE slots'[Idx(c)] = slots[Idx(c)]
    OBVIOUS
  <2>2. Idx(c) # Idx(a)
    <3>1. to <= lo + Cap
      BY <1>1, <1>k
    <3> QED BY <1>a, <2>1, <3>1, WaitingApart
  <2> QED BY <1>3, <1>a, <1>f, <2>2
<1>r. PICK q, r : q = Queue /\ r = Queue'
  OBVIOUS
<1>w. \A c \in Nat : q[c] = slots[Idx(c)] /\ r[c] = slots'[Idx(c)]
  <2>1. \A c \in Nat : Queue'[c] = slots'[Idx(c)]
    BY DEF Queue
  <2> QED BY <1>f, <1>r, <2>1
<1>5. /\ Keeps(q, lo, to, nx, sent, got) /\ q[a].state = "WRITING"
      /\ \A c \in Nat : lo <= c /\ c < to => q[c].seq \in Nat
  BY <1>1, <1>a, <1>f, <1>i, <1>k, <1>r, <1>w
<1>s. PICK s \in Nat : s = q[a].seq /\ s = slots[i].seq
  BY <1>a, <1>f, <1>w
<1>6. \A j \in 1 .. Len(sent) : sent[j][1] # s
  <2>1. sent \in Seq(Nat \X Nat) /\ got \in Seq(Nat)
    BY <1>f
  <2>2. Unsent(sent, q[a].seq)
    <3>1. Len(sent) \in Nat /\ Len(got) \in Nat
      BY <2>1, LenProperties
    <3>2. lo <= a /\ a < to
      BY <1>a
    <3> QED BY <1>5, <3>1, <3>2, NotSent
  <2> QED BY <1>s, <2>2 DEF Unsent
<1>7. \A j, k \in 1 .. Len(sent) : j < k => sent[j][1] < sent[k][1]
  BY <1>k DEF Keeps, Delivers
<1>p. PICK p \in 0 .. Len(sent) :
        /\ p = Place(s)
        /\ \A j \in 1 .. p : sent[j][1] < s
        /\ \A j \in p + 1 .. Len(sent) : s < sent[j][1]
  <2>1. sent \in Seq(Nat \X Nat)
    BY <1>f
  <2> QED BY <1>6, <1>7, <2>1, PlaceIs
<1>v. PICK v : v = SentWith(s, m)
  OBVIOUS
<1>8. /\ Len(v) = Len(sent) + 1
      /\ \A j \in 1 .. p : v[j] = sent[j]
      /\ v[p + 1] = <<s, m>>
      /\ \A j \in p + 1 .. Len(sent) : v[j + 1] = sent[j]
  <2>1. sent \in Seq(Nat \X Nat)
    BY <1>f
  <2>2. p \in 0 .. Len(sent) /\ p = Place(s)
    BY <1>p
  <2>3. /\ Len(SentWith(s, m)) = Len(sent) + 1
        /\ \A j \in 1 .. p : SentWith(s, m)[j] = sent[j]
        /\ SentWith(s, m)[p + 1] = <<s, m>>
        /\ \A j \in p + 1 .. Len(sent) : SentWith(s, m)[j + 1] = sent[j]
    BY <2>1, <2>2, SentWithIs, SMTT(30)
  <2> QED BY <1>v, <2>3
<1>9. Keeps(r, lo, to, nx, v, got)
  <2>1. sent \in Seq(Nat \X Nat) /\ got \in Seq(Nat)
    BY <1>f
  <2>2. r[a].state \notin {"WRITING", "FREE"} /\ r[a].seq = q[a].seq /\ r[a].msg = m
    BY <1>2, <1>3, <1>a, <1>s, <1>w
  <2>3. \A c \in Nat : lo <= c /\ c < to /\ c # a => r[c] = q[c]
    BY <1>4, <1>w
  <2>4. \A j \in 1 .. p : v[j] = sent[j] /\ sent[j][1] < q[a].seq
    BY <1>8, <1>p, <1>s
  <2>5. \A j \in p + 1 .. Len(sent) : v[j + 1] = sent[j] /\ q[a].seq < sent[j][1]
    BY <1>8, <1>p, <1>s
  <2>6. v[p + 1] = <<q[a].seq, m>>
    BY <1>8, <1>s
  <2> QED BY <1>5, <1>8, <1>a, <2>1, <2>2, <2>3, <2>4, <2>5, <2>6, KeepsFilled
<1>10. Keeps(Queue', Low', Top', Nxt', sent', got')
  BY <1>1, <1>9, <1>i, <1>l, <1>r, <1>s, <1>v
<1>11. \A c \in Nat : lo <= c /\ c < to =>
        slots'[Idx(c)].owner = 0 \/ (cons.pc \in Stamping /\ c = cons.t)
  <2>1. \A c \in Nat : lo <= c /\ c < to => slots'[Idx(c)].owner = slots[Idx(c)].owner
    BY <1>2, <1>3, <1>4, <1>a
  <2> QED BY <1>1, <2>1 DEF InOrder
<1>12. to <= lo + Cap /\ (cons.pc = "free" => to <= tail + Cap)
  BY <1>1, <1>k DEF InOrder
<1>13. Top' = to /\ Low' = lo /\ tail' = tail /\ cons' = cons
  BY <1>1, <1>i, <1>l
<1>14. ASSUME "spent" \notin met' PROVE Counted(Queue', Low', Top', Nxt')
  <2>1. Counted(q, lo, to, nx)
    BY <1>1, <1>14, <1>r DEF InOrder
  <2>2. \A c \in Nat : lo <= c /\ c < to => r[c].seq = q[c].seq
    BY <1>2, <1>3, <1>4, <1>a, <1>s, <1>w
  <2>3. Counted(r, lo, to, nx)
    BY <2>1, <2>2 DEF Counted
  <2> QED BY <1>1, <1>13, <1>i, <1>r, <2>3
<1> QED BY <1>10, <1>11, <1>12, <1>13, <1>14 DEF InOrder

\* The oldest message is received.
LEMMA OrderReceives ==
  ASSUME Ring, InOrder, UNCHANGED <<head, leases, pr, sent, met>>, Low = cons.t, Low < Top,
         slots[Idx(Low)].state # "WRITING", Low' = Low + 1,
         got' = Append(got, slots[Idx(Low)].msg),
         \A c \in Nat : Low < c /\ c < Top => slots'[Idx(c)] = slots[Idx(c)],
         cons'.pc = "free" => tail' = Low
  PROVE  InOrder'
<1>f. /\ Top \in Nat /\ Low \in Nat /\ Nxt \in Nat /\ Cap \in Nat \ {0}
      /\ \A c \in Nat : Queue[c] = slots[Idx(c)] /\ slots[Idx(c)].seq \in Nat
                        /\ slots[Idx(c)].msg \in Nat
      /\ sent \in Seq(Nat \X Nat) /\ got \in Seq(Nat)
  BY QueueFacts
<1>k. Keeps(Queue, Low, Top, Nxt, sent, got) /\ Top <= Low + Cap
  BY DEF InOrder
<1>t. Top' = Top /\ Nxt' = Nxt /\ Tip' = Tip
  BY TopKept
<1>1. PICK lo \in Nat, to \in Nat, nx \in Nat :
        lo = Low /\ to = Top /\ nx = Nxt
  BY <1>f
<1>r. PICK q, r : q = Queue /\ r = Queue'
  OBVIOUS
<1>w. \A c \in Nat : q[c] = slots[Idx(c)] /\ r[c] = slots'[Idx(c)]
  <2>1. \A c \in Nat : Queue'[c] = slots'[Idx(c)]
    BY DEF Queue
  <2> QED BY <1>f, <1>r, <2>1
<1>2. Keeps(r, lo + 1, to, nx, sent, Append(got, q[lo].msg))
  <2>1. \A c \in Nat : lo <= c /\ c < to => q[c].seq \in Nat
    BY <1>f, <1>w
  <2>2. \A c \in Nat : lo < c /\ c < to => r[c] = q[c]
    BY <1>1, <1>w
  <2>3. Keeps(q, lo, to, nx, sent, got) /\ lo < to
    BY <1>1, <1>k, <1>r
  <2>4. q[lo].state # "WRITING" /\ q[lo].msg \in Nat
    BY <1>1, <1>f, <1>w
  <2>5. sent \in Seq(Nat \X Nat) /\ got \in Seq(Nat)
    BY <1>f
  <2> QED BY <2>1, <2>2, <2>3, <2>4, <2>5, KeepsReceived
<1>3. Keeps(Queue', Low', Top', Nxt', sent', got')
  BY <1>1, <1>2, <1>r, <1>t, <1>w
<1>4. ASSUME NEW c \in Nat, lo + 1 <= c, c < to
      PROVE  slots'[Idx(c)].owner = 0
  <2>1. lo < c /\ lo <= c /\ c # lo
    BY <1>4
  <2>2. slots'[Idx(c)] = slots[Idx(c)]
    BY <1>1, <1>4, <2>1
  <2>3. slots[Idx(c)].owner = 0 \/ c = cons.t
    BY <1>1, <1>4, <2>1 DEF InOrder
  <2> QED BY <1>1, <2>1, <2>2, <2>3
<1>5. to <= (lo + 1) + Cap /\ to <= lo + Cap
  <2>1. to <= lo + Cap
    BY <1>1, <1>k
  <2> QED BY <1>f, <2>1
<1>6. Low' = lo + 1 /\ Top' = to /\ (cons'.pc = "free" => tail' = lo)
  BY <1>1, <1>t
<1>7. ASSUME "spent" \notin met' PROVE Counted(Queue', Low', Top', Nxt')
  <2>1. Counted(q, lo, to, nx)
    BY <1>1, <1>7, <1>r DEF InOrder
  <2>2. \A c \in Nat : lo + 1 <= c => lo < c /\ lo <= c
    BY <1>1
  <2>3. \A c \in Nat : lo < c /\ c < to => r[c] = q[c]
    BY <1>1, <1>w
  <2>4. Counted(r, lo + 1, to, nx)
    BY <2>1, <2>2, <2>3 DEF Counted
  <2> QED BY <1>1, <1>6, <1>r, <1>t, <2>4
<1> QED BY <1>3, <1>4, <1>5, <1>6, <1>7 DEF InOrder

LEMMA OrderProduces ==
  ASSUME Ring, InOrder, Ring', Produces
  PROVE  InOrder'
<1>u. UNCHANGED <<tail, cons, got>> /\ Low' = Low
  BY DEF Produces, Low
<1>1. CASE Rests
  <2>f. /\ Top \in Nat /\ Low \in Nat /\ Nxt \in Nat
        /\ \A c \in Nat : Queue[c] = slots[Idx(c)]
    BY QueueFacts
  <2>1. UNCHANGED <<slots, sent>> /\ Top' = Top /\ (Nxt' = Nxt \/ Nxt' = Nxt + 1)
    BY <1>1 DEF Rests
  <2>2. Nxt <= Nxt'
    <3>1. PICK n \in Nat : n = Nxt'
      BY NxtNext
    <3>2. n = Nxt \/ n = Nxt + 1
      BY <2>1, <3>1
    <3>3. Nxt <= n
      BY <2>f, <3>2
    <3> QED BY <3>1, <3>3
  <2>3. \A c \in Nat : Low <= c /\ c < Top => slots[Idx(c)].state # "FREE"
    BY <2>f DEF InOrder, Keeps, Ordered
  <2>4. cons.pc = "free" => Top <= tail + Cap
    BY DEF InOrder
  <2>5. \A c \in Nat : Low <= c /\ c < Top =>
          slots[Idx(c)].owner = 0 \/ (cons.pc \in Stamping /\ c = cons.t)
    BY DEF InOrder
  <2>6. "spent" \notin met' => "spent" \notin met /\ Nxt' = Nxt
    BY <1>1 DEF Rests
  <2> QED BY <1>u, <2>1, <2>2, <2>3, <2>4, <2>5, <2>6, OrderSame
<1>2. CASE Reserves
  <2>1. UNCHANGED met
    BY <1>2 DEF Reserves
  <2> QED BY <1>2, <1>u, <2>1, OrderReserves
<1>3. CASE Fills
  <2>1. UNCHANGED met
    BY <1>3 DEF Fills
  <2> QED BY <1>3, <1>u, <2>1, OrderFills
<1>4. CASE Withdraws
  <2>1. UNCHANGED met
    BY <1>4 DEF Withdraws
  <2> QED BY <1>4, <1>u, <2>1, OrderWithdraws
<1> QED BY <1>1, <1>2, <1>3, <1>4 DEF Produces

LEMMA OrderReading ==
  ASSUME Ring, Owners, ReadsComplete, InOrder, Ring', ConsumerStep \/ ConsDie
  PROVE  InOrder'
<1>f. /\ Top \in Nat /\ Low \in Nat /\ Nxt \in Nat /\ tail \in Nat /\ Cap \in Nat \ {0}
      /\ \A c \in Nat : Queue[c] = slots[Idx(c)] /\ Idx(c) \in 0 .. Cap - 1
                        /\ slots[Idx(c)] \in SlotSet
  BY QueueFacts
<1>g. /\ slots \in [0 .. Cap - 1 -> SlotSet] /\ cons \in ConsumerSet /\ cons.t \in Nat
  BY Facts, Fields DEF Ring, IInv
<1>t. Top' = Top /\ Nxt' = Nxt /\ UNCHANGED <<scenario, head, leases, sent, pr, met>>
  <2>1. UNCHANGED <<pr, met>>
    BY DEF ConsumerStep, RecvBegin, Gate, PinSlot, StampSlot, LoadFloor, LowerFloor, KeepPinned,
           TakeSlot, FreeTail, AdvanceTail, ConsOpen, ConsRescan, ConsDie
  <2> QED BY <2>1, Others
<1>e. \A c : RecvEnds(c) => cons'.pc = "idle"
  BY DEF RecvEnds, Consumer
<1>w. \A c \in Nat : Low <= c /\ c < Top =>
        /\ slots[Idx(c)].state # "FREE"
        /\ slots[Idx(c)].owner = 0 \/ (cons.pc \in Stamping /\ c = cons.t)
  BY <1>f DEF InOrder, Keeps, Ordered
<1>m. cons.pc \in Reading => cons.t = tail
  BY DEF Ring, Behind
<1>b. cons.pc \in Reading \ {"gate"} => tail < Top
  BY DEF Ring, Behind
<1>n. tail \in Nat
  BY <1>f
<1>d. ASSUME NEW c \in Nat, Low < c, c < Top PROVE Idx(c) # Idx(Low)
  <2>1. PICK lo \in Nat, to \in Nat : lo = Low /\ to = Top
    BY <1>f
  <2>2. to <= lo + Cap /\ lo < c /\ c < to
    BY <1>d, <2>1 DEF InOrder
  <2>3. c < lo + Cap
    BY <1>f, <2>2
  <2> QED BY <2>1, <2>2, <2>3, Lap
\* A step that receives nothing.
<1>s. ASSUME Low' = Low, UNCHANGED got, cons'.pc # "free",
             \A c \in Nat : Low <= c /\ c < Top =>
               /\ slots'[Idx(c)].seq = slots[Idx(c)].seq /\ slots'[Idx(c)].msg = slots[Idx(c)].msg
               /\ slots'[Idx(c)].state # "FREE"
               /\ slots'[Idx(c)].state = "WRITING" <=> slots[Idx(c)].state = "WRITING"
               /\ slots'[Idx(c)].owner = 0 \/ (cons'.pc \in Stamping /\ c = cons'.t)
      PROVE  InOrder'
  <2>1. Nxt <= Nxt'
    BY <1>f, <1>t
  <2> QED BY <1>s, <1>t, <2>1, OrderSame
\* ... and touches no slot.
<1>q. ASSUME Low' = Low, UNCHANGED <<slots, got>>, cons'.pc # "free", cons.pc \notin Stamping
      PROVE  InOrder'
  BY <1>q, <1>s, <1>w
\* A slot that is pinned keeps its number and its message.
<1>p. ASSUME cons.pc \in {"pin", "take"}, Low' = Low, UNCHANGED got, cons'.pc # "free",
             slots' = [slots EXCEPT ![Idx(cons.t)].state = "PINNED"]
      PROVE  InOrder'
  <2>1. slots[Idx(cons.t)].state = "COMMITTED"
    BY <1>p DEF Ring, IInv, ViewInv
  <2>2. ASSUME NEW c \in Nat, Low <= c, c < Top
        PROVE  /\ slots'[Idx(c)].seq = slots[Idx(c)].seq /\ slots'[Idx(c)].msg = slots[Idx(c)].msg
               /\ slots'[Idx(c)].state # "FREE"
               /\ slots'[Idx(c)].state = "WRITING" <=> slots[Idx(c)].state = "WRITING"
               /\ slots'[Idx(c)].owner = 0
    <3>1. slots[Idx(c)].state # "FREE" /\ slots[Idx(c)].owner = 0
      BY <1>p, <1>w, <2>2 DEF Stamping
    <3>2. CASE Idx(c) = Idx(cons.t)
      <4>1. slots'[Idx(c)] = [slots[Idx(c)] EXCEPT !.state = "PINNED"] /\ slots[Idx(c)] \in SlotSet
        BY <1>f, <1>g, <1>p, <3>2
      <4> QED BY <2>1, <3>1, <3>2, <4>1 DEF SlotSet
    <3>3. CASE Idx(c) # Idx(cons.t)
      <4>1. slots'[Idx(c)] = slots[Idx(c)]
        BY <1>f, <1>g, <1>p, <3>3
      <4> QED BY <3>1, <4>1
    <3> QED BY <3>2, <3>3
  <2> QED BY <1>p, <1>s, <2>2
<1>1. CASE \E op \in {"view", "recv"} : RecvBegin(op)
  <2>1. UNCHANGED <<slots, got, tail>> /\ cons.pc = "idle" /\ cons'.pc = "gate"
    BY <1>1, <1>g DEF RecvBegin, ConsAt, ConsumerSet
  <2> QED BY <1>q, <2>1 DEF Low, Stamping
<1>2. CASE Gate
  <2>1. UNCHANGED <<slots, got, tail>> /\ cons.pc = "gate" /\ cons'.pc \in {"idle", "pin", "take"}
    BY <1>2, <1>e, <1>g DEF Gate, ConsAt, Move, ConsumerSet
  <2> QED BY <1>q, <2>1 DEF Low, Stamping
<1>3. CASE PinSlot
  <2>1. /\ UNCHANGED <<got, tail>> /\ cons.pc = "pin" /\ cons'.pc = "stamp"
        /\ slots' = [slots EXCEPT ![Idx(cons.t)].state = "PINNED"]
    BY <1>3, <1>g DEF PinSlot, ConsAt, Move, ConsumerSet
  <2> QED BY <1>p, <2>1 DEF Low
<1>4. CASE StampSlot
  <2>1. /\ UNCHANGED <<got, tail>> /\ cons.pc = "stamp" /\ cons'.pc = "lower" /\ cons'.t = cons.t
        /\ slots' = [slots EXCEPT ![Idx(cons.t)].owner = cons.inc]
    BY <1>4, <1>g DEF StampSlot, ConsAt, Move, ConsumerSet
  <2>2. Low' = Low /\ cons.t = Low /\ Low < Top
    BY <1>b, <1>m, <1>n, <2>1 DEF Low, Reading
  <2>3. ASSUME NEW c \in Nat, Low <= c, c < Top
        PROVE  /\ slots'[Idx(c)].seq = slots[Idx(c)].seq /\ slots'[Idx(c)].msg = slots[Idx(c)].msg
               /\ slots'[Idx(c)].state # "FREE"
               /\ slots'[Idx(c)].state = "WRITING" <=> slots[Idx(c)].state = "WRITING"
               /\ slots'[Idx(c)].owner = 0 \/ c = cons.t
    <3>1. slots[Idx(c)].state # "FREE" /\ slots[Idx(c)].owner = 0
      BY <1>w, <2>1, <2>3 DEF Stamping
    <3>2. CASE c = cons.t
      <4>1. slots'[Idx(c)] = [slots[Idx(c)] EXCEPT !.owner = cons.inc] /\ slots[Idx(c)] \in SlotSet
        BY <1>f, <1>g, <2>1, <3>2
      <4> QED BY <3>1, <3>2, <4>1 DEF SlotSet
    <3>3. CASE c # cons.t
      <4>1. Idx(c) # Idx(cons.t)
        <5>1. Low < c
          BY <1>f, <2>2, <2>3, <3>3
        <5> QED BY <1>d, <2>2, <2>3, <5>1
      <4>2. slots'[Idx(c)] = slots[Idx(c)]
        BY <1>f, <1>g, <2>1, <4>1
      <4> QED BY <3>1, <4>2
    <3> QED BY <3>2, <3>3
  <2> QED BY <1>s, <2>1, <2>2, <2>3 DEF Stamping
<1>5. CASE LoadFloor \/ LowerFloor
  <2>1. /\ UNCHANGED <<slots, got, tail>> /\ cons.pc \in Stamping /\ cons'.pc \in Stamping
        /\ cons'.t = cons.t
    BY <1>5, <1>g DEF LoadFloor, LowerFloor, ConsAt, Move, TryAgain, ConsumerSet, Stamping
  <2>2. Low' = Low /\ cons'.pc # "free"
    BY <2>1 DEF Low, Stamping
  <2> QED BY <1>s, <1>w, <2>1, <2>2
<1>6. CASE KeepPinned
  <2>1. /\ cons.pc = "keep" /\ cons'.pc = "idle" /\ tail' = cons.t + 1 /\ UNCHANGED slots
        /\ got' = Append(got, slots[Idx(cons.t)].msg)
    BY <1>6, <1>e DEF KeepPinned, ConsAt, Received
  <2>2. Low = cons.t /\ Low' = Low + 1 /\ Low < Top
    BY <1>b, <1>m, <1>n, <2>1 DEF Low, Reading
  <2>3. slots[Idx(cons.t)].state = "PINNED"
    BY <2>1 DEF Ring, IInv, ViewInv
  <2> QED BY <1>t, <2>1, <2>2, <2>3, OrderReceives
<1>7. CASE TakeSlot
  <2>1. /\ cons.pc = "take" /\ UNCHANGED tail
        /\ slots' = [slots EXCEPT ![Idx(cons.t)].state = "PINNED"]
    BY <1>7 DEF TakeSlot, ConsAt
  <2>2. CASE Rejected(slots[Idx(cons.t)])
    <3>1. cons'.pc = "idle" /\ UNCHANGED got
      BY <1>7, <1>e, <2>2 DEF TakeSlot
    <3> QED BY <1>p, <2>1, <3>1 DEF Low
  <2>3. CASE ~Rejected(slots[Idx(cons.t)])
    <3>1. cons'.pc = "free" /\ got' = Append(got, slots[Idx(cons.t)].msg)
      BY <1>7, <1>g, <2>3 DEF TakeSlot, Adopted, Received, ConsumerSet
    <3>2. Low = cons.t /\ Low' = Low + 1 /\ Low < Top /\ tail' = Low
      BY <1>b, <1>m, <1>n, <2>1, <3>1 DEF Low, Reading
    <3>3. slots[Idx(cons.t)].state = "COMMITTED"
      BY <2>1 DEF Ring, IInv, ViewInv
    <3>4. ASSUME NEW c \in Nat, Low < c, c < Top PROVE slots'[Idx(c)] = slots[Idx(c)]
      <4>2. Idx(c) # Idx(Low)
        BY <1>d, <3>4
      <4> QED BY <1>f, <1>g, <2>1, <3>2, <4>2
    <3> QED BY <1>t, <3>1, <3>2, <3>3, <3>4, OrderReceives
  <2> QED BY <2>2, <2>3
<1>8. CASE FreeTail
  <2>1. /\ cons.pc = "free" /\ cons'.pc = "advance" /\ UNCHANGED <<tail, got>>
        /\ slots' = [slots EXCEPT ![Idx(cons.t)] = FreeSlot] /\ cons.t = tail
    BY <1>8, <1>g, <1>m DEF FreeTail, ConsAt, Move, SetSlot, ConsumerSet, Reading
  <2>2. Low' = Low /\ Low = tail + 1 /\ Top <= tail + Cap
    BY <2>1 DEF Low, InOrder
  <2>3. ASSUME NEW c \in Nat, Low <= c, c < Top PROVE slots'[Idx(c)] = slots[Idx(c)]
    <3>1. tail < c /\ c < tail + Cap
      BY <1>f, <2>2, <2>3
    <3>2. Idx(tail) # Idx(c)
      BY <1>f, <3>1, Lap
    <3> QED BY <1>f, <1>g, <2>1, <3>2
  <2> QED BY <1>s, <1>w, <2>1, <2>2, <2>3 DEF Stamping
<1>9. CASE AdvanceTail
  <2>1. /\ cons.pc = "advance" /\ cons'.pc = "idle" /\ tail' = cons.t + 1 /\ cons.t = tail
        /\ UNCHANGED <<slots, got>>
    BY <1>9, <1>e, <1>m DEF AdvanceTail, ConsAt, Reading
  <2> QED BY <1>q, <2>1 DEF Low, Stamping
<1>10. CASE ConsOpen
  <2> DEFINE D == {i \in 0 .. Cap - 1 : DeadPin(i)}
  <2>1. /\ cons.pc = "dead" /\ cons'.pc = "rescan" /\ UNCHANGED <<tail, got>>
        /\ slots' = Reclaimed(D)
    BY <1>10, <1>g DEF ConsOpen, ConsAt, ConsumerSet
  <2>2. ASSUME NEW c \in Nat, Low <= c, c < Top PROVE slots'[Idx(c)] = slots[Idx(c)]
    <3>1. Idx(c) \notin D
      BY <1>w, <2>1, <2>2 DEF DeadPin, Stamping
    <3> QED BY <1>f, <2>1, <3>1 DEF Reclaimed
  <2> QED BY <1>s, <1>w, <2>1, <2>2 DEF Low, Stamping
<1>11. CASE ConsRescan
  <2>1. cons.pc = "rescan" /\ cons'.pc = "idle" /\ UNCHANGED <<tail, slots, got>>
    BY <1>11, <1>e DEF ConsRescan, ConsAt
  <2> QED BY <1>q, <2>1 DEF Low, Stamping
<1>12. CASE ConsDie
  <2>1. cons.pc \in scenario.ckill /\ cons'.pc = "dead" /\ UNCHANGED <<tail, slots, got>>
    BY <1>12 DEF ConsDie, Consumer
  <2>2. cons.pc \in {"idle", "gate", "pin", "take", "rescan"}
    BY <2>1 DEF ReadsComplete
  <2> QED BY <1>q, <2>1, <2>2 DEF Low, Stamping
<1> QED
  BY <1>1, <1>2, <1>3, <1>4, <1>5, <1>6, <1>7, <1>8, <1>9, <1>10, <1>11, <1>12 DEF ConsumerStep

\* What a release or a cleanup frees is owned, which nothing that waits is but
\* the slot being made a view of.
LEMMA OrderFreeing ==
  ASSUME Ring, Owners, InOrder, Ring', ReleaseStep \/ ReclaimStale
  PROVE  InOrder'
<1>f. /\ Top \in Nat /\ Low \in Nat /\ Nxt \in Nat
      /\ \A c \in Nat : Queue[c] = slots[Idx(c)] /\ Idx(c) \in 0 .. Cap - 1
  BY QueueFacts
<1>g. slots \in [0 .. Cap - 1 -> SlotSet] /\ \A v \in views : Idx(v) \in 0 .. Cap - 1
  BY Facts, Fields DEF Ring, IInv
<1>t. Top' = Top /\ Nxt' = Nxt /\ UNCHANGED sent
  BY Others
<1>u. UNCHANGED <<tail, cons, got>>
  BY DEF ReleaseStep, Release, UnpinEntry, UnpinScan, UnpinRaise, ReclaimStale
<1>w. \A c \in Nat : Low <= c /\ c < Top =>
        /\ slots[Idx(c)].state # "FREE"
        /\ slots[Idx(c)].owner = 0 \/ (cons.pc \in Stamping /\ c = cons.t)
  BY <1>f DEF InOrder, Keeps, Ordered
<1>1. ASSUME NEW c \in Nat, Low <= c, c < Top PROVE slots'[Idx(c)] = slots[Idx(c)]
  <2>1. CASE \E v \in views : Release(v)
    <3>1. PICK v \in views : slots' = [slots EXCEPT ![Idx(v)] = FreeSlot]
      BY <2>1 DEF Release, SetSlot
    <3>2. slots[Idx(v)].owner # 0
      BY DEF Owners
    <3>3. cons.pc \in Stamping => Idx(v) # Idx(cons.t)
      BY DEF Ring, IInv, ViewInv, Stamping
    <3>4. Idx(c) # Idx(v)
      BY <1>1, <1>w, <3>2, <3>3
    <3> QED BY <1>f, <1>g, <3>1, <3>4
  <2>2. CASE UnpinEntry \/ UnpinScan \/ UnpinRaise
    BY <2>2 DEF UnpinEntry, UnpinScan, UnpinRaise
  <2>3. CASE ReclaimStale
    <3>1. cons.pc = "dead" /\ \E D : slots' = Reclaimed(D) /\ \A i \in D : DeadPin(i)
      BY <2>3 DEF ReclaimStale
    <3>2. PICK D : slots' = Reclaimed(D) /\ \A i \in D : DeadPin(i)
      BY <3>1
    <3>3. Idx(c) \notin D
      BY <1>1, <1>w, <3>1, <3>2 DEF DeadPin, Stamping
    <3> QED BY <1>f, <3>2, <3>3 DEF Reclaimed
  <2> QED BY <2>1, <2>2, <2>3 DEF ReleaseStep
<1>2. Low' = Low
  BY <1>u DEF Low
<1>3. Nxt <= Nxt'
  BY <1>f, <1>t
<1>4. cons.pc = "free" => Top <= tail + Cap
  BY DEF InOrder
<1>5. "spent" \notin met' => "spent" \notin met
  BY DEF ReleaseStep, Release, UnpinEntry, UnpinScan, UnpinRaise, ReclaimStale
<1> QED BY <1>1, <1>2, <1>3, <1>4, <1>5, <1>t, <1>u, <1>w, OrderSame

OrderInv == Ring /\ Owners /\ (ReadsComplete => InOrder)

LEMMA OrderInit == Init => OrderInv
<1> SUFFICES ASSUME Init PROVE OrderInv
  OBVIOUS
<1>1. Ring /\ Owners
  BY RingInit, OwnersInit
<1>2. Top = 0 /\ Low = 0 /\ sent = <<>> /\ got = <<>> /\ cons.pc = "idle"
  <2>1. Cardinality(leases) = 0
    BY FS_EmptySet DEF Init
  <2> QED BY <2>1 DEF Init, Top, Tip, Low, Producer, Consumer
<1>3. ~ (\E c \in Nat : Low <= c /\ c < Top)
  BY <1>2
<1>4. Len(sent) = 0 /\ Len(got) = 0
  BY <1>2
<1>5. Keeps(Queue, Low, Top, Nxt, sent, got)
  <2>1. Ordered(Queue, Low, Top, Nxt)
    <3>1. \A c, d \in Nat : ~ (Low <= c /\ c < d /\ d < Top)
      BY <1>2
    <3> QED BY <1>3, <3>1 DEF Ordered
  <2>2. ~ (\E j : j \in 1 .. Len(sent)) /\ ~ (\E j : j \in 1 .. Len(got))
        /\ ~ (\E j : j \in Len(got) + 1 .. Len(sent))
    BY <1>4
  <2>3. Delivers(Queue, Low, Top, Nxt, sent, got)
    BY <1>3, <1>4, <2>2 DEF Delivers
  <2> QED BY <2>1, <2>3 DEF Keeps
<1>6. Top <= Low + Cap
  BY <1>2, CapAssumption
<1>7. Counted(Queue, Low, Top, Nxt)
  BY <1>2, <1>3 DEF Counted, Nxt, Init, Producer
<1> QED BY <1>1, <1>2, <1>3, <1>5, <1>6, <1>7 DEF OrderInv, InOrder

LEMMA OrderInvNext == OrderInv /\ [Next]_vars => OrderInv'
<1> SUFFICES ASSUME OrderInv, [Next]_vars PROVE OrderInv'
  OBVIOUS
<1>1. Ring' /\ Owners' /\ Ring /\ Owners
  BY RingNext, OwnersNext DEF OrderInv
<1>2. SUFFICES ASSUME ReadsComplete' PROVE InOrder'
  BY <1>1 DEF OrderInv
<1>3. scenario' = scenario
  <2>1. CASE (\E op \in {"send", "alloc"} : GuardLoad(op)) \/ ProducerStep \/ LeaseEnds
    BY <1>1, <2>1, Kinds DEF Produces
  <2>2. CASE ConsumerStep \/ ConsDie \/ ReleaseStep \/ ReclaimStale
    BY <1>1, <2>2, Others
  <2>3. CASE UNCHANGED vars
    BY <2>3 DEF vars
  <2> QED BY <2>1, <2>2, <2>3 DEF Next
<1>4. ReadsComplete /\ InOrder
  BY <1>2, <1>3 DEF ReadsComplete, OrderInv
<1>5. CASE (\E op \in {"send", "alloc"} : GuardLoad(op)) \/ ProducerStep \/ LeaseEnds
  BY <1>1, <1>4, <1>5, Kinds, OrderProduces
<1>6. CASE ConsumerStep \/ ConsDie
  BY <1>1, <1>4, <1>6, OrderReading
<1>7. CASE ReleaseStep \/ ReclaimStale
  BY <1>1, <1>4, <1>7, OrderFreeing
<1>8. CASE UNCHANGED vars
  <2>1. UNCHANGED <<slots, pr, leases, head, tail, cons, sent, got, met>>
    BY <1>8 DEF vars
  <2>2. Top' = Top /\ Low' = Low /\ Nxt' = Nxt /\ Queue' = Queue
    BY <2>1 DEF Tip, Top, Low, Nxt, Queue
  <2> QED BY <1>4, <2>1, <2>2 DEF InOrder
<1> QED BY <1>5, <1>6, <1>7, <1>8 DEF Next

\* Every message is received once, in the order of the slots, in every scenario
\* that kills no consumer between the header it pins and the tail it moves.
THEOREM ReceivedInTurn == Spec => [](ReadsComplete => ReceivedInOrder)
<1>1. OrderInv => (ReadsComplete => ReceivedInOrder)
  <2>1. SUFFICES ASSUME OrderInv, ReadsComplete, NEW i \in 1 .. Len(got)
                 PROVE  i <= Len(sent) /\ got[i] = sent[i][2]
    BY DEF ReceivedInOrder
  <2>2. Delivers(Queue, Low, Top, Nxt, sent, got)
    BY <2>1 DEF OrderInv, InOrder, Keeps
  <2>3. Len(sent) \in Nat /\ Len(got) \in Nat
    <3>1. sent \in Seq(Nat \X Nat) /\ got \in Seq(Nat)
      BY <2>1, QueueFacts DEF OrderInv
    <3> QED BY <3>1, LenProperties
  <2>4. Len(got) <= Len(sent) /\ got[i] = sent[i][2]
    BY <2>2 DEF Delivers
  <2> QED BY <2>3, <2>4
<1> QED BY <1>1, OrderInit, OrderInvNext, PTL DEF Spec

-----------------------------------------------------------------------------
(* The floor and the views                                                 *)

\* A view is behind the tail, and less than a lap.
Recent == \A v \in views : v < tail /\ Low <= v + Cap

\* The guard sees every view.
Seen == ~scenario.threads => \A v \in views : floor <= v

\* The slot about to be passed is no view's.
LEMMA PassesNoView ==
  ASSUME Ring, Recent, cons.pc \in {"take", "keep"}, NEW v \in views
  PROVE  v < tail + 1 /\ tail + 1 <= v + Cap
<1>1. /\ tail \in Nat /\ Cap \in Nat /\ v \in Nat /\ Low = tail /\ cons.t = tail
  <2>1. tail \in Nat /\ Cap \in Nat /\ v \in Nat
    BY QueueFacts, Fields DEF Ring, IInv
  <2> QED BY <2>1 DEF Low, Ring, Behind, Reading
<1>2. Idx(v) # Idx(tail)
  <2>1. slots[Idx(v)].state = "PINNED"
    BY DEF Ring, IInv, ViewInv
  <2>2. slots[Idx(tail)].state = "COMMITTED" \/ Idx(v) # Idx(tail)
    BY <1>1 DEF Ring, IInv, ViewInv
  <2> QED BY <2>1, <2>2
<1>3. v + Cap # tail
  <2>1. Idx(v + Cap) = Idx(v)
    BY <1>1, SameSlot
  <2> QED BY <1>2, <2>1
<1>4. v < tail /\ tail <= v + Cap
  BY <1>1 DEF Recent
<1> QED BY <1>1, <1>3, <1>4

LEMMA RecentNext == Ring /\ Recent /\ [Next]_vars => Recent'
<1> SUFFICES ASSUME Ring, Recent, [Next]_vars PROVE Recent'
  OBVIOUS
<1>f. /\ tail \in Nat /\ Cap \in Nat \ {0} /\ cons \in ConsumerSet /\ views \subseteq Nat
  BY QueueFacts, Facts DEF Ring, IInv
<1>m. cons.pc \in Reading => cons.t = tail
  BY DEF Ring, Behind
<1>e. \A c : RecvEnds(c) => cons'.pc = "idle"
  BY DEF RecvEnds, Consumer
\* A step that passes no slot.
<1>s. ASSUME UNCHANGED tail, views' \subseteq views,
             cons'.pc \in {"free", "advance"} => cons.pc \in {"free", "advance"}
      PROVE  Recent'
  <2>1. SUFFICES ASSUME NEW v \in views' PROVE v < tail' /\ Low' <= v + Cap
    BY DEF Recent
  <2>2. v < tail /\ Low <= v + Cap /\ v \in Nat
    BY <1>f, <1>s DEF Recent
  <2>3. Low' = Low \/ (Low' = tail /\ Low = tail + 1)
    BY <1>f, <1>s DEF Low
  <2>4. CASE Low' = Low
    BY <1>s, <2>2, <2>4
  <2>5. CASE Low' = tail /\ Low = tail + 1
    <3>1. tail <= v + Cap
      BY <1>f, <2>2, <2>5
    <3> QED BY <1>s, <2>2, <2>5, <3>1
  <2> QED BY <2>3, <2>4, <2>5
<1>1. CASE (\E op \in {"send", "alloc"} : GuardLoad(op)) \/ ProducerStep \/ LeaseEnds
  <2>1. UNCHANGED <<tail, views, cons>>
    BY <1>1, Kinds DEF Produces
  <2> QED BY <1>s, <2>1
<1>2. CASE TakeSlot
  <2>1. UNCHANGED <<tail, views>> /\ cons.pc = "take"
    BY <1>2 DEF TakeSlot, ConsAt
  <2>2. SUFFICES ASSUME NEW v \in views PROVE v < tail /\ Low' <= v + Cap
    BY <2>1 DEF Recent
  <2>3. v < tail /\ tail <= v + Cap
    BY <2>1, <1>f DEF Recent, Low
  <2>4. v < tail + 1 /\ tail + 1 <= v + Cap
    BY <2>1, PassesNoView
  <2>5. Low' = tail \/ Low' = tail + 1
    BY <1>f, <2>1 DEF Low
  <2> QED BY <2>3, <2>4, <2>5
<1>3. CASE KeepPinned
  <2>1. /\ cons.pc = "keep" /\ cons.t = tail /\ tail' = tail + 1 /\ views' = views \cup {tail}
        /\ cons'.pc = "idle"
    BY <1>3, <1>e, <1>m DEF KeepPinned, ConsAt, Reading
  <2>2. Low' = tail + 1
    BY <1>f, <2>1 DEF Low
  <2>3. SUFFICES ASSUME NEW v \in views' PROVE v < tail + 1 /\ tail + 1 <= v + Cap
    BY <2>1, <2>2 DEF Recent
  <2>4. CASE v \in views
    BY <2>1, <2>4, PassesNoView
  <2>5. CASE v = tail
    BY <1>f, <2>5
  <2> QED BY <2>1, <2>4, <2>5
<1>4. CASE AdvanceTail
  <2>1. /\ cons.pc = "advance" /\ cons.t = tail /\ tail' = tail + 1 /\ views' = views
        /\ cons'.pc = "idle"
    BY <1>4, <1>e, <1>m DEF AdvanceTail, ConsAt, Reading
  <2>2. Low' = tail + 1 /\ Low = tail + 1
    BY <1>f, <2>1 DEF Low
  <2>3. SUFFICES ASSUME NEW v \in views PROVE v < tail + 1 /\ tail + 1 <= v + Cap
    BY <2>1, <2>2 DEF Recent
  <2>4. v < tail /\ tail + 1 <= v + Cap /\ v \in Nat
    BY <1>f, <2>2 DEF Recent
  <2> QED BY <1>f, <2>4
<1>5. CASE FreeTail
  <2>1. UNCHANGED <<tail, views>> /\ cons.pc = "free"
    BY <1>5 DEF FreeTail, ConsAt
  <2> QED BY <1>s, <2>1
<1>6. CASE \/ \E op \in {"view", "recv"} : RecvBegin(op)
           \/ Gate \/ PinSlot \/ StampSlot \/ LoadFloor \/ LowerFloor \/ ConsOpen \/ ConsRescan
  <2>1. cons'.pc \notin {"free", "advance"} /\ UNCHANGED <<tail, views>>
    BY <1>6, <1>e, <1>f
    DEF RecvBegin, Gate, PinSlot, StampSlot, LoadFloor, LowerFloor, ConsOpen, ConsRescan, Move,
        TryAgain, ConsumerSet
  <2> QED BY <1>s, <2>1
<1>7. CASE ConsDie
  <2>1. cons'.pc = "dead" /\ UNCHANGED tail /\ views' = {}
    BY <1>7 DEF ConsDie, Consumer
  <2> QED BY <2>1 DEF Recent
<1>8. CASE ReleaseStep \/ ReclaimStale
  <2>1. UNCHANGED <<tail, cons>> /\ views' \subseteq views
    BY <1>8 DEF ReleaseStep, Release, UnpinEntry, UnpinScan, UnpinRaise, ReclaimStale
  <2> QED BY <1>s, <2>1
<1>9. CASE UNCHANGED vars
  <2>1. UNCHANGED <<tail, cons, views>>
    BY <1>9 DEF vars
  <2> QED BY <1>s, <2>1
<1> QED
  BY <1>1, <1>2, <1>3, <1>4, <1>5, <1>6, <1>7, <1>8, <1>9 DEF Next, ConsumerStep

LEMMA SeenNext == Ring /\ Floored /\ Recent /\ Seen /\ [Next]_vars => Seen'
<1> SUFFICES ASSUME Ring, Floored, Recent, Seen, [Next]_vars PROVE Seen'
  OBVIOUS
<1>f. /\ tail \in Nat /\ Low \in Nat /\ tail <= Low /\ Low <= Top /\ Top \in Nat /\ Cap \in Nat
      /\ floor \in Nat /\ cons.t \in Nat /\ views \subseteq Nat
  BY QueueFacts, Facts, Fields DEF Ring, IInv
<1>s. ASSUME UNCHANGED <<scenario, floor>>, views' \subseteq views PROVE Seen'
  BY <1>s DEF Seen
<1>1. CASE (\E op \in {"send", "alloc"} : GuardLoad(op)) \/ ProducerStep \/ LeaseEnds
  <2>1. UNCHANGED <<scenario, floor, views>>
    BY <1>1, Kinds DEF Produces
  <2> QED BY <1>s, <2>1
<1>2. CASE LowerFloor
  <2>1. UNCHANGED <<scenario, views>> /\ cons.pc = "cas"
    BY <1>2 DEF LowerFloor, ConsAt
  <2>2. CASE floor' = floor
    BY <1>s, <2>1, <2>2
  <2>3. CASE floor = cons.floor /\ floor' = cons.t
    <3>1. SUFFICES ASSUME ~scenario.threads, NEW v \in views PROVE cons.t <= v
      BY <2>1, <2>3 DEF Seen
    <3>2. floor <= v /\ v < tail /\ v \in Nat
      BY <1>f, <3>1 DEF Seen, Recent
    <3>3. floor = None \/ cons.t < floor
      BY <2>1, <2>3, <3>1 DEF Floored
    <3>4. floor < None
      <4>1. Top < None
        BY BelowNone
      <4> QED BY <1>f, <3>2, <4>1 DEF None
    <3>5. cons.t < floor
      BY <1>f, <3>3, <3>4
    <3> QED BY <1>f, <3>2, <3>5
  <2> QED BY <1>2, <2>2, <2>3 DEF LowerFloor
<1>3. CASE KeepPinned
  <2>1. UNCHANGED <<scenario, floor>> /\ views' = views \cup {cons.t} /\ cons.pc = "keep"
    BY <1>3 DEF KeepPinned, ConsAt
  <2>2. ~scenario.threads => floor <= cons.t
    BY <2>1 DEF Floored
  <2> QED BY <2>1, <2>2 DEF Seen
<1>4. CASE UnpinRaise
  <2>1. UNCHANGED <<scenario, views>> /\ rel.pc = "raise"
        /\ floor' = IF floor = rel.entry THEN rel.next ELSE floor
    BY <1>4 DEF UnpinRaise
  <2>2. SUFFICES ASSUME ~scenario.threads, NEW v \in views PROVE floor' <= v
    BY <2>1 DEF Seen
  <2>3. floor <= v /\ v < tail /\ v \in Nat /\ tail <= v + Cap
    <3>1. floor <= v /\ v < tail /\ v \in Nat /\ Low <= v + Cap
      BY <1>f, <2>2 DEF Seen, Recent
    <3> QED BY <1>f, <3>1
  <2>4. slots[Idx(v)].state = "PINNED"
    BY DEF Ring, IInv, ViewInv
  <2>5. rel.next <= v
    BY <2>1, <2>2, <2>3, <2>4 DEF Floored, Unpinning
  <2> QED BY <2>1, <2>3, <2>5
<1>5. CASE ReclaimStale \/ ConsRescan
  <2>1. cons.pc \in {"dead", "rescan"} /\ views' = views
    BY <1>5 DEF ReclaimStale, ConsRescan, ConsAt
  <2>2. views = {}
    BY <2>1 DEF Ring, IInv, ViewInv
  <2> QED BY <2>1, <2>2 DEF Seen
<1>6. CASE \/ \E op \in {"view", "recv"} : RecvBegin(op)
           \/ Gate \/ PinSlot \/ StampSlot \/ LoadFloor \/ TakeSlot \/ FreeTail \/ AdvanceTail
           \/ ConsOpen \/ ConsDie \/ (\E c \in views : Release(c)) \/ UnpinEntry \/ UnpinScan
  <2>1. UNCHANGED <<scenario, floor>> /\ views' \subseteq views
    BY <1>6
    DEF RecvBegin, Gate, PinSlot, StampSlot, LoadFloor, TakeSlot, FreeTail, AdvanceTail, ConsOpen,
        ConsDie, Release, UnpinEntry, UnpinScan
  <2> QED BY <1>s, <2>1
<1>7. CASE UNCHANGED vars
  <2>1. UNCHANGED <<scenario, floor, views>>
    BY <1>7 DEF vars
  <2> QED BY <1>s, <2>1
<1> QED
  BY <1>1, <1>2, <1>3, <1>4, <1>5, <1>6, <1>7 DEF Next, ConsumerStep, ReleaseStep

\* What the floor is exact for: reads complete, one thread, no number spent.
Plain == ReadsComplete /\ ~scenario.threads /\ "spent" \notin met

\* The consumer expects the number that comes next.
Expecting == cons.pc \notin {"dead", "rescan"} => cons.resync \/ cons.expected = Low

\* Every pin is a view, or the read under way, or left by the dead with a name.
Holding == {"stamp", "lower", "cas", "keep", "free"}
Known ==
  \A i \in 0 .. Cap - 1 : slots[i].state = "PINNED" =>
    \/ \E v \in views : Idx(v) = i
    \/ cons.pc \in Holding /\ i = Idx(cons.t)
    \/ cons.pc = "dead" /\ slots[i].owner # 0

\* The floor is a view's, or was, or is about to be.
Marked ==
  /\ cons.pc \notin {"dead", "rescan"} /\ floor # None =>
       \/ floor \in views
       \/ rel.pc # "none" /\ floor = rel.c
       \/ cons.pc = "keep" /\ floor = cons.t
  /\ rel.pc = "raise" => rel.next = None \/ rel.next \in views

Exact == Plain => Expecting /\ Known /\ Marked

LEMMA PlainKept == Ring /\ [Next]_vars /\ Plain' => Plain
<1> SUFFICES ASSUME Ring, [Next]_vars, Plain' PROVE Plain
  OBVIOUS
<1>1. scenario' = scenario
  <2>1. CASE (\E op \in {"send", "alloc"} : GuardLoad(op)) \/ ProducerStep \/ LeaseEnds
    BY <2>1, Kinds DEF Produces
  <2>2. CASE ConsumerStep \/ ConsDie \/ ReleaseStep \/ ReclaimStale
    BY <2>2, Others
  <2>3. CASE UNCHANGED vars
    BY <2>3 DEF vars
  <2> QED BY <2>1, <2>2, <2>3 DEF Next
<1>2. "spent" \in met => "spent" \in met'
  <2>1. CASE (\E op \in {"send", "alloc"} : GuardLoad(op)) \/ ProducerStep \/ LeaseEnds
    <3>1. Produces
      BY <2>1, Kinds
    <3> QED BY <3>1 DEF Produces, Rests, Reserves, Fills, Withdraws
  <2>2. CASE ConsumerStep \/ ConsDie \/ ReleaseStep \/ ReclaimStale
    BY <2>2
    DEF ConsumerStep, RecvBegin, Gate, PinSlot, StampSlot, LoadFloor, LowerFloor, KeepPinned,
        TakeSlot, FreeTail, AdvanceTail, ConsOpen, ConsRescan, ConsDie,
        ReleaseStep, Release, UnpinEntry, UnpinScan, UnpinRaise, ReclaimStale
  <2>3. CASE UNCHANGED vars
    BY <2>3 DEF vars
  <2> QED BY <2>1, <2>2, <2>3 DEF Next
<1> QED BY <1>1, <1>2 DEF Plain, ReadsComplete

\* While the consumer reads, the slot at the tail has the tail's number.
LEMMA TailCounted ==
  ASSUME OrderInv, Plain, tail < Top, Low = tail
  PROVE  slots[Idx(tail)].seq = tail
<1>1. tail \in Nat /\ Queue[tail] = slots[Idx(tail)]
  BY QueueFacts DEF OrderInv
<1>2. Counted(Queue, Low, Top, Nxt)
  BY DEF OrderInv, InOrder, Plain
<1>3. Low <= tail
  BY <1>1
<1> QED BY <1>1, <1>2, <1>3 DEF Counted

LEMMA ExpectingNext ==
  ASSUME OrderInv, Plain, Expecting, Known, [Next]_vars
  PROVE  Expecting'
<1>r. Ring
  BY DEF OrderInv
<1>f. /\ tail \in Nat /\ Low \in Nat /\ Top \in Nat /\ Low <= Top /\ cons \in ConsumerSet
      /\ cons.t \in Nat /\ Idx(cons.t) \in 0 .. Cap - 1
  <2>1. cons.t \in Nat
    BY <1>r, Fields DEF Ring, IInv
  <2> QED BY <1>r, <2>1, QueueFacts, Facts DEF Ring, IInv
<1>m. cons.pc \in Reading => cons.t = tail
  BY <1>r DEF Ring, Behind
<1>b. cons.pc \in Reading \ {"gate"} => tail < Top
  BY <1>r DEF Ring, Behind
<1>e. ASSUME NEW c, RecvEnds(c)
      PROVE  cons'.pc = "idle" /\ cons'.expected = c.expected /\ cons'.resync = c.resync
  BY <1>e DEF RecvEnds, Consumer
\* A step that passes no slot, and leaves what is expected.
<1>s. ASSUME Low' = Low, cons'.expected = cons.expected, cons'.resync = cons.resync,
             cons'.pc \notin {"dead", "rescan"} => cons.pc \notin {"dead", "rescan"}
      PROVE  Expecting'
  BY <1>s DEF Expecting
<1>k. Adopted(cons.t).expected = slots[Idx(cons.t)].seq + 1 /\ Adopted(cons.t).resync = FALSE
  BY <1>f DEF Adopted, ConsumerSet
<1>t. cons.pc \in {"take", "keep"} => slots[Idx(cons.t)].seq = tail
  <2>1. SUFFICES ASSUME cons.pc \in {"take", "keep"} PROVE slots[Idx(cons.t)].seq = tail
    OBVIOUS
  <2>2. cons.t = tail /\ tail < Top /\ Low = tail
    BY <1>b, <1>f, <1>m, <2>1 DEF Reading, Low
  <2> QED BY <2>2, TailCounted
<1>1. CASE (\E op \in {"send", "alloc"} : GuardLoad(op)) \/ ProducerStep \/ LeaseEnds
  <2>1. UNCHANGED <<tail, cons>>
    BY <1>1, <1>r, Kinds DEF Produces
  <2> QED BY <1>s, <2>1 DEF Low
<1>2. CASE \E op \in {"view", "recv"} : RecvBegin(op)
  <2>1. /\ cons.pc = "idle" /\ cons'.pc = "gate" /\ cons'.expected = cons.expected
        /\ cons'.resync = cons.resync /\ tail' = tail
    BY <1>2, <1>f DEF RecvBegin, ConsAt, ConsumerSet
  <2> QED BY <1>s, <2>1 DEF Low
<1>3. CASE Gate
  <2>1. /\ cons.pc = "gate" /\ cons'.pc \in {"idle", "pin", "take"} /\ tail' = tail
        /\ cons'.expected = cons.expected /\ cons'.resync = cons.resync
    BY <1>3, <1>e, <1>f DEF Gate, ConsAt, Move, ConsumerSet
  <2> QED BY <1>s, <2>1 DEF Low
<1>4. CASE PinSlot \/ StampSlot \/ LoadFloor \/ LowerFloor
  <2>1. /\ cons.pc \in {"pin", "stamp", "lower", "cas"} /\ tail' = tail
        /\ cons'.pc \in {"stamp", "lower", "cas", "keep"}
        /\ cons'.expected = cons.expected /\ cons'.resync = cons.resync
    BY <1>4, <1>f DEF PinSlot, StampSlot, LoadFloor, LowerFloor, ConsAt, Move, TryAgain, ConsumerSet
  <2> QED BY <1>s, <2>1 DEF Low
<1>5. CASE KeepPinned
  <2>1. /\ cons.pc = "keep" /\ tail' = cons.t + 1 /\ RecvEnds(Adopted(cons.t))
    BY <1>5 DEF KeepPinned, ConsAt
  <2>2. cons.t = tail /\ cons'.pc = "idle" /\ cons'.expected = tail + 1
    BY <1>e, <1>k, <1>m, <1>t, <2>1 DEF Reading
  <2>3. Low' = tail + 1
    BY <1>f, <2>1, <2>2 DEF Low
  <2> QED BY <2>2, <2>3 DEF Expecting
<1>6. CASE TakeSlot
  <2>1. cons.pc = "take" /\ tail' = tail
    BY <1>6 DEF TakeSlot, ConsAt
  <2>2. CASE RecvEnds(cons)
    BY <1>e, <1>s, <2>1, <2>2 DEF Low
  <2>3. CASE cons' = [Adopted(cons.t) EXCEPT !.pc = "free"]
    <3>1. cons'.pc = "free" /\ cons'.expected = tail + 1
      BY <1>f, <1>t, <2>1, <2>3 DEF Adopted, ConsumerSet
    <3>2. Low' = tail + 1
      BY <2>1, <3>1 DEF Low
    <3> QED BY <3>1, <3>2 DEF Expecting
  <2> QED BY <1>6, <2>2, <2>3 DEF TakeSlot
<1>7. CASE FreeTail
  <2>1. /\ cons.pc = "free" /\ tail' = tail /\ cons'.pc = "advance"
        /\ cons'.expected = cons.expected /\ cons'.resync = cons.resync
    BY <1>7, <1>f DEF FreeTail, ConsAt, Move, ConsumerSet
  <2> QED BY <1>s, <2>1 DEF Low
<1>8. CASE AdvanceTail
  <2>1. cons.pc = "advance" /\ tail' = cons.t + 1 /\ RecvEnds(cons)
    BY <1>8 DEF AdvanceTail, ConsAt
  <2>2. Low' = Low
    BY <1>e, <1>f, <1>m, <2>1 DEF Low, Reading
  <2> QED BY <1>e, <1>s, <2>1, <2>2
<1>9. CASE ConsOpen \/ ConsDie
  <2>1. cons'.pc \in {"dead", "rescan"}
    BY <1>9, <1>f DEF ConsOpen, ConsDie, Consumer, ConsumerSet
  <2> QED BY <2>1 DEF Expecting
<1>10. CASE ConsRescan
  <2> DEFINE readable == \E i \in 0 .. Cap - 1 : slots[i].state \in {"COMMITTED", "PINNED"}
  <2>1. /\ cons.pc = "rescan" /\ tail' = tail /\ Low = tail
        /\ RecvEnds([cons EXCEPT !.resync = ~readable,
                                 !.expected = IF readable THEN slots[Idx(tail)].seq ELSE 0])
    BY <1>10, <1>f DEF ConsRescan, ConsAt, Low
  <2>2. [cons EXCEPT !.resync = ~readable,
                     !.expected = IF readable THEN slots[Idx(tail)].seq ELSE 0].resync = ~readable
        /\ [cons EXCEPT !.resync = ~readable,
                     !.expected = IF readable THEN slots[Idx(tail)].seq ELSE 0].expected
             = IF readable THEN slots[Idx(tail)].seq ELSE 0
    BY <1>f DEF ConsumerSet
  <2>3. /\ cons'.pc = "idle" /\ cons'.resync = ~readable
        /\ cons'.expected = IF readable THEN slots[Idx(tail)].seq ELSE 0
    BY <1>e, <2>1, <2>2
  <2>4. Low' = tail
    BY <1>f, <2>1, <2>3 DEF Low
  <2>5. ASSUME readable PROVE cons'.expected = tail
    <3>1. PICK i \in 0 .. Cap - 1 : slots[i].state \in {"COMMITTED", "PINNED"}
      BY <2>5
    <3>2. slots[i].state # "PINNED"
      <4>1. views = {}
        BY <1>r, <2>1 DEF Ring, IInv, ViewInv
      <4> QED BY <2>1, <4>1 DEF Known, Holding
    <3>3. PICK c \in Nat : Low <= c /\ c < Top
      <4>1. Typed /\ IsFiniteSet(leases) /\ Behind
        BY <1>r DEF Ring, IInv, Placed
      <4> QED BY <3>1, <3>2, <4>1, InWindow
    <3>4. tail < Top
      BY <1>f, <2>1, <3>3
    <3>5. slots[Idx(tail)].seq = tail
      BY <2>1, <3>4, TailCounted
    <3> QED BY <2>3, <2>5, <3>5
  <2> HIDE DEF readable
  <2> QED BY <2>3, <2>4, <2>5 DEF Expecting
<1>11. CASE ReleaseStep \/ ReclaimStale
  <2>1. UNCHANGED <<tail, cons>>
    BY <1>11 DEF ReleaseStep, Release, UnpinEntry, UnpinScan, UnpinRaise, ReclaimStale
  <2> QED BY <1>s, <2>1 DEF Low
<1>12. CASE UNCHANGED vars
  <2>1. UNCHANGED <<tail, cons>>
    BY <1>12 DEF vars
  <2> QED BY <1>s, <2>1 DEF Low
<1> QED
  BY <1>1, <1>2, <1>3, <1>4, <1>5, <1>6, <1>7, <1>8, <1>9, <1>10, <1>11, <1>12
  DEF Next, ConsumerStep

LEMMA KnownNext ==
  ASSUME OrderInv, Plain, Expecting, Known, [Next]_vars
  PROVE  Known'
<1>r. Ring /\ Owners
  BY DEF OrderInv
<1>f. /\ tail \in Nat /\ Low \in Nat /\ Top \in Nat /\ Low <= Top /\ cons \in ConsumerSet
      /\ cons.t \in Nat /\ Idx(cons.t) \in 0 .. Cap - 1
      /\ slots \in [0 .. Cap - 1 -> SlotSet] /\ \A v \in views : Idx(v) \in 0 .. Cap - 1
  <2>1. cons.t \in Nat /\ \A v \in views : Idx(v) \in 0 .. Cap - 1
    BY <1>r, Fields DEF Ring, IInv
  <2> QED BY <1>r, <2>1, QueueFacts, Facts, IdxIn DEF Ring, IInv
<1>e. \A c : RecvEnds(c) => cons'.pc = "idle"
  BY DEF RecvEnds, Consumer
\* A step that pins nothing, and after which every pin is still what it was.
<1>s. ASSUME \A i \in 0 .. Cap - 1 : slots'[i].state = "PINNED" => slots[i] = slots'[i],
             views \subseteq views',
             cons.pc \in Holding => cons'.pc \in Holding /\ cons'.t = cons.t,
             cons.pc = "dead" => cons'.pc = "dead"
      PROVE  Known'
  BY <1>s DEF Known
<1>1. CASE (\E op \in {"send", "alloc"} : GuardLoad(op)) \/ ProducerStep \/ LeaseEnds
  <2>1. Produces
    BY <1>1, <1>r, Kinds
  <2>2. UNCHANGED <<views, cons>>
    BY <2>1 DEF Produces
  <2>3. \A i \in 0 .. Cap - 1 : slots'[i].state = "PINNED" => slots[i] = slots'[i]
    <3>1. CASE Rests
      BY <3>1 DEF Rests
    <3>2. CASE Reserves
      <4>1. PICK x \in SlotSet : x.state = "WRITING" /\ slots' = [slots EXCEPT ![Idx(Top)] = x]
        BY <3>2 DEF Reserves
      <4> QED BY <1>f, <4>1
    <3>3. CASE Fills
      <4>1. PICK j \in 0 .. Cap - 1, m \in Nat :
              slots' = [slots EXCEPT ![j] = [slots[j] EXCEPT !.state = "COMMITTED", !.msg = m]]
        BY <3>3 DEF Fills
      <4>2. [slots[j] EXCEPT !.state = "COMMITTED", !.msg = m].state = "COMMITTED"
        BY <1>f DEF SlotSet
      <4> QED BY <1>f, <4>1, <4>2
    <3>4. CASE Withdraws
      <4>1. slots' = [slots EXCEPT ![Idx(Top - 1)] = FreeSlot] /\ FreeSlot.state = "FREE"
        BY <3>4 DEF Withdraws, FreeSlot
      <4> QED BY <1>f, <4>1
    <3> QED BY <2>1, <3>1, <3>2, <3>3, <3>4 DEF Produces
  <2> QED BY <1>s, <2>2, <2>3
<1>2. CASE \/ \E op \in {"view", "recv"} : RecvBegin(op)
           \/ Gate \/ AdvanceTail
  <2>1. cons.pc \in {"idle", "gate", "advance"} /\ UNCHANGED <<slots, views>>
    BY <1>2 DEF RecvBegin, Gate, AdvanceTail, ConsAt
  <2> QED BY <1>s, <2>1 DEF Holding
<1>3. CASE PinSlot \/ (TakeSlot /\ cons' = [Adopted(cons.t) EXCEPT !.pc = "free"])
  <2>1. /\ slots' = [slots EXCEPT ![Idx(cons.t)].state = "PINNED"] /\ UNCHANGED views
        /\ cons.pc \in {"pin", "take"}
    BY <1>3 DEF PinSlot, TakeSlot, ConsAt
  <2>2. cons'.pc \in Holding /\ cons'.t = cons.t
    BY <1>3, <1>f DEF PinSlot, Move, Adopted, ConsumerSet, Holding
  <2>3. \A i \in 0 .. Cap - 1 : i # Idx(cons.t) => slots'[i] = slots[i]
    BY <1>f, <2>1
  <2> QED BY <2>1, <2>2, <2>3 DEF Known, Holding
<1>4. CASE TakeSlot /\ RecvEnds(cons)
  \* Refused is only a number that was not expected, and this one was.
  <2>1. cons.pc = "take" /\ cons'.pc = "idle"
    BY <1>4, <1>e DEF TakeSlot, ConsAt
  <2>2. cons.t = tail /\ tail < Top /\ Low = tail
    BY <1>f, <1>r, <2>1 DEF Ring, Behind, Reading, Low
  <2>3. slots[Idx(cons.t)].seq = cons.expected \/ cons.resync
    BY <2>1, <2>2, TailCounted DEF Expecting
  <2>4. cons' = [Adopted(cons.t) EXCEPT !.pc = "free"]
    BY <1>4, <2>3 DEF TakeSlot, Rejected
  <2>5. cons'.pc = "free"
    BY <1>f, <2>4 DEF Adopted, ConsumerSet
  <2> QED BY <2>1, <2>5
<1>5. CASE StampSlot
  <2>1. /\ slots' = [slots EXCEPT ![Idx(cons.t)].owner = cons.inc] /\ UNCHANGED views
        /\ cons.pc = "stamp" /\ cons' = [cons EXCEPT !.pc = "lower"]
    BY <1>5 DEF StampSlot, ConsAt, Move
  <2>2. cons'.pc \in Holding /\ cons'.t = cons.t
    BY <1>f, <2>1 DEF ConsumerSet, Holding
  <2>3. \A i \in 0 .. Cap - 1 : i # Idx(cons.t) => slots'[i] = slots[i]
    BY <1>f, <2>1
  <2> QED BY <2>1, <2>2, <2>3 DEF Known, Holding
<1>6. CASE LoadFloor \/ LowerFloor
  <2>1. cons'.pc \in Holding /\ cons'.t = cons.t /\ cons.pc \in {"lower", "cas"}
        /\ UNCHANGED <<slots, views>>
    BY <1>6, <1>f DEF LoadFloor, LowerFloor, ConsAt, Move, TryAgain, ConsumerSet, Holding
  <2> QED BY <1>s, <2>1
<1>7. CASE KeepPinned
  <2>1. cons.pc = "keep" /\ views' = views \cup {cons.t} /\ UNCHANGED slots
    BY <1>7 DEF KeepPinned, ConsAt
  <2> QED BY <2>1 DEF Known
<1>8. CASE FreeTail
  <2>1. cons.pc = "free" /\ slots' = [slots EXCEPT ![Idx(cons.t)] = FreeSlot] /\ UNCHANGED views
    BY <1>8 DEF FreeTail, ConsAt, SetSlot
  <2>2. slots'[Idx(cons.t)].state = "FREE"
    BY <1>f, <2>1 DEF FreeSlot
  <2>3. \A i \in 0 .. Cap - 1 : i # Idx(cons.t) => slots'[i] = slots[i]
    BY <1>f, <2>1
  <2> QED BY <2>1, <2>2, <2>3 DEF Known
<1>9. CASE ConsOpen
  <2>1. /\ cons.pc = "dead" /\ slots' = Reclaimed({i \in 0 .. Cap - 1 : DeadPin(i)})
        /\ UNCHANGED views
    BY <1>9 DEF ConsOpen, ConsAt
  <2>2. views = {}
    BY <1>r, <2>1 DEF Ring, IInv, ViewInv
  <2>3. ASSUME NEW i \in 0 .. Cap - 1 PROVE slots'[i].state # "PINNED"
    <3>1. slots'[i] = IF DeadPin(i) THEN FreeSlot ELSE slots[i]
      BY <2>1 DEF Reclaimed
    <3>2. slots[i].state = "PINNED" => DeadPin(i)
      BY <2>1, <2>2 DEF Known, DeadPin, Holding
    <3> QED BY <3>1, <3>2 DEF FreeSlot
  <2> QED BY <2>3 DEF Known
<1>10. CASE ConsRescan
  <2>1. cons.pc = "rescan" /\ UNCHANGED <<slots, views>>
    BY <1>10 DEF ConsRescan, ConsAt
  <2> QED BY <1>s, <2>1 DEF Holding
<1>11. CASE ConsDie
  <2>1. /\ cons.pc \in {"idle", "gate", "pin", "take", "rescan"} /\ cons'.pc = "dead"
        /\ UNCHANGED slots
    BY <1>11 DEF ConsDie, Consumer, Plain, ReadsComplete
  <2>2. ASSUME NEW i \in 0 .. Cap - 1, slots[i].state = "PINNED" PROVE slots[i].owner # 0
    <3>1. PICK v \in views : Idx(v) = i
      BY <2>1, <2>2 DEF Known, Holding
    <3> QED BY <1>r, <3>1 DEF Owners
  <2> QED BY <2>1, <2>2 DEF Known
<1>12. CASE \E c \in views : Release(c)
  <2>1. PICK c \in views : /\ slots' = [slots EXCEPT ![Idx(c)] = FreeSlot]
                           /\ views' = views \ {c} /\ UNCHANGED cons
    BY <1>12 DEF Release, SetSlot
  <2>2. slots'[Idx(c)].state = "FREE"
    BY <1>f, <2>1 DEF FreeSlot
  <2>3. \A i \in 0 .. Cap - 1 : i # Idx(c) => slots'[i] = slots[i]
    BY <1>f, <2>1
  <2>4. SUFFICES ASSUME NEW i \in 0 .. Cap - 1, slots'[i].state = "PINNED"
                 PROVE  \/ \E v \in views' : Idx(v) = i
                        \/ cons.pc \in Holding /\ i = Idx(cons.t)
                        \/ cons.pc = "dead" /\ slots'[i].owner # 0
    BY <2>1 DEF Known
  <2>5. i # Idx(c) /\ slots'[i] = slots[i]
    BY <2>2, <2>3, <2>4
  <2>6. (\E v \in views : Idx(v) = i) => \E v \in views' : Idx(v) = i
    BY <2>1, <2>5
  <2> QED BY <2>4, <2>5, <2>6 DEF Known
<1>13. CASE UnpinEntry \/ UnpinScan \/ UnpinRaise
  <2>1. UNCHANGED <<slots, views, cons>>
    BY <1>13 DEF UnpinEntry, UnpinScan, UnpinRaise
  <2> QED BY <1>s, <2>1
<1>14. CASE ReclaimStale
  <2>1. UNCHANGED <<views, cons>> /\ \E D : slots' = Reclaimed(D)
    BY <1>14 DEF ReclaimStale
  <2>2. \A i \in 0 .. Cap - 1 : slots'[i].state = "PINNED" => slots[i] = slots'[i]
    BY <2>1 DEF Reclaimed, FreeSlot
  <2> QED BY <1>s, <2>1, <2>2
<1>15. CASE UNCHANGED vars
  <2>1. UNCHANGED <<slots, views, cons>>
    BY <1>15 DEF vars
  <2> QED BY <1>s, <2>1
<1>16. TakeSlot => RecvEnds(cons) \/ cons' = [Adopted(cons.t) EXCEPT !.pc = "free"]
  BY DEF TakeSlot
<1> QED
  BY <1>1, <1>2, <1>3, <1>4, <1>5, <1>6, <1>7, <1>8, <1>9, <1>10, <1>11, <1>12, <1>13, <1>14,
     <1>15, <1>16
  DEF Next, ConsumerStep, ReleaseStep

\* Between receives, the pin a scan finds is a view.
LEMMA FoundIsView ==
  ASSUME Ring, Recent, Known, cons.pc = "idle", NEW c \in Nat,
         WindowStart(tail) <= c, c < tail, slots[Idx(c)].state = "PINNED"
  PROVE  c \in views
<1>1. /\ tail \in Nat /\ Cap \in Nat /\ views \subseteq Nat /\ Idx(c) \in 0 .. Cap - 1
      /\ Low = tail
  <2>1. tail \in Nat /\ Cap \in Nat /\ views \subseteq Nat
    BY QueueFacts, Facts DEF Ring, IInv
  <2> QED BY <2>1, IdxIn DEF Low
<1>2. PICK v \in views : Idx(v) = Idx(c)
  BY <1>1 DEF Known, Holding
<1>3. v \in Nat /\ v < tail /\ tail <= v + Cap
  BY <1>1 DEF Recent
<1>4. tail <= c + Cap
  BY <1>1, WindowFrom
<1>5. ~ (v < c)
  <2>1. SUFFICES ASSUME v < c PROVE FALSE
    OBVIOUS
  <2>2. c < v + Cap
    BY <1>1, <1>3
  <2> QED BY <1>2, <1>3, <2>1, <2>2, Lap
<1>6. ~ (c < v)
  <2>1. SUFFICES ASSUME c < v PROVE FALSE
    OBVIOUS
  <2>2. v < c + Cap
    BY <1>1, <1>3, <1>4
  <2> QED BY <1>2, <1>3, <2>1, <2>2, Lap
<1> QED BY <1>3, <1>5, <1>6

LEMMA MarkedNext ==
  ASSUME OrderInv, Floored, Recent, Plain, Known, Marked, [Next]_vars
  PROVE  Marked'
<1>r. Ring /\ Unpinning
  BY DEF OrderInv, Floored, Plain
<1>f. /\ tail \in Nat /\ cons \in ConsumerSet /\ rel \in ReleaseSet /\ rel.c \in Nat
      /\ rel.c + 1 \in Nat /\ WindowStart(tail) \in Nat
  <2>1. tail \in Nat /\ cons \in ConsumerSet /\ rel \in ReleaseSet /\ rel.c \in Nat
    BY <1>r, QueueFacts, Facts, Fields DEF Ring, IInv
  <2> QED BY <2>1, WindowStartIn
<1>n. NoRelease.pc = "none"
  BY DEF NoRelease
<1>e. \A c : RecvEnds(c) => cons'.pc = "idle"
  BY DEF RecvEnds, Consumer
<1>s. ASSUME UNCHANGED <<floor, rel>>, views \subseteq views',
             cons.pc \in {"dead", "rescan"} => cons'.pc \in {"dead", "rescan"},
             cons.pc = "keep" => (cons'.pc = "keep" /\ cons'.t = cons.t) \/ cons.t \in views'
      PROVE  Marked'
  BY <1>s DEF Marked
<1>1. CASE (\E op \in {"send", "alloc"} : GuardLoad(op)) \/ ProducerStep \/ LeaseEnds
  <2>1. UNCHANGED <<floor, rel, views, cons>>
    BY <1>1, <1>r, Kinds DEF Produces
  <2> QED BY <1>s, <2>1
<1>2. CASE \/ \E op \in {"view", "recv"} : RecvBegin(op)
           \/ Gate \/ PinSlot \/ StampSlot \/ LoadFloor \/ TakeSlot \/ FreeTail \/ AdvanceTail
  <2>1. cons.pc \notin {"dead", "rescan", "keep"} /\ UNCHANGED <<floor, rel, views>>
    BY <1>2
    DEF RecvBegin, Gate, PinSlot, StampSlot, LoadFloor, TakeSlot, FreeTail, AdvanceTail, ConsAt
  <2> QED BY <1>s, <2>1
<1>3. CASE LowerFloor
  <2>1. UNCHANGED <<rel, views>> /\ cons.pc = "cas"
    BY <1>3 DEF LowerFloor, ConsAt
  <2>2. CASE floor' = floor
    BY <1>s, <2>1, <2>2
  <2>3. CASE floor' = cons.t /\ Move("keep")
    <3>1. cons'.pc = "keep" /\ cons'.t = cons.t
      BY <1>f, <2>3 DEF Move, ConsumerSet
    <3> QED BY <2>1, <2>3, <3>1 DEF Marked
  <2> QED BY <1>3, <2>2, <2>3 DEF LowerFloor
<1>4. CASE KeepPinned
  <2>1. UNCHANGED <<floor, rel>> /\ views' = views \cup {cons.t} /\ cons.pc = "keep"
    BY <1>4 DEF KeepPinned, ConsAt
  <2> QED BY <1>s, <2>1
<1>5. CASE ConsOpen \/ ConsDie
  <2>1. cons'.pc \in {"dead", "rescan"} /\ (rel' = NoRelease \/ (rel' = rel /\ cons.pc = "dead"))
    BY <1>5, <1>f DEF ConsOpen, ConsDie, ConsAt, Consumer, ConsumerSet
  <2>2. rel'.pc = "none"
    BY <1>n, <1>r, <2>1 DEF Unpinning, ReleaseSet
  <2> QED BY <2>1, <2>2 DEF Marked
<1>6. CASE ConsRescan
  <2>1. /\ cons.pc = "rescan" /\ rel' = rel
        /\ floor' = LowestPin(slots, WindowStart(tail), tail)
    BY <1>6 DEF ConsRescan, ConsAt, RescannedFloor
  <2>2. rel.pc = "none"
    BY <1>r, <2>1 DEF Unpinning
  <2>3. \A i \in 0 .. Cap - 1 : slots[i].state # "PINNED"
    <3>1. views = {}
      BY <1>r, <2>1 DEF Ring, IInv, ViewInv
    <3> QED BY <2>1, <3>1 DEF Known, Holding
  <2>4. floor' = None
    <3>1. SUFFICES ASSUME LowestPin(slots, WindowStart(tail), tail) # None PROVE FALSE
      BY <2>1
    <3>2. PICK c : c = LowestPin(slots, WindowStart(tail), tail)
      OBVIOUS
    <3>3. c \in Nat /\ slots[Idx(c)].state = "PINNED"
      BY <1>f, <3>1, <3>2, LowestPinIn, LowestPinFound
    <3> QED BY <2>3, <3>3, IdxIn
  <2> QED BY <2>1, <2>2, <2>4 DEF Marked
<1>7. CASE \E c \in views : Release(c)
  <2>1. PICK c \in views :
          /\ rel.pc = "none" /\ cons.pc = "idle" /\ views' = views \ {c}
          /\ rel' = [NoRelease EXCEPT !.pc = "entry", !.c = c] /\ UNCHANGED floor
    BY <1>7 DEF Release, ConsAt, Plain
  <2>2. rel'.pc = "entry" /\ rel'.c = c
    BY <2>1 DEF NoRelease
  <2>3. floor = None \/ floor \in views
    BY <2>1 DEF Marked
  <2> QED BY <2>1, <2>2, <2>3 DEF Marked
<1>8. CASE UnpinEntry
  <2>1. rel.pc = "entry" /\ cons.pc = "idle" /\ UNCHANGED <<floor, views, cons>>
    BY <1>8, <1>r DEF UnpinEntry, Unpinning
  <2>2. CASE floor = rel.c \/ floor = None
    <3>1. rel'.pc = "scan" /\ rel'.c = rel.c
      BY <1>8, <1>f, <2>2 DEF UnpinEntry, ReleaseSet
    <3> QED BY <2>1, <2>2, <3>1 DEF Marked
  <2>3. CASE ~ (floor = rel.c \/ floor = None)
    <3>1. rel'.pc = "none"
      BY <1>8, <1>n, <2>3 DEF UnpinEntry
    <3>2. floor \in views
      BY <2>1, <2>3 DEF Marked
    <3> QED BY <2>1, <3>1, <3>2 DEF Marked
  <2> QED BY <2>2, <2>3
<1>9. CASE UnpinScan
  <2> DEFINE from == IF rel.entry = rel.c THEN Max({rel.c + 1, WindowStart(tail)})
                     ELSE WindowStart(tail)
             next == LowestPin(slots, from, tail)
  <2>1. /\ rel.pc = "scan" /\ cons.pc = "idle" /\ UNCHANGED <<floor, views, cons>>
        /\ floor = rel.entry /\ rel.entry \in {rel.c, None}
    BY <1>9, <1>r DEF UnpinScan, Unpinning
  <2>2. IF next = rel.entry THEN rel' = NoRelease ELSE rel' = [rel EXCEPT !.pc = "raise", !.next = next]
    BY <1>9 DEF UnpinScan
  <2>3. /\ from \in Nat /\ WindowStart(tail) <= from
        /\ rel.entry = rel.c => rel.c + 1 <= from
    <3>1. \A a, b \in Nat : Max({a, b}) = IF a >= b THEN a ELSE b
      BY DEF Max
    <3> QED BY <1>f, <3>1
  <2> HIDE DEF from
  <2>4. next # None => /\ next \in Nat /\ from <= next /\ next < tail
                       /\ slots[Idx(next)].state = "PINNED"
    BY <1>f, <2>3, LowestPinIn, LowestPinFound
  <2> HIDE DEF next
  <2>5. CASE next = rel.entry
    <3>1. rel'.pc = "none"
      BY <1>n, <2>2, <2>5
    <3>2. floor = None
      <4>1. SUFFICES ASSUME floor # None PROVE FALSE
        OBVIOUS
      <4>2. next = rel.c /\ next # None /\ rel.c + 1 <= from
        BY <2>1, <2>3, <2>5, <4>1
      <4> QED BY <1>f, <2>3, <2>4, <4>2
    <3> QED BY <2>1, <3>1, <3>2 DEF Marked
  <2>6. CASE next # rel.entry
    <3>1. rel'.pc = "raise" /\ rel'.c = rel.c /\ rel'.next = next
      BY <1>f, <2>2, <2>6 DEF ReleaseSet
    <3>2. next = None \/ next \in views
      <4>1. SUFFICES ASSUME next # None PROVE next \in views
        OBVIOUS
      <4>2. next \in Nat /\ WindowStart(tail) <= next
        BY <1>f, <2>3, <2>4, <4>1
      <4> QED BY <1>r, <2>1, <2>4, <4>1, <4>2, FoundIsView
    <3> QED BY <2>1, <3>1, <3>2 DEF Marked
  <2> QED BY <2>5, <2>6
<1>10. CASE UnpinRaise
  <2>1. rel.pc = "raise" /\ cons.pc = "idle" /\ floor = rel.entry
    BY <1>10, <1>r DEF UnpinRaise, Unpinning
  <2>2. floor' = rel.next /\ rel'.pc = "none" /\ UNCHANGED <<views, cons>>
    BY <1>10, <1>n, <2>1 DEF UnpinRaise
  <2>3. rel.next = None \/ rel.next \in views
    BY <2>1 DEF Marked
  <2> QED BY <2>1, <2>2, <2>3 DEF Marked
<1>11. CASE ReclaimStale
  <2>1. cons.pc = "dead" /\ UNCHANGED <<cons, rel>>
    BY <1>11 DEF ReclaimStale
  <2>2. rel.pc = "none"
    BY <1>r, <2>1 DEF Unpinning
  <2> QED BY <2>1, <2>2 DEF Marked
<1>12. CASE UNCHANGED vars
  <2>1. UNCHANGED <<floor, rel, views, cons>>
    BY <1>12 DEF vars
  <2> QED BY <1>s, <2>1
<1> QED
  BY <1>1, <1>2, <1>3, <1>4, <1>5, <1>6, <1>7, <1>8, <1>9, <1>10, <1>11, <1>12
  DEF Next, ConsumerStep, ReleaseStep

FloorExact == OrderInv /\ Floored /\ Recent /\ Seen /\ Exact

LEMMA FloorExactInit == Init => FloorExact
<1> SUFFICES ASSUME Init PROVE FloorExact
  OBVIOUS
<1>1. OrderInv /\ Floored
  BY OrderInit, FlooredInit
<1>2. Recent /\ Seen
  BY DEF Init, Recent, Seen
<1>3. cons.pc = "idle" /\ cons.expected = 0 /\ tail = 0 /\ floor = None /\ rel.pc = "none"
  BY DEF Init, Consumer, NoRelease
<1>4. Expecting
  BY <1>3 DEF Expecting, Low
<1>5. \A i \in 0 .. Cap - 1 : slots[i].state = "FREE"
  BY DEF Init, FreeSlot
<1>6. Known /\ Marked
  BY <1>3, <1>5 DEF Known, Marked
<1> QED BY <1>1, <1>2, <1>4, <1>6 DEF FloorExact, Exact

LEMMA FloorExactNext == FloorExact /\ [Next]_vars => FloorExact'
<1> SUFFICES ASSUME FloorExact, [Next]_vars PROVE FloorExact'
  OBVIOUS
<1>1. OrderInv /\ Ring /\ Floored /\ Recent /\ Seen /\ (Plain => Expecting /\ Known /\ Marked)
  BY DEF FloorExact, OrderInv, Exact
<1>2. OrderInv' /\ Floored' /\ Recent' /\ Seen'
  BY <1>1, OrderInvNext, FlooredNext, RecentNext, SeenNext
<1>3. ASSUME Plain' PROVE (Expecting /\ Known /\ Marked)'
  <2>1. Plain /\ Expecting /\ Known /\ Marked
    BY <1>1, <1>3, PlainKept
  <2>2. Expecting'
    BY <1>1, <2>1, ExpectingNext
  <2>3. Known'
    BY <1>1, <2>1, KnownNext
  <2>4. Marked'
    BY <1>1, <2>1, MarkedNext
  <2> QED BY <2>2, <2>3, <2>4
<1> QED BY <1>2, <1>3 DEF FloorExact, Exact

\* "The pin floor records the oldest pinned cursor value", for every capacity,
\* every number of messages and leases and every interleaving of a producer
\* with a consumer whose receives and releases do not overlap and who, if it
\* is killed, is killed outside the steps from its PINNED header to the tail:
\* no view is below the floor the guard counts from, and when no view is held
\* and none is being made or released there is no floor.
THEOREM FloorExactly == Spec => [](ReadsComplete => FloorIsLowestPin)
<1>1. FloorExact /\ ReadsComplete => FloorIsLowestPin
  <2> SUFFICES ASSUME FloorExact, ReadsComplete, ~scenario.threads, "spent" \notin met
               PROVE  /\ \A c \in views : floor <= c
                      /\ views = {} /\ rel.pc = "none" /\ cons.pc \in {"idle", "gate"}
                           => floor = None
    BY DEF FloorIsLowestPin
  <2>1. Seen /\ Marked
    BY DEF FloorExact, Exact, Plain
  <2> QED BY <2>1 DEF Seen, Marked
<1> QED BY <1>1, FloorExactInit, FloorExactNext, PTL DEF Spec

\* Wherever the consumer is killed: no view it holds is below the floor, so
\* that the guard never counts the slot of a view as room.
THEOREM GuardSeesViews == Spec => [](~scenario.threads => \A c \in views : floor <= c)
<1>1. FloorExact => (~scenario.threads => \A c \in views : floor <= c)
  BY DEF FloorExact, Seen
<1> QED BY <1>1, FloorExactInit, FloorExactNext, PTL DEF Spec
=============================================================================
