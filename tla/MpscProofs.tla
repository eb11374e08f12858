---------------------------- MODULE MpscProofs -----------------------------
(***************************************************************************)
(* Proofs about MpscChannel for every capacity, every set of producers and *)
(* every scenario.                                                         *)
(***************************************************************************)
EXTENDS MpscChannel, RingArithmetic

Headers == [state : SlotState, seq : Nat, owner : Producers \cup {NoOne}, reserved : Nat,
            frame : Frames]
Record  == [pc : ProducerPcs, op : {"none", "reserve", "wait", "drop"}, h : Nat, t : Nat,
            start : Nat, need : Nat, done : Nat, seq : Nat, left : Nat, ext : Nat]

-----------------------------------------------------------------------------
(* The slot writes: the slot they name, and no other.                      *)

LEMMA FreeSlotTyped == FreeSlot \in Headers /\ Cleared \in Frames
BY DEF FreeSlot, Cleared, Frames, SlotState, Headers

LEMMA HeaderWritten ==
  ASSUME slots \in Slots, NEW i \in 0 .. Cap - 1, NEW state \in SlotState, NEW seq \in Nat,
         WriteHeader(i, state, seq)
  PROVE  /\ slots' \in Slots
         /\ slots'[i].state = state /\ slots'[i].owner = NoOne /\ slots'[i].reserved = 0
         /\ \A j \in 0 .. Cap - 1 : j # i => slots'[j] = slots[j]
<1>1. slots[i].frame \in Frames
  BY DEF Slots
<1> QED BY <1>1 DEF WriteHeader, Slots

LEMMA FieldsWritten ==
  ASSUME slots \in Slots, NEW i \in 0 .. Cap - 1, NEW seq \in Nat, NEW n \in Nat,
         WriteFields(i, seq, n)
  PROVE  /\ slots' \in Slots
         /\ slots'[i].state = "WRITING" /\ slots'[i].owner = NoOne /\ slots'[i].reserved = n
         /\ \A j \in 0 .. Cap - 1 : j # i => slots'[j] = slots[j]
<1>1. slots[i].frame \in Frames
  BY DEF Slots
<1> QED BY <1>1 DEF WriteFields, Slots, SlotState

LEMMA IdentityPublished ==
  ASSUME slots \in Slots, NEW i \in 0 .. Cap - 1, NEW p \in Producers, PublishIdentity(i, p)
  PROVE  /\ slots' \in Slots
         /\ slots'[i].state = slots[i].state /\ slots'[i].owner = p
         /\ slots'[i].reserved = slots[i].reserved
         /\ \A j \in 0 .. Cap - 1 : j # i => slots'[j] = slots[j]
BY DEF PublishIdentity, Slots

LEMMA SlotReleased ==
  ASSUME slots \in Slots, NEW i \in 0 .. Cap - 1, ReleaseHeader(i)
  PROVE  /\ slots' \in Slots
         /\ slots'[i].state = "FREE" /\ slots'[i].owner = NoOne /\ slots'[i].reserved = 0
         /\ \A j \in 0 .. Cap - 1 : j # i => slots'[j] = slots[j]
<1>1. FreeSlot \in Headers /\ FreeSlot.state = "FREE" /\ FreeSlot.owner = NoOne /\ FreeSlot.reserved = 0
  BY FreeSlotTyped DEF FreeSlot
<1> QED BY <1>1 DEF ReleaseHeader, Slots, Headers

LEMMA SlotFilled ==
  ASSUME TypeOK, NEW p \in Producers, pr[p].seq > 0, FillSlot(p)
  PROVE  /\ slots' \in Slots
         /\ \A j \in 0 .. Cap - 1 : /\ slots'[j].state = slots[j].state
                                    /\ slots'[j].owner = slots[j].owner
                                    /\ slots'[j].reserved = slots[j].reserved
         /\ \A j \in 0 .. Cap - 1 : j # WriteIdx(p) => slots'[j] = slots[j]
<1> DEFINE f == [from |-> p, seq |-> Seq0(p), part |-> pr[p].done, total |-> pr[p].need]
<1>1. pr[p] \in Record
  BY DEF TypeOK, HandleOK, Record
<1>2. f \in Frames
  BY <1>1 DEF Record, Frames, Seq0
<1>3. slots' = [slots EXCEPT ![WriteIdx(p)].frame = f] /\ slots \in Slots
  BY DEF FillSlot, TypeOK, RegionOK
<1> HIDE DEF f
<1> QED BY <1>2, <1>3 DEF Slots

\* A position falls on a slot.
LEMMA PositionsHaveSlots ==
  ASSUME TypeOK
  PROVE  /\ \A q \in Nat : q % Cap \in 0 .. Cap - 1
         /\ TailIdx \in 0 .. Cap - 1
         /\ \A p \in Producers : /\ Position(p) \in Nat /\ WriteIdx(p) \in 0 .. Cap - 1
                                 /\ pr[p].t % Cap \in 0 .. Cap - 1
<1>1. \A q \in Nat : q % Cap \in 0 .. Cap - 1
  BY CapAssumption, LapAndSlot
<1>2. cons.t \in Nat /\ \A p \in Producers : pr[p] \in Record
  BY DEF TypeOK, ReceiverOK, HandleOK, Record
<1> QED BY <1>1, <1>2 DEF TailIdx, WriteIdx, Position, Record

-----------------------------------------------------------------------------
(* Type correctness                                                        *)

\* Typing needs a little of the control: a reservation has been counted, a
\* refresh has a purpose, and a slot to free is one of the extent.
Typed ==
  /\ TypeOK
  /\ \A p \in Producers :
       /\ pr[p].pc \in Writing => pr[p].seq > 0
       /\ pr[p].pc \in {"head", "tail"} => pr[p].op # "none"
       /\ pr[p].pc = "reclaimFree" => pr[p].left \in 1 .. pr[p].ext
  /\ cons.pc = "reclaimFree" => cons.left \in 1 .. cons.ext

\* One handle changes, and its record stays one.
LEMMA HandleChanged ==
  ASSUME Typed, NEW p \in Producers, NEW r \in Record, pr' = [pr EXCEPT ![p] = r],
         r.pc \in Writing => r.seq > 0,
         r.pc \in {"head", "tail"} => r.op # "none",
         r.pc = "reclaimFree" => r.left \in 1 .. r.ext,
         scenario' = scenario, head' \in Nat, tail' \in Nat, slots' \in Slots, alive' = alive,
         cons' = cons, sent' \in Seq(Producers \X Nat), got' = got
  PROVE  Typed'
<1>1. pr \in [Producers -> Record] /\ pr' \in [Producers -> Record]
  BY DEF Typed, TypeOK, HandleOK, Record
<1>2. pr'[p] = r /\ \A q \in Producers : q # p => pr'[q] = pr[q]
  BY <1>1
<1>3. TypeOK'
  BY <1>1 DEF Typed, TypeOK, RegionOK, HandleOK, ReceiverOK, HistoryOK, Record
<1> QED BY <1>2, <1>3 DEF Typed

\* The receiving handle changes.
LEMMA ReceiverChanged ==
  ASSUME Typed, ReceiverOK', cons'.pc = "reclaimFree" => cons'.left \in 1 .. cons'.ext,
         scenario' = scenario, head' = head, tail' \in Nat, slots' \in Slots, alive' = alive,
         pr' = pr, sent' = sent, got' \in Seq((Producers \cup {NoOne}) \X Nat)
  PROVE  Typed'
BY DEF Typed, TypeOK, RegionOK, HandleOK, HistoryOK

LEMMA HandleTyped ==
  ASSUME Typed, NEW p \in Producers
  PROVE  /\ pr[p] \in Record
         /\ pr[p].pc \in Writing => pr[p].seq > 0 /\ Seq0(p) \in Nat
         /\ Handle \in Record /\ [Handle EXCEPT !.seq = pr[p].seq] \in Record
         /\ WriteIdx(p) \in 0 .. Cap - 1 /\ pr[p].t % Cap \in 0 .. Cap - 1
<1>1. pr[p] \in Record
  BY DEF Typed, TypeOK, HandleOK, Record
<1>2. Handle \in Record
  BY DEF Handle, Record, ProducerPcs
<1> QED BY <1>1, <1>2, PositionsHaveSlots DEF Typed, Record, Seq0

\* The fields of a handle's record.
LEMMA RecordFields ==
  ASSUME NEW r \in Record
  PROVE  /\ r.h \in Nat /\ r.t \in Nat /\ r.start \in Nat /\ r.need \in Nat /\ r.done \in Nat
         /\ r.seq \in Nat /\ r.left \in Nat /\ r.ext \in Nat
BY DEF Record

LEMMA TypedInit == Init => Typed
<1> SUFFICES ASSUME Init PROVE Typed
  OBVIOUS
<1>1. RegionOK
  BY FreeSlotTyped DEF Init, RegionOK, Slots, Headers
<1>2. HandleOK
  BY DEF Init, HandleOK, Handle, ProducerPcs
<1>3. ReceiverOK
  BY FreeSlotTyped DEF Init, ReceiverOK, Receiver, ConsumerPcs
<1>4. HistoryOK
  BY DEF Init, HistoryOK
<1> QED BY <1>1, <1>2, <1>3, <1>4 DEF Init, Typed, TypeOK, Handle, Receiver, Writing

LEMMA TypedSend ==
  ASSUME Typed, NEW p \in Producers,
         \/ \E n \in scenario.sizes : SendBegin(p, n)
         \/ LoadHead(p) \/ LoadTail(p) \/ WaitExpires(p) \/ Reserve(p)
         \/ ClaimSlot(p) \/ ClaimExpires(p) \/ MarkSlot(p) \/ StampSlot(p) \/ FillSlot(p)
         \/ CommitSlot(p)
  PROVE  Typed'
<1> DEFINE ended == [Handle EXCEPT !.seq = pr[p].seq]
<1>t. /\ head \in Nat /\ tail \in Nat /\ slots \in Slots /\ sent \in Seq(Producers \X Nat)
      /\ pr[p] \in Record /\ ended \in Record /\ ended.pc = "idle"
      /\ WriteIdx(p) \in 0 .. Cap - 1
      /\ pr[p].pc \in Writing => pr[p].seq > 0 /\ Seq0(p) \in Nat
      /\ pr[p].pc \in {"head", "tail"} => pr[p].op # "none"
  BY HandleTyped DEF Typed, TypeOK, RegionOK, HistoryOK, Handle
<1>r. /\ pr[p].h \in Nat /\ pr[p].need \in Nat /\ pr[p].done \in Nat /\ pr[p].seq \in Nat
  BY <1>t, RecordFields
<1>e. ASSUME SendEnds(p), UNCHANGED <<scenario, head, tail, alive, cons, got>>,
             slots' \in Slots, sent' \in Seq(Producers \X Nat)
      PROVE  Typed'
  <2>1. pr' = [pr EXCEPT ![p] = ended]
    BY <1>e DEF SendEnds
  <2> HIDE DEF ended
  <2> QED BY <2>1, <1>t, <1>e, HandleChanged DEF Writing
<1>1. ASSUME NEW n \in scenario.sizes, SendBegin(p, n) PROVE Typed'
  <2> DEFINE r == [pr[p] EXCEPT !.pc = "head", !.op = "reserve", !.need = n]
  <2>1. n \in Nat
    BY ScenariosAssumption DEF Typed, TypeOK
  <2>2. r \in Record /\ r.pc = "head" /\ r.op = "reserve"
    BY <1>t, <2>1 DEF Record, ProducerPcs
  <2>3. pr' = [pr EXCEPT ![p] = r]
    BY <1>1 DEF SendBegin
  <2> HIDE DEF r
  <2> QED BY <1>1, <1>t, <2>2, <2>3, HandleChanged DEF SendBegin, Writing
<1>2. CASE LoadHead(p)
  <2> DEFINE r == [pr[p] EXCEPT !.pc = "tail", !.h = head]
  <2>1. r \in Record /\ r.pc = "tail" /\ r.op = pr[p].op
    BY <1>t DEF Record, ProducerPcs
  <2>2. pr' = [pr EXCEPT ![p] = r] /\ pr[p].pc = "head"
    BY <1>2 DEF LoadHead, At
  <2> HIDE DEF r
  <2> QED BY <1>2, <1>t, <2>1, <2>2, HandleChanged DEF LoadHead, Writing
<1>3. CASE LoadTail(p)
  <2> DEFINE next == AfterRefresh(p, pr[p].h, tail)
             r == [pr[p] EXCEPT !.t = tail, !.pc = next.pc, !.op = next.op]
  <2>1. pr[p].pc = "tail" /\ pr[p].op \in {"reserve", "wait", "drop"}
    BY <1>3, <1>t DEF LoadTail, At, Record
  <2>2. next \in [pc : {"idle", "head", "cas", "gate"}, op : {"none", "reserve", "wait", "drop"}]
        /\ (next.pc = "head" => next.op # "none")
    BY <2>1 DEF AfterRefresh, Refused
  <2>3. CASE next.pc = "idle"
    BY <1>3, <1>t, <1>e, <2>3 DEF LoadTail
  <2>4. CASE next.pc # "idle"
    <3> HIDE DEF next
    <3>1. r \in Record /\ r.pc = next.pc /\ r.op = next.op
      BY <1>t, <2>2 DEF Record, ProducerPcs
    <3>2. pr' = [pr EXCEPT ![p] = r] /\ UNCHANGED <<scenario, head, tail, slots, alive, cons, sent, got>>
      BY <1>3, <2>4 DEF LoadTail, next
    <3> HIDE DEF r
    <3> QED BY <1>t, <2>2, <2>4, <3>1, <3>2, HandleChanged DEF Writing
  <2> QED BY <2>3, <2>4
<1>4. CASE WaitExpires(p)
  BY <1>4, <1>t, <1>e DEF WaitExpires
<1>5. CASE Reserve(p)
  <2>1. CASE HeadIs(p)
    <3> DEFINE r == [pr[p] EXCEPT !.pc = "claim", !.start = pr[p].h, !.done = 0, !.seq = pr[p].seq + 1]
    <3>0. pr[p].seq + 1 \in Nat /\ pr[p].seq + 1 > 0 /\ pr[p].h + pr[p].need \in Nat
      BY <1>r
    <3>1. r \in Record /\ r.pc = "claim" /\ r.seq = pr[p].seq + 1
      BY <1>t, <3>0 DEF Record, ProducerPcs
    <3>2. pr' = [pr EXCEPT ![p] = r] /\ head' = pr[p].h + pr[p].need
          /\ UNCHANGED <<scenario, tail, slots, alive, cons, sent, got>>
      BY <1>5, <2>1 DEF Reserve
    <3> HIDE DEF r
    <3> QED BY <1>t, <3>0, <3>1, <3>2, HandleChanged DEF Writing
  <2>2. CASE ~HeadIs(p)
    <3> DEFINE r == [pr[p] EXCEPT !.pc = "head", !.op = "reserve"]
    <3>1. r \in Record /\ r.pc = "head" /\ r.op = "reserve"
      BY <1>t DEF Record, ProducerPcs
    <3>2. pr' = [pr EXCEPT ![p] = r] /\ UNCHANGED <<scenario, head, tail, slots, alive, cons, sent, got>>
      BY <1>5, <2>2 DEF Reserve, Refresh
    <3> HIDE DEF r
    <3> QED BY <1>t, <3>1, <3>2, HandleChanged DEF Writing
  <2> QED BY <2>1, <2>2
<1>6. ASSUME NEW to \in {"mark", "stamp", "fill", "commit"}, Goto(p, to),
             pr[p].pc \in Writing, UNCHANGED <<scenario, head, tail, alive, cons, sent, got>>,
             slots' \in Slots
      PROVE  Typed'
  <2> DEFINE r == [pr[p] EXCEPT !.pc = to]
  <2>1. r \in Record /\ r.pc = to /\ r.seq = pr[p].seq
    BY <1>t, <1>6 DEF Record, ProducerPcs
  <2>2. pr' = [pr EXCEPT ![p] = r]
    BY <1>6 DEF Goto
  <2> HIDE DEF r
  <2> QED BY <1>t, <1>6, <2>1, <2>2, HandleChanged DEF Writing
<1>7. CASE ClaimSlot(p)
  BY <1>7, <1>6, <1>t DEF ClaimSlot, At, Writing
<1>8. CASE ClaimExpires(p)
  BY <1>8, <1>t, <1>e DEF ClaimExpires
<1>9. CASE MarkSlot(p)
  <2>1. pr[p].pc \in Writing /\ pr[p].need \in Nat
    BY <1>9, <1>t DEF MarkSlot, At, Writing, Record
  <2>2. slots' \in Slots
    BY <1>9, <1>t, <2>1, FieldsWritten DEF MarkSlot
  <2> QED BY <1>9, <1>6, <2>1, <2>2 DEF MarkSlot
<1>10. CASE StampSlot(p)
  <2>1. slots' \in Slots
    BY <1>10, <1>t, IdentityPublished DEF StampSlot
  <2> QED BY <1>10, <1>6, <2>1 DEF StampSlot, At, Writing
<1>11. CASE FillSlot(p)
  <2>1. pr[p].pc = "fill"
    BY <1>11 DEF FillSlot, At
  <2>2. slots' \in Slots
    BY <1>11, <1>t, <2>1, SlotFilled DEF Typed, Writing
  <2> QED BY <1>11, <1>6, <2>1, <2>2 DEF FillSlot, Writing
<1>12. CASE CommitSlot(p)
  <2>1. pr[p].pc \in Writing /\ Seq0(p) \in Nat /\ pr[p].seq > 0
    BY <1>12, <1>t DEF CommitSlot, At, Writing
  <2>2. slots' \in Slots
    BY <1>12, <1>t, <2>1, HeaderWritten DEF CommitSlot, SlotState
  <2>3. CASE pr[p].done + 1 < pr[p].need
    <3> DEFINE r == [pr[p] EXCEPT !.pc = "claim", !.done = pr[p].done + 1]
    <3>0. pr[p].done + 1 \in Nat
      BY <1>r
    <3>1. r \in Record /\ r.pc = "claim" /\ r.seq = pr[p].seq
      BY <1>t, <3>0 DEF Record, ProducerPcs
    <3>2. pr' = [pr EXCEPT ![p] = r] /\ UNCHANGED <<scenario, head, tail, alive, cons, sent, got>>
      BY <1>12, <2>3 DEF CommitSlot
    <3> HIDE DEF r
    <3> QED BY <1>t, <2>1, <2>2, <3>1, <3>2, HandleChanged DEF Writing
  <2>4. CASE ~ (pr[p].done + 1 < pr[p].need)
    <3>1. sent' = Append(sent, <<p, Seq0(p)>>) /\ SendEnds(p)
          /\ UNCHANGED <<scenario, head, tail, alive, cons, got>>
      BY <1>12, <2>4 DEF CommitSlot
    <3>2. sent' \in Seq(Producers \X Nat)
      BY <1>t, <2>1, <3>1
    <3> QED BY <1>e, <2>2, <3>1, <3>2
  <2> QED BY <2>3, <2>4
<1> QED BY <1>1, <1>2, <1>3, <1>4, <1>5, <1>7, <1>8, <1>9, <1>10, <1>11, <1>12

LEMMA ExtentTyped ==
  ASSUME NEW h \in Nat, NEW t \in Nat
  PROVE  Extent(h, t) \in Nat /\ (Extent(h, t) > 0 => Extent(h, t) = slots[t % Cap].reserved)
<1>1. h > t => h - t \in Nat
  OBVIOUS
<1> QED BY <1>1 DEF Extent

LEMMA TypedDrop ==
  ASSUME Typed, NEW p \in Producers,
         \/ DropGate(p) \/ DropLook(p) \/ DropTail(p) \/ DropFree(p)
         \/ DropVerify(p) \/ DropExpires(p) \/ DropReclaimFree(p) \/ DropReclaimTail(p)
  PROVE  Typed'
<1> DEFINE ended == [Handle EXCEPT !.seq = pr[p].seq]
           i == pr[p].t % Cap
<1>t. /\ head \in Nat /\ tail \in Nat /\ slots \in Slots /\ sent \in Seq(Producers \X Nat)
      /\ pr[p] \in Record /\ ended \in Record /\ ended.pc = "idle" /\ i \in 0 .. Cap - 1
  BY HandleTyped DEF Typed, TypeOK, RegionOK, HistoryOK, Handle
<1>r. /\ pr[p].h \in Nat /\ pr[p].t \in Nat /\ pr[p].left \in Nat /\ pr[p].ext \in Nat
  BY <1>t, RecordFields
<1>s. slots[i].frame.total \in Nat
  BY <1>t DEF Slots, Frames
<1> HIDE DEF i
<1>e. ASSUME SendEnds(p), UNCHANGED <<scenario, head, tail, slots, alive, cons, sent, got>>
      PROVE  Typed'
  <2>1. pr' = [pr EXCEPT ![p] = ended]
    BY <1>e DEF SendEnds
  <2> HIDE DEF ended
  <2> QED BY <2>1, <1>t, <1>e, HandleChanged DEF Writing
<1>g. ASSUME NEW to \in {"look", "verify", "dropFree"}, Goto(p, to),
             UNCHANGED <<scenario, head, slots, alive, cons, sent, got>>, tail' \in Nat
      PROVE  Typed'
  <2> DEFINE r == [pr[p] EXCEPT !.pc = to]
  <2>1. r \in Record /\ r.pc = to
    BY <1>t DEF Record, ProducerPcs
  <2>2. pr' = [pr EXCEPT ![p] = r]
    BY <1>g DEF Goto
  <2> HIDE DEF r
  <2> QED BY <1>t, <1>g, <2>1, <2>2, HandleChanged DEF Writing
<1>h. ASSUME Refresh(p, "drop"), UNCHANGED <<scenario, head, alive, cons, sent, got>>,
             tail' \in Nat, slots' \in Slots
      PROVE  Typed'
  <2> DEFINE r == [pr[p] EXCEPT !.pc = "head", !.op = "drop"]
  <2>1. r \in Record /\ r.pc = "head" /\ r.op = "drop"
    BY <1>t DEF Record, ProducerPcs
  <2>2. pr' = [pr EXCEPT ![p] = r]
    BY <1>h DEF Refresh
  <2> HIDE DEF r
  <2> QED BY <1>t, <1>h, <2>1, <2>2, HandleChanged DEF Writing
<1>d. ASSUME NEW t \in Nat, DropReturns(p, t), slots' \in Slots,
             UNCHANGED <<scenario, head, tail, alive, cons, sent, got>>
      PROVE  Typed'
  <2> DEFINE op == IF HasRoom(pr[p].h, t, pr[p].need) THEN "reserve" ELSE "drop"
             r == [pr[p] EXCEPT !.t = t, !.left = 0, !.pc = "head", !.op = op]
  <2>1. op \in {"reserve", "drop"}
    OBVIOUS
  <2>2. pr' = [pr EXCEPT ![p] = r]
    BY <1>d DEF DropReturns
  <2> HIDE DEF op
  <2>3. r \in Record /\ r.pc = "head" /\ r.op = op
    BY <1>t, <2>1 DEF Record, ProducerPcs
  <2> HIDE DEF r
  <2> QED BY <1>t, <1>d, <2>1, <2>2, <2>3, HandleChanged DEF Writing
<1>1. CASE DropGate(p)
  BY <1>1, <1>g, <1>t DEF DropGate
<1>2. CASE DropLook(p)
  <2>1. CASE Refresh(p, "drop")
    BY <1>2, <1>h, <1>t, <2>1 DEF DropLook
  <2>2. CASE SendEnds(p)
    BY <1>2, <1>e, <2>2 DEF DropLook
  <2>3. CASE pr' = [pr EXCEPT ![p].pc = "dropTail", ![p].left = slots[pr[p].t % Cap].frame.total]
    <3> DEFINE r == [pr[p] EXCEPT !.pc = "dropTail", !.left = slots[i].frame.total]
    <3>1. r \in Record /\ r.pc = "dropTail"
      BY <1>t, <1>s DEF Record, ProducerPcs
    <3>2. pr' = [pr EXCEPT ![p] = r] /\ UNCHANGED <<scenario, head, tail, slots, alive, cons, sent, got>>
      BY <1>2, <2>3 DEF DropLook, i
    <3> HIDE DEF r
    <3> QED BY <1>t, <3>1, <3>2, HandleChanged DEF Writing
  <2> QED BY <1>2, <2>1, <2>2, <2>3 DEF DropLook
<1>3. CASE DropTail(p)
  <2>1. CASE TailIs(pr[p].t)
    <3>1. tail' \in Nat
      BY <1>3, <1>r, <2>1 DEF DropTail
    <3> QED BY <1>3, <1>g, <2>1, <3>1 DEF DropTail
  <2>2. CASE ~TailIs(pr[p].t)
    BY <1>3, <1>d, <1>r, <1>t, <2>2 DEF DropTail
  <2> QED BY <2>1, <2>2
<1>4. CASE DropFree(p)
  <2>1. slots' \in Slots
    BY <1>4, <1>t, SlotReleased DEF DropFree, i
  <2>2. CASE pr[p].left > 1
    <3> DEFINE r == [pr[p] EXCEPT !.t = pr[p].t + 1, !.left = pr[p].left - 1]
    <3>1. pr[p].t + 1 \in Nat /\ pr[p].left - 1 \in Nat /\ pr[p].pc = "dropFree"
      BY <1>4, <1>r, <2>2 DEF DropFree, At
    <3>2. r \in Record /\ r.pc = "dropFree"
      BY <1>t, <3>1 DEF Record
    <3>3. pr' = [pr EXCEPT ![p] = r] /\ UNCHANGED <<scenario, head, tail, alive, cons, sent, got>>
      BY <1>4, <2>2 DEF DropFree
    <3> HIDE DEF r
    <3> QED BY <1>t, <2>1, <3>2, <3>3, HandleChanged DEF Writing
  <2>3. CASE ~ (pr[p].left > 1)
    <3>1. pr[p].t + 1 \in Nat
      BY <1>r
    <3> QED BY <1>4, <1>d, <2>1, <2>3, <3>1 DEF DropFree
  <2> QED BY <2>2, <2>3
<1>5. CASE DropVerify(p)
  <2> DEFINE n == Extent(pr[p].h, pr[p].t)
             r == [pr[p] EXCEPT !.pc = "reclaimFree", !.left = n, !.ext = n]
  <2>1. n \in Nat
    BY <1>r, ExtentTyped
  <2>2. CASE n = 0
    BY <1>5, <1>h, <1>t, <2>2 DEF DropVerify
  <2>3. CASE n > 0
    <3>0. /\ pr' = [pr EXCEPT ![p].pc = "reclaimFree", ![p].left = n, ![p].ext = n]
          /\ UNCHANGED <<scenario, head, tail, slots, alive, cons, sent, got>>
      BY <1>5, <2>1, <2>3 DEF DropVerify
    <3> HIDE DEF n
    <3>1. pr' = [pr EXCEPT ![p] = r]
      BY <3>0
    <3>3. n \in 1 .. n
      BY <2>1, <2>3
    <3>2. r \in Record /\ r.pc = "reclaimFree" /\ r.left = n /\ r.ext = n
      BY <1>t, <2>1 DEF Record, ProducerPcs
    <3> HIDE DEF r
    <3> QED BY <1>t, <3>0, <3>1, <3>2, <3>3, HandleChanged DEF Writing
  <2> QED BY <2>1, <2>2, <2>3
<1>6. CASE DropExpires(p)
  BY <1>6, <1>e DEF DropExpires
<1>7. CASE DropReclaimFree(p)
  <2>0. pr[p].pc = "reclaimFree" /\ pr[p].left \in 1 .. pr[p].ext
    BY <1>7 DEF DropReclaimFree, At, Typed
  <2>1. pr[p].t + pr[p].ext - pr[p].left \in Nat
    BY <1>r, <2>0
  <2>2. (pr[p].t + pr[p].ext - pr[p].left) % Cap \in 0 .. Cap - 1
    BY <2>1, CapAssumption, LapAndSlot
  <2>3. slots' \in Slots
    BY <1>7, <1>t, <2>2, SlotReleased DEF DropReclaimFree
  <2> DEFINE to == IF pr[p].left > 1 THEN "reclaimFree" ELSE "reclaimTail"
             r == [pr[p] EXCEPT !.left = pr[p].left - 1, !.pc = to]
  <2>4. pr[p].left - 1 \in Nat /\ (to = "reclaimFree" => pr[p].left - 1 \in 1 .. pr[p].ext)
        /\ to \in {"reclaimFree", "reclaimTail"}
    BY <1>r, <2>0
  <2>5. pr' = [pr EXCEPT ![p] = r] /\ UNCHANGED <<scenario, head, tail, alive, cons, sent, got>>
    BY <1>7, <2>0 DEF DropReclaimFree
  <2> HIDE DEF to
  <2>6. r \in Record /\ r.pc = to /\ r.left = pr[p].left - 1 /\ r.ext = pr[p].ext
    BY <1>t, <2>4 DEF Record, ProducerPcs
  <2> HIDE DEF r
  <2> QED BY <1>t, <2>3, <2>4, <2>5, <2>6, HandleChanged DEF Writing
<1>8. CASE DropReclaimTail(p)
  <2>1. tail' \in Nat
    BY <1>8, <1>t, <1>r DEF DropReclaimTail
  <2> QED BY <1>8, <1>h, <1>t, <2>1 DEF DropReclaimTail
<1> QED BY <1>1, <1>2, <1>3, <1>4, <1>5, <1>6, <1>7, <1>8

LEMMA TypedRecv == ASSUME Typed, ConsumerStep PROVE Typed'
<1>t. /\ head \in Nat /\ tail \in Nat /\ slots \in Slots /\ ReceiverOK
      /\ got \in Seq((Producers \cup {NoOne}) \X Nat)
      /\ cons.t \in Nat /\ cons.seq \in Nat /\ cons.left \in Nat /\ cons.ext \in Nat
      /\ cons.frame \in Frames
      /\ cons.pc = "reclaimFree" => cons.left \in 1 .. cons.ext
  BY DEF Typed, TypeOK, RegionOK, ReceiverOK, HistoryOK
<1>i. TailIdx \in 0 .. Cap - 1 /\ slots[TailIdx].seq \in Nat /\ slots[TailIdx].frame \in Frames
  <2>1. TailIdx \in 0 .. Cap - 1
    BY PositionsHaveSlots DEF Typed
  <2> QED BY <1>t, <2>1 DEF Slots
<1>c. Receiver \in [pc : ConsumerPcs, h : Nat, t : Nat, seq : Nat, frame : Frames,
                    first : Frames, part : Nat, left : Nat, ext : Nat] /\ Receiver.pc = "idle"
  BY FreeSlotTyped DEF Receiver, ConsumerPcs
<1>e. ASSUME RecvEnds, UNCHANGED <<scenario, head, alive, pr, sent>>, tail' \in Nat, slots' \in Slots,
             got' \in Seq((Producers \cup {NoOne}) \X Nat)
      PROVE  Typed'
  <2>1. ReceiverOK' /\ cons'.pc = "idle"
    BY <1>c, <1>e DEF RecvEnds, ReceiverOK
  <2> QED BY <1>e, <2>1, ReceiverChanged
<1>m. ASSUME NEW to \in {"verify", "release", "advance"}, Move(to),
             UNCHANGED <<scenario, head, tail, alive, pr, sent, got>>, slots' \in Slots
      PROVE  Typed'
  <2>1. ReceiverOK' /\ cons'.pc = to
    BY <1>t, <1>m DEF Move, ReceiverOK, ConsumerPcs
  <2> QED BY <1>t, <1>m, <2>1, ReceiverChanged
<1>1. CASE RecvBegin
  <2>1. ReceiverOK' /\ cons'.pc = "gate"
    BY <1>1, <1>t, <1>c DEF RecvBegin, ReceiverOK, ConsumerPcs
  <2> QED BY <1>1, <1>t, <2>1, ReceiverChanged DEF RecvBegin
<1>2. CASE SecondLook
  <2>1. CASE Readable(TailIdx)
    <3>1. ReceiverOK' /\ cons'.pc = "copy"
      BY <1>2, <1>t, <1>i, <2>1 DEF SecondLook, ReceiverOK, ConsumerPcs
    <3> QED BY <1>2, <1>t, <3>1, ReceiverChanged DEF SecondLook
  <2>2. CASE ~Readable(TailIdx)
    BY <1>2, <1>t, <1>e, <2>2 DEF SecondLook
  <2> QED BY <2>1, <2>2
<1>3. CASE Gate
  <2>1. CASE cons' = [cons EXCEPT !.pc = "copy", !.seq = slots[TailIdx].seq]
    <3>1. ReceiverOK' /\ cons'.pc = "copy"
      BY <1>t, <1>i, <2>1 DEF ReceiverOK, ConsumerPcs
    <3> QED BY <1>3, <1>t, <3>1, ReceiverChanged DEF Gate
  <2>2. CASE Move("verify")
    BY <1>3, <1>t, <1>m, <2>2 DEF Gate
  <2>3. CASE RecvEnds
    BY <1>3, <1>t, <1>e, <2>3 DEF Gate
  <2> QED BY <1>3, <2>1, <2>2, <2>3 DEF Gate
<1>4. CASE Verify
  <2> DEFINE n == Extent(cons.h, cons.t)
  <2>1. n \in Nat
    BY <1>t, ExtentTyped DEF ReceiverOK
  <2>2. CASE n = 0
    BY <1>4, <1>t, <1>e, <2>2 DEF Verify
  <2>3. CASE n > 0
    <3>1. /\ cons' = [cons EXCEPT !.pc = "reclaimFree", !.left = n, !.ext = n]
          /\ UNCHANGED <<scenario, head, tail, slots, alive, pr, sent, got>>
      BY <1>4, <2>3, <2>1 DEF Verify
    <3> HIDE DEF n
    <3>2. ReceiverOK' /\ cons'.left = n /\ cons'.ext = n
      BY <1>t, <2>1, <3>1 DEF ReceiverOK, ConsumerPcs
    <3>3. n \in 1 .. n
      BY <2>1, <2>3
    <3> QED BY <1>t, <3>1, <3>2, <3>3, ReceiverChanged
  <2> QED BY <2>1, <2>2, <2>3
<1>5. CASE ReclaimFree
  <2>0. cons.pc = "reclaimFree" /\ cons.left \in 1 .. cons.ext
    BY <1>5, <1>t DEF ReclaimFree, ConsAt
  <2>1. cons.t + cons.ext - cons.left \in Nat
    BY <1>t, <2>0
  <2>2. (cons.t + cons.ext - cons.left) % Cap \in 0 .. Cap - 1
    BY <2>1, CapAssumption, LapAndSlot
  <2>3. slots' \in Slots
    BY <1>5, <1>t, <2>2, SlotReleased DEF ReclaimFree
  <2> DEFINE to == IF cons.left > 1 THEN "reclaimFree" ELSE "reclaimTail"
  <2>4. cons.left - 1 \in Nat /\ (to = "reclaimFree" => cons.left - 1 \in 1 .. cons.ext)
        /\ to \in {"reclaimFree", "reclaimTail"}
    BY <1>t, <2>0
  <2>5. cons' = [cons EXCEPT !.left = cons.left - 1, !.pc = to]
        /\ UNCHANGED <<scenario, head, tail, alive, pr, sent, got>>
    BY <1>5, <2>0 DEF ReclaimFree
  <2> HIDE DEF to
  <2>6. ReceiverOK' /\ cons'.pc = to /\ cons'.left = cons.left - 1 /\ cons'.ext = cons.ext
    BY <1>t, <2>4, <2>5 DEF ReceiverOK, ConsumerPcs
  <2> QED BY <1>t, <2>3, <2>4, <2>5, <2>6, ReceiverChanged
<1>6. CASE ReclaimTail
  <2>1. CASE TailIs(cons.t)
    <3>1. cons.t + cons.ext \in Nat
      BY <1>t
    <3>2. cons' = [cons EXCEPT !.t = cons.t + cons.ext, !.pc = "second"] /\ tail' = cons.t + cons.ext
          /\ UNCHANGED <<scenario, head, slots, alive, pr, sent, got>>
      BY <1>6, <2>1 DEF ReclaimTail
    <3>3. ReceiverOK' /\ cons'.pc = "second"
      BY <1>t, <3>1, <3>2 DEF ReceiverOK, ConsumerPcs
    <3> QED BY <1>t, <3>1, <3>2, <3>3, ReceiverChanged
  <2>2. CASE ~TailIs(cons.t)
    BY <1>6, <1>t, <1>e, <2>2 DEF ReclaimTail
  <2> QED BY <2>1, <2>2
<1>7. CASE CopyPayload
  <2>1. ReceiverOK' /\ cons'.pc = "pin"
    BY <1>7, <1>t, <1>i DEF CopyPayload, ReceiverOK, ConsumerPcs
  <2> QED BY <1>7, <1>t, <2>1, ReceiverChanged DEF CopyPayload
<1>8. CASE PinSlot
  <2>1. slots' \in Slots
    BY <1>8, <1>t, <1>i, HeaderWritten DEF PinSlot, SlotState
  <2>2. ReceiverOK' /\ cons'.pc = "check"
    BY <1>8, <1>t DEF PinSlot, ReceiverOK, ConsumerPcs
  <2> QED BY <1>8, <1>t, <2>1, <2>2, ReceiverChanged DEF PinSlot
<1>9. CASE CheckPinned
  BY <1>9, <1>t, <1>m, <1>e DEF CheckPinned
<1>10. CASE FreeTail
  <2>1. slots' \in Slots
    BY <1>10, <1>t, <1>i, SlotReleased DEF FreeTail
  <2> QED BY <1>10, <1>t, <1>m, <1>e, <2>1 DEF FreeTail
<1>11. CASE AdvanceTail
  <2> DEFINE take == Verdict = "take"
             last == cons.part + 1 >= cons.first.total
  <2>1. tail' \in Nat
    BY <1>11, <1>t DEF AdvanceTail, FetchMaxTail
  <2>2. got' \in Seq((Producers \cup {NoOne}) \X Nat)
    <3>1. <<cons.frame.from, cons.frame.seq>> \in (Producers \cup {NoOne}) \X Nat
      BY <1>t DEF Frames
    <3> QED BY <1>11, <1>t, <3>1 DEF AdvanceTail
  <2>3. CASE RecvEnds
    BY <1>11, <1>t, <1>e, <2>1, <2>2, <2>3 DEF AdvanceTail
  <2>4. CASE cons' = [cons EXCEPT !.t = @ + 1, !.part = @ + 1, !.pc = "gate"]
    <3>1. cons.t + 1 \in Nat /\ cons.part + 1 \in Nat
      BY <1>t DEF ReceiverOK
    <3>2. cons' = [cons EXCEPT !.t = cons.t + 1, !.part = cons.part + 1, !.pc = "gate"]
      BY <2>4
    <3>3. ReceiverOK' /\ cons'.pc = "gate"
      BY <1>t, <3>1, <3>2 DEF ReceiverOK, ConsumerPcs
    <3> QED BY <1>11, <1>t, <2>1, <2>2, <3>3, ReceiverChanged DEF AdvanceTail
  <2> QED BY <1>11, <2>3, <2>4 DEF AdvanceTail
<1> QED BY <1>1, <1>2, <1>3, <1>4, <1>5, <1>6, <1>7, <1>8, <1>9, <1>10, <1>11 DEF ConsumerStep

LEMMA TypedNext == Typed /\ [Next]_vars => Typed'
<1> SUFFICES ASSUME Typed, [Next]_vars PROVE Typed'
  OBVIOUS
<1>1. ASSUME NEW p \in Producers, Die(p) PROVE Typed'
  BY <1>1 DEF Die, Typed, TypeOK, RegionOK, HandleOK, ReceiverOK, HistoryOK
<1>2. CASE UNCHANGED vars
  BY <1>2 DEF vars, Typed, TypeOK, RegionOK, HandleOK, ReceiverOK, HistoryOK
<1> QED BY <1>1, <1>2, TypedSend, TypedDrop, TypedRecv DEF Next, ProducerStep

\* Whatever the handles do, the region and every handle's state keep their
\* types: the fields a send, a drop or a reclaim computes stay natural numbers.
THEOREM TypeCorrect == Spec => []TypeOK
<1>1. Typed => TypeOK
  BY DEF Typed
<1> QED BY <1>1, TypedInit, TypedNext, PTL DEF Spec

-----------------------------------------------------------------------------
(***************************************************************************)
(* Why two live handles of a multi-producer channel never hold one slot.   *)
(*                                                                         *)
(* A reservation is a range of positions that only its handle's            *)
(* compare-and-exchange could take, so ranges never overlap, and the guard *)
(* on the depth keeps the head within one lap of the tail.  What is left   *)
(* is that the tail never passes a position a live handle has still to     *)
(* write: the consumer passes a slot it saw COMMITTED, or one whose writer *)
(* it knows to be dead, and neither is such a slot.                        *)
(***************************************************************************)

\* The handles' side: what is claimed is what the head counted.
Reserved ==
  /\ head <= tail + Cap
  /\ \A p \in Producers :
       /\ pr[p].pc # "idle" => pr[p].need \in scenario.sizes
       /\ pr[p].pc = "cas" =>
            /\ pr[p].t <= tail /\ ~Inconsistent(pr[p].h, pr[p].t)
            /\ HasRoom(pr[p].h, pr[p].t, pr[p].need)
       /\ pr[p].pc \in Writing =>
            /\ pr[p].start + pr[p].need <= head
            /\ pr[p].done < pr[p].need
  /\ \A p, q \in Producers : p # q /\ pr[p].pc \in Writing /\ pr[q].pc \in Writing =>
       \/ pr[p].start + pr[p].need <= pr[q].start
       \/ pr[q].start + pr[q].need <= pr[p].start

LEMMA Fields ==
  ASSUME Typed
  PROVE  /\ head \in Nat /\ tail \in Nat /\ slots \in Slots /\ pr \in [Producers -> Record]
         /\ \A p \in Producers :
              /\ pr[p].pc \in ProducerPcs /\ pr[p].h \in Nat /\ pr[p].t \in Nat /\ pr[p].start \in Nat
              /\ pr[p].need \in Nat /\ pr[p].done \in Nat /\ pr[p].left \in Nat /\ pr[p].ext \in Nat
         /\ cons.t \in Nat /\ cons.ext \in Nat
         /\ \A n \in scenario.sizes : n \in Nat \ {0}
<1>1. pr \in [Producers -> Record]
  BY DEF Typed, TypeOK, HandleOK, Record
<1>2. \A p \in Producers : pr[p].pc \in ProducerPcs
  BY <1>1 DEF Record
<1>3. \A n \in scenario.sizes : n \in Nat \ {0}
  BY ScenariosAssumption DEF Typed, TypeOK
<1> QED BY <1>1, <1>2, <1>3, RecordFields DEF Typed, TypeOK, RegionOK, ReceiverOK

\* One handle goes on, without a new reservation.
LEMMA ReservedKept ==
  ASSUME Typed, Reserved, Typed', NEW p \in Producers,
         head' = head, tail' >= tail, scenario' = scenario,
         \A q \in Producers : q # p => pr'[q] = pr[q],
         pr'[p].pc # "idle" => pr'[p].need \in scenario.sizes,
         pr'[p].pc = "cas" => /\ pr'[p].t <= tail' /\ ~Inconsistent(pr'[p].h, pr'[p].t)
                              /\ HasRoom(pr'[p].h, pr'[p].t, pr'[p].need),
         pr'[p].pc \in Writing => /\ pr[p].pc \in Writing
                                  /\ pr'[p].start = pr[p].start /\ pr'[p].need = pr[p].need
                                  /\ pr'[p].done < pr'[p].need
  PROVE  Reserved'
<1>1. tail' \in Nat
  BY DEF Typed, TypeOK, RegionOK
<1>2. head' <= tail' + Cap
  BY <1>1, Fields, CapAssumption DEF Reserved
<1>3. ASSUME NEW q \in Producers
      PROVE  /\ pr'[q].pc # "idle" => pr'[q].need \in scenario'.sizes
             /\ pr'[q].pc = "cas" =>
                  /\ pr'[q].t <= tail' /\ ~Inconsistent(pr'[q].h, pr'[q].t)
                  /\ HasRoom(pr'[q].h, pr'[q].t, pr'[q].need)
             /\ pr'[q].pc \in Writing =>
                  /\ pr'[q].start + pr'[q].need <= head'
                  /\ pr'[q].done < pr'[q].need
  <2>1. CASE q = p
    BY <2>1 DEF Reserved
  <2>2. CASE q # p
    <3>1. pr'[q] = pr[q]
      BY <2>2
    <3>2. pr[q].pc = "cas" => pr[q].t <= tail'
      BY <1>1, Fields DEF Reserved
    <3> QED BY <3>1, <3>2 DEF Reserved
  <2> QED BY <2>1, <2>2
<1>4. ASSUME NEW a \in Producers, NEW b \in Producers, a # b,
             pr'[a].pc \in Writing, pr'[b].pc \in Writing
      PROVE  \/ pr'[a].start + pr'[a].need <= pr'[b].start
             \/ pr'[b].start + pr'[b].need <= pr'[a].start
  <2>1. /\ pr[a].pc \in Writing /\ pr'[a].start = pr[a].start /\ pr'[a].need = pr[a].need
        /\ pr[b].pc \in Writing /\ pr'[b].start = pr[b].start /\ pr'[b].need = pr[b].need
    BY <1>4
  <2> QED BY <1>4, <2>1 DEF Reserved
<1> QED BY <1>2, <1>3, <1>4 DEF Reserved

LEMMA ReservedInit == Init => Reserved
BY CapAssumption DEF Init, Reserved, Handle, Writing

\* The guard and the exchange: the head the depth was computed from is still
\* the head, and the tail has only grown since.
LEMMA RoomIsThere ==
  ASSUME NEW h \in Nat, NEW t \in Nat, NEW n \in Nat, ~Inconsistent(h, t), HasRoom(h, t, n)
  PROVE  h + n <= t + Cap
<1>1. Cap \in Nat
  BY CapAssumption
<1>2. CASE h >= t
  <2>1. Depth(h, t) = h - t /\ h - t <= Cap
    BY <1>1, <1>2 DEF Depth, Inconsistent
  <2> QED BY <1>1, <1>2, <2>1 DEF HasRoom
<1>3. CASE h < t
  <2>1. Depth(h, t) = 0
    BY <1>3 DEF Depth
  <2> QED BY <1>1, <1>3, <2>1 DEF HasRoom
<1> QED BY <1>2, <1>3

\* The tail never moves back.
LEMMA TailGrows ==
  ASSUME Typed, [Next]_vars
  PROVE  tail' >= tail
<1>t. tail \in Nat /\ cons.t \in Nat /\ cons.ext \in Nat
      /\ \A p \in Producers : pr[p].t \in Nat /\ pr[p].left \in Nat /\ pr[p].ext \in Nat
  BY Fields
<1>1. CASE tail' = tail
  BY <1>1, <1>t
<1>2. ASSUME NEW p \in Producers, DropTail(p) PROVE tail' >= tail
  BY <1>2, <1>t DEF DropTail, TailIs
<1>3. ASSUME NEW p \in Producers, DropReclaimTail(p) PROVE tail' >= tail
  BY <1>3, <1>t DEF DropReclaimTail, TailIs
<1>4. CASE ReclaimTail
  BY <1>4, <1>t DEF ReclaimTail, TailIs
<1>5. CASE AdvanceTail
  BY <1>5, <1>t DEF AdvanceTail, FetchMaxTail
<1>6. ASSUME NEW p \in Producers, ProducerStep(p), ~DropTail(p), ~DropReclaimTail(p)
      PROVE  tail' = tail
  BY <1>6 DEF ProducerStep, LoadHead, LoadTail, Reserve, ClaimSlot, ClaimExpires, MarkSlot,
    StampSlot, FillSlot, CommitSlot, DropGate, DropLook, DropFree, DropVerify, DropExpires,
    DropReclaimFree
<1>7. ASSUME ConsumerStep, ~ReclaimTail, ~AdvanceTail PROVE tail' = tail
  BY <1>7 DEF ConsumerStep, RecvBegin, SecondLook, Gate, Verify, ReclaimFree, CopyPayload,
    PinSlot, CheckPinned, FreeTail
<1>8. ASSUME NEW p \in Producers,
             (\E n \in scenario.sizes : SendBegin(p, n)) \/ WaitExpires(p) \/ Die(p)
      PROVE  tail' = tail
  BY <1>8 DEF SendBegin, WaitExpires, Die
<1>9. CASE UNCHANGED vars
  BY <1>9, <1>t DEF vars
<1> QED BY <1>1, <1>2, <1>3, <1>4, <1>5, <1>6, <1>7, <1>8, <1>9 DEF Next

Sending(p) == (\E n \in scenario.sizes : SendBegin(p, n)) \/ WaitExpires(p) \/ ProducerStep(p)

\* A handle's step leaves the other handles alone; only the exchange moves the head.
LEMMA OthersKept ==
  ASSUME Typed, NEW p \in Producers, Sending(p)
  PROVE  /\ scenario' = scenario /\ alive' = alive /\ cons' = cons /\ p \in alive
         /\ \A q \in Producers : q # p => pr'[q] = pr[q]
         /\ pr[p].pc # "cas" => head' = head
<1>1. pr \in [Producers -> Record]
  BY Fields
<1>2. ASSUME NEW n \in scenario.sizes, SendBegin(p, n)
      PROVE  /\ scenario' = scenario /\ alive' = alive /\ cons' = cons /\ p \in alive /\ head' = head
             /\ \A q \in Producers : q # p => pr'[q] = pr[q]
  BY <1>1, <1>2 DEF SendBegin, At
<1>3. CASE LoadHead(p) \/ WaitExpires(p) \/ ClaimSlot(p) \/ ClaimExpires(p)
  BY <1>1, <1>3 DEF LoadHead, WaitExpires, ClaimSlot, ClaimExpires, At, Goto, SendEnds
<1>4. CASE LoadTail(p)
  <2> DEFINE next == AfterRefresh(p, pr[p].h, tail)
  <2>1. next.pc = "idle" \/ next.pc # "idle"
    OBVIOUS
  <2> HIDE DEF next
  <2> QED BY <1>1, <1>4, <2>1 DEF LoadTail, At, SendEnds, next
<1>5. CASE Reserve(p)
  BY <1>1, <1>5 DEF Reserve, At, Refresh
<1>6. CASE MarkSlot(p) \/ StampSlot(p) \/ FillSlot(p) \/ CommitSlot(p)
  BY <1>1, <1>6 DEF MarkSlot, StampSlot, FillSlot, CommitSlot, At, Goto, SendEnds
<1>7. CASE DropGate(p) \/ DropLook(p) \/ DropTail(p) \/ DropFree(p)
  BY <1>1, <1>7 DEF DropGate, DropLook, DropTail, DropFree, At, Goto, Refresh, SendEnds, DropReturns
<1>8. CASE DropVerify(p)
  <2> DEFINE n == Extent(pr[p].h, pr[p].t)
  <2> HIDE DEF n
  <2> QED BY <1>1, <1>8 DEF DropVerify, At, Refresh, n
<1>9. CASE DropExpires(p) \/ DropReclaimFree(p) \/ DropReclaimTail(p)
  BY <1>1, <1>9 DEF DropExpires, DropReclaimFree, DropReclaimTail, At, SendEnds, Refresh
<1> QED BY <1>2, <1>3, <1>4, <1>5, <1>6, <1>7, <1>8, <1>9 DEF Sending, ProducerStep

LEMMA ReservedNext == Typed /\ Reserved /\ [Next]_vars => Reserved'
<1> SUFFICES ASSUME Typed, Reserved, [Next]_vars PROVE Reserved'
  OBVIOUS
<1>t. Typed' /\ tail' >= tail
  BY TypedNext, TailGrows
<1>f. pr \in [Producers -> Record] /\ head \in Nat /\ tail \in Nat
  BY Fields
<1>u. ASSUME UNCHANGED <<scenario, head, pr>> PROVE Reserved'
  <2>1. tail' \in Nat
    BY <1>t DEF Typed, TypeOK, RegionOK
  <2>2. head' <= tail' + Cap
    <3>1. head <= tail + Cap /\ head' = head
      BY <1>u DEF Reserved
    <3>2. Cap \in Nat /\ head \in Nat /\ tail \in Nat /\ tail' >= tail
      BY <1>t, <1>f, CapAssumption
    <3>3. ASSUME NEW n \in Nat, n >= tail PROVE head <= n + Cap
      BY <3>1, <3>2, <3>3
    <3> QED BY <2>1, <3>1, <3>2, <3>3
  <2>3. \A p \in Producers : pr[p].t \in Nat
    BY Fields
  <2>4. \A p \in Producers : pr[p].pc = "cas" => pr[p].t <= tail'
    BY <1>t, <1>f, <2>1, <2>3 DEF Reserved
  <2> QED BY <1>u, <2>2, <2>4 DEF Reserved
<1>1. ASSUME NEW p \in Producers, Die(p) PROVE Reserved'
  BY <1>1, <1>u DEF Die
<1>2. CASE UNCHANGED vars
  BY <1>2, <1>u DEF vars
<1>3. CASE ConsumerStep
  BY <1>3, <1>u DEF ConsumerStep, RecvBegin, SecondLook, Gate, Verify, ReclaimFree, ReclaimTail,
    CopyPayload, PinSlot, CheckPinned, FreeTail, AdvanceTail
<1>4. ASSUME NEW p \in Producers, Sending(p) PROVE Reserved'
  <2>1. /\ scenario' = scenario /\ \A q \in Producers : q # p => pr'[q] = pr[q]
    BY <1>4, OthersKept
  <2>k. ASSUME head' = head,
               pr'[p].pc # "idle" => pr'[p].need \in scenario.sizes,
               pr'[p].pc = "cas" => /\ pr'[p].t <= tail' /\ ~Inconsistent(pr'[p].h, pr'[p].t)
                                    /\ HasRoom(pr'[p].h, pr'[p].t, pr'[p].need),
               pr'[p].pc \in Writing => /\ pr[p].pc \in Writing
                                        /\ pr'[p].start = pr[p].start /\ pr'[p].need = pr[p].need
                                        /\ pr'[p].done < pr'[p].need
        PROVE  Reserved'
    BY <1>t, <2>1, <2>k, ReservedKept
  <2>n. pr[p].pc # "idle" => pr[p].need \in scenario.sizes
    BY DEF Reserved
  <2>w. pr[p].pc \in Writing => pr[p].done < pr[p].need
    BY DEF Reserved
  <2>2. ASSUME NEW n \in scenario.sizes, SendBegin(p, n) PROVE Reserved'
    <3>1. pr'[p].pc = "head" /\ pr'[p].need = n /\ head' = head
      BY <1>f, <2>2 DEF SendBegin
    <3> QED BY <2>k, <3>1 DEF Writing
  <2>e. ASSUME SendEnds(p), head' = head PROVE Reserved'
    <3>1. pr'[p].pc = "idle"
      BY <1>f, <2>e DEF SendEnds, Handle
    <3> QED BY <2>e, <2>k, <3>1 DEF Writing
  \* The handle waits, drops or refreshes.
  <2>d. ASSUME head' = head, pr[p].pc # "idle", pr'[p].need = pr[p].need,
               pr'[p].pc \notin Writing \cup {"cas"}
        PROVE  Reserved'
    BY <2>d, <2>k, <2>n
  <2>3. CASE LoadHead(p)
    BY <1>f, <2>3, <2>d DEF LoadHead, At, Writing
  <2>4. CASE LoadTail(p)
    <3> DEFINE next == AfterRefresh(p, pr[p].h, tail)
    <3>1. pr[p].pc = "tail" /\ head' = head /\ tail' = tail
      BY <2>4 DEF LoadTail, At
    <3>2. pr[p].op \in {"reserve", "wait", "drop"}
      BY <1>f, <3>1 DEF Typed, Record
    <3>3. /\ next.pc \in {"idle", "head", "cas", "gate"}
          /\ next.pc = "cas" => ~Inconsistent(pr[p].h, tail) /\ HasRoom(pr[p].h, tail, pr[p].need)
      <4> DEFINE room == HasRoom(pr[p].h, tail, pr[p].need)
      <4>1. Inconsistent(pr[p].h, tail) => next.pc = "idle"
        BY DEF AfterRefresh
      <4> HIDE DEF room
      <4>2. next.pc \in {"idle", "head", "cas", "gate"} /\ (next.pc = "cas" => room)
        BY <3>2 DEF AfterRefresh, Refused, room
      <4> QED BY <4>1, <4>2 DEF room
    <3> HIDE DEF next
    <3>4. CASE next.pc = "idle"
      BY <2>4, <2>e, <3>1, <3>4 DEF LoadTail, next
    <3>5. CASE next.pc # "idle"
      <4>1. /\ pr'[p].pc = next.pc /\ pr'[p].h = pr[p].h /\ pr'[p].t = tail
            /\ pr'[p].need = pr[p].need
        BY <1>f, <2>4, <3>5 DEF LoadTail, next, Record
      <4>2. pr'[p].pc = "cas" => /\ pr'[p].t <= tail' /\ ~Inconsistent(pr'[p].h, pr'[p].t)
                                 /\ HasRoom(pr'[p].h, pr'[p].t, pr'[p].need)
        BY <1>f, <3>1, <3>3, <4>1
      <4> QED BY <2>k, <2>n, <3>1, <3>3, <4>1, <4>2 DEF Writing
    <3> QED BY <3>4, <3>5
  <2>5. CASE WaitExpires(p)
    BY <2>5, <2>e DEF WaitExpires
  <2>6. CASE Reserve(p)
    <3>0. pr[p].pc = "cas"
      BY <2>6 DEF Reserve, At
    <3>1. CASE ~HeadIs(p)
      BY <1>f, <2>6, <2>d, <3>0, <3>1 DEF Reserve, Refresh, Writing, Record
    <3>2. CASE HeadIs(p)
      <4>1. /\ pr'[p].pc = "claim" /\ pr'[p].start = head /\ pr'[p].done = 0
            /\ pr'[p].need = pr[p].need /\ head' = head + pr[p].need /\ tail' = tail
        BY <1>f, <2>6, <3>2 DEF Reserve, HeadIs, Record
      <4>2. pr[p].h = head /\ pr[p].t \in Nat /\ pr[p].need \in Nat \ {0} /\ pr[p].t <= tail
        BY <2>n, <3>0, <3>2, Fields DEF HeadIs, Reserved
      <4>3. head' <= tail' + Cap
        <5>1. head + pr[p].need <= pr[p].t + Cap
          BY <1>f, <3>0, <4>2, RoomIsThere DEF Reserved
        <5> QED BY <1>f, <4>1, <4>2, <5>1, CapAssumption
      <4>4. \A q \in Producers : pr[q].pc \in Writing =>
              /\ pr[q].start \in Nat /\ pr[q].need \in Nat /\ pr[q].start + pr[q].need <= head
              /\ pr[q].start + pr[q].need <= head'
        BY <1>f, <4>1, <4>2, Fields DEF Reserved
      <4>5. ASSUME NEW q \in Producers
            PROVE  /\ pr'[q].pc # "idle" => pr'[q].need \in scenario'.sizes
                   /\ pr'[q].pc = "cas" =>
                        /\ pr'[q].t <= tail' /\ ~Inconsistent(pr'[q].h, pr'[q].t)
                        /\ HasRoom(pr'[q].h, pr'[q].t, pr'[q].need)
                   /\ pr'[q].pc \in Writing =>
                        /\ pr'[q].start + pr'[q].need <= head'
                        /\ pr'[q].done < pr'[q].need
        <5>1. CASE q = p
          BY <1>f, <2>1, <2>n, <3>0, <4>1, <4>2, <5>1
        <5>2. CASE q # p
          <6>1. pr'[q] = pr[q]
            BY <2>1, <5>2
          <6> QED BY <2>1, <4>1, <4>4, <6>1 DEF Reserved
        <5> QED BY <5>1, <5>2
      <4>6. ASSUME NEW a \in Producers, NEW b \in Producers, a # b,
                   pr'[a].pc \in Writing, pr'[b].pc \in Writing
            PROVE  \/ pr'[a].start + pr'[a].need <= pr'[b].start
                   \/ pr'[b].start + pr'[b].need <= pr'[a].start
        <5>1. CASE a = p
          BY <2>1, <4>1, <4>4, <4>6, <5>1
        <5>2. CASE b = p
          BY <2>1, <4>1, <4>4, <4>6, <5>2
        <5>3. CASE a # p /\ b # p
          BY <2>1, <4>6, <5>3 DEF Reserved
        <5> QED BY <5>1, <5>2, <5>3
      <4> QED BY <4>3, <4>5, <4>6 DEF Reserved
    <3> QED BY <3>1, <3>2
  <2>7. ASSUME head' = head, pr[p].pc \in Writing, pr'[p].pc \in Writing,
               pr'[p].start = pr[p].start, pr'[p].need = pr[p].need, pr'[p].done < pr'[p].need
        PROVE  Reserved'
    BY <2>7, <2>k, <2>n DEF Writing
  <2>8. CASE ClaimSlot(p) \/ MarkSlot(p) \/ StampSlot(p) \/ FillSlot(p)
    BY <1>f, <2>7, <2>8, <2>w DEF ClaimSlot, MarkSlot, StampSlot, FillSlot, At, Goto, Writing, Record
  <2>9. CASE ClaimExpires(p)
    BY <2>9, <2>e DEF ClaimExpires
  <2>10. CASE CommitSlot(p)
    <3>1. CASE pr[p].done + 1 < pr[p].need
      BY <1>f, <2>7, <2>10, <3>1 DEF CommitSlot, At, Writing, Record
    <3>2. CASE ~ (pr[p].done + 1 < pr[p].need)
      BY <2>e, <2>10, <3>2 DEF CommitSlot
    <3> QED BY <3>1, <3>2
  <2>11. CASE DropGate(p)
    BY <1>f, <2>11, <2>d DEF DropGate, At, Goto, Writing
  <2>12. CASE DropLook(p)
    <3>1. CASE SendEnds(p)
      BY <2>12, <2>e, <3>1 DEF DropLook
    <3>2. CASE Refresh(p, "drop")
      BY <1>f, <2>12, <2>d, <3>2 DEF DropLook, At, Refresh, Writing
    <3>3. CASE pr' = [pr EXCEPT ![p].pc = "dropTail", ![p].left = slots[pr[p].t % Cap].frame.total]
      BY <1>f, <2>12, <2>d, <3>3 DEF DropLook, At, Writing
    <3> QED BY <2>12, <3>1, <3>2, <3>3 DEF DropLook
  <2>13. ASSUME NEW t \in Nat, DropReturns(p, t), head' = head, pr[p].pc # "idle" PROVE Reserved'
    BY <1>f, <2>13, <2>d DEF DropReturns, Writing
  <2>14. CASE DropTail(p)
    <3>1. CASE TailIs(pr[p].t)
      BY <1>f, <2>14, <2>d, <3>1 DEF DropTail, At, Goto, Writing, Record
    <3>2. CASE ~TailIs(pr[p].t)
      BY <2>14, <2>13, <3>2, Fields DEF DropTail, At
    <3> QED BY <3>1, <3>2
  <2>15. CASE DropFree(p)
    <3>1. CASE pr[p].left > 1
      BY <1>f, <2>15, <2>d, <3>1 DEF DropFree, At, Writing, Record
    <3>2. CASE ~ (pr[p].left > 1)
      <4>1. pr[p].t + 1 \in Nat
        BY Fields
      <4> QED BY <2>15, <2>13, <3>2, <4>1 DEF DropFree, At
    <3> QED BY <3>1, <3>2
  <2>16. CASE DropVerify(p)
    <3> DEFINE n == Extent(pr[p].h, pr[p].t)
    <3> HIDE DEF n
    <3>1. /\ \/ pr' = [pr EXCEPT ![p].pc = "reclaimFree", ![p].left = n, ![p].ext = n]
             \/ Refresh(p, "drop")
          /\ head' = head /\ pr[p].pc = "verify"
      BY <2>16 DEF DropVerify, At, n
    <3> QED BY <1>f, <2>d, <3>1 DEF Refresh, Writing, Record
  <2>17. CASE DropExpires(p)
    BY <2>17, <2>e DEF DropExpires
  <2>18. CASE DropReclaimFree(p)
    <3> DEFINE to == IF pr[p].left > 1 THEN "reclaimFree" ELSE "reclaimTail"
    <3>1. /\ pr' = [pr EXCEPT ![p].left = pr[p].left - 1, ![p].pc = to]
          /\ pr[p].pc = "reclaimFree" /\ head' = head /\ to \in {"reclaimFree", "reclaimTail"}
      BY <2>18 DEF DropReclaimFree, At
    <3> HIDE DEF to
    <3> QED BY <1>f, <2>d, <3>1 DEF Writing, Record
  <2>19. CASE DropReclaimTail(p)
    BY <1>f, <2>19, <2>d DEF DropReclaimTail, At, Refresh, Writing
  <2> QED BY <1>4, <2>2, <2>3, <2>4, <2>5, <2>6, <2>8, <2>9, <2>10, <2>11, <2>12, <2>14, <2>15,
        <2>16, <2>17, <2>18, <2>19 DEF Sending, ProducerStep
<1> QED BY <1>1, <1>2, <1>3, <1>4 DEF Next, Sending

-----------------------------------------------------------------------------
(* The slots                                                               *)

\* Where the instances without drops, and without chunks or without kills, differ.
Quiet == Lossless /\ Calm

Dropping == {"gate", "look", "dropTail", "dropFree", "verify", "reclaimFree", "reclaimTail"}

\* No handle drops; a kill needs a victim; the consumer works at the tail, and
\* what it reclaims is one slot.
Orderly ==
  /\ \A p \in Producers : pr[p].op # "drop" /\ pr[p].pc \notin Dropping
  /\ scenario.victims = {} => alive = Producers
  /\ cons.pc # "idle" => cons.t = tail
  /\ scenario.sizes = {1} => \A i \in 0 .. Cap - 1 : slots[i].reserved <= 1
  /\ cons.pc \in {"reclaimFree", "reclaimTail"} => cons.ext = 1

\* A slot that no handle but the ones in W may be at work on, and that cannot
\* be taken for a message or for a dead writer's.
Open(i, W) == slots[i].state # "COMMITTED" /\ slots[i].owner \in W \cup {NoOne}

\* The consumer is past its look at the tail slot, and past its release of it.
Passing == {"copy", "pin", "check", "release", "advance", "reclaimFree", "reclaimTail"}
Passed  == {"advance", "reclaimTail"}

\* Positions still to be written lie in the window and are open to their
\* handle, free positions are open to nobody, and what the consumer is about to
\* pass is neither.
Window ==
  /\ tail <= head
  /\ \A p \in alive : pr[p].pc \in Writing =>
       /\ tail <= Position(p)
       /\ cons.pc \in Passing => tail < Position(p)
       /\ \A q \in Position(p) .. pr[p].start + pr[p].need - 1 : Open(q % Cap, {p})
  /\ \A q \in head .. tail + Cap - 1 : Open(q % Cap, {})
  /\ cons.pc \in Passing => tail < head
  /\ cons.pc \in Passed => Open(tail % Cap, {})

IInv == Typed /\ Reserved /\ (Quiet => Orderly /\ Window)

\* Positions within a lap of each other are on different slots.
LEMMA OtherSlot ==
  ASSUME NEW a \in Nat, NEW b \in Nat, NEW t \in Nat, a # b,
         t <= a, a < t + Cap, t <= b, b < t + Cap
  PROVE  a % Cap # b % Cap
<1>0. Cap \in Nat \ {0} /\ a < b + Cap /\ b < a + Cap
  BY CapAssumption
<1>1. CASE a < b
  BY <1>0, <1>1, WindowDistinct
<1>2. CASE b < a
  BY <1>0, <1>2, WindowDistinct
<1> QED BY <1>1, <1>2

LEMMA OrderlyInit == Init => IInv
<1> SUFFICES ASSUME Init PROVE IInv
  OBVIOUS
<1>1. Typed /\ Reserved
  BY TypedInit, ReservedInit
<1>2. \A i \in 0 .. Cap - 1 : slots[i] = FreeSlot
  BY DEF Init
<1>3. Orderly
  BY <1>2 DEF Init, Orderly, Handle, Receiver, FreeSlot, Dropping
<1>4. \A q \in Nat : Open(q % Cap, {})
  BY <1>1, <1>2, PositionsHaveSlots DEF Typed, Open, FreeSlot
<1>5. Window
  <2>1. \A q \in head .. tail + Cap - 1 : q \in Nat
    BY CapAssumption DEF Init
  <2>2. \A q \in head .. tail + Cap - 1 : Open(q % Cap, {})
    BY <1>4, <2>1
  <2>3. /\ head = 0 /\ tail = 0 /\ cons.pc = "idle" /\ alive = Producers
        /\ \A p \in Producers : pr[p].pc = "idle"
    BY DEF Init, Handle, Receiver
  <2> QED BY <2>2, <2>3 DEF Window, Writing, Passing, Passed
<1> QED BY <1>1, <1>3, <1>5 DEF IInv

\* The reclaim of these instances frees one slot, and a dead writer's.
LEMMA ExtentOfOne ==
  ASSUME Typed, Quiet, Orderly, NEW h \in Nat, NEW t \in Nat, Extent(h, t) > 0
  PROVE  Extent(h, t) = 1 /\ slots[t % Cap].owner # NoOne /\ slots[t % Cap].owner \notin alive
<1> DEFINE i == t % Cap
<1>1. slots[i].state = "WRITING" /\ Gone(slots[i].owner) /\ Extent(h, t) = slots[i].reserved
  BY DEF Extent
<1>2. i \in 0 .. Cap - 1
  BY PositionsHaveSlots DEF Typed
<1>3. slots[i].owner \in Producers \cup {NoOne} /\ slots[i].reserved \in Nat
  BY <1>2 DEF Typed, TypeOK, RegionOK, Slots
<1>4. slots[i].owner # NoOne /\ slots[i].owner \notin alive
  BY <1>1 DEF Gone
<1>5. scenario.victims # {}
  BY <1>3, <1>4 DEF Orderly
<1>6. scenario.sizes = {1}
  BY <1>5 DEF Quiet, Calm
<1> QED BY <1>1, <1>2, <1>3, <1>4, <1>6 DEF Orderly

\* A live handle's position is in the window, and on a slot of its own.
LEMMA PositionFacts ==
  ASSUME Typed, Reserved, Window, NEW p \in alive, pr[p].pc \in Writing
  PROVE  /\ p \in Producers /\ Position(p) \in Nat /\ WriteIdx(p) \in 0 .. Cap - 1
         /\ tail <= Position(p) /\ Position(p) < head /\ Position(p) < tail + Cap
         /\ Position(p) + pr[p].need - pr[p].done = pr[p].start + pr[p].need
<1>1. p \in Producers
  BY DEF Typed, TypeOK, RegionOK
<1>2. Position(p) \in Nat /\ WriteIdx(p) \in 0 .. Cap - 1
  BY <1>1, PositionsHaveSlots DEF Typed
<1>3. /\ head \in Nat /\ tail \in Nat /\ pr[p].start \in Nat /\ pr[p].need \in Nat
      /\ pr[p].done \in Nat
  BY <1>1, Fields
<1>4. pr[p].start + pr[p].need <= head /\ pr[p].done < pr[p].need /\ head <= tail + Cap
  BY <1>1 DEF Reserved
<1>5. tail <= Position(p)
  BY DEF Window
<1> QED BY <1>1, <1>2, <1>3, <1>4, <1>5, CapAssumption DEF Position

\* Two live handles have different positions still to write, on different slots.
LEMMA SlotsApart ==
  ASSUME Typed, Reserved, Window, NEW p \in alive, NEW q \in alive, p # q,
         pr[p].pc \in Writing, pr[q].pc \in Writing,
         NEW a \in Position(p) .. pr[p].start + pr[p].need - 1,
         NEW b \in Position(q) .. pr[q].start + pr[q].need - 1
  PROVE  a % Cap # b % Cap
<1>1. /\ p \in Producers /\ q \in Producers /\ Position(p) \in Nat /\ Position(q) \in Nat
      /\ tail <= Position(p) /\ tail <= Position(q)
  BY PositionFacts
<1>2. /\ head \in Nat /\ tail \in Nat /\ pr[p].start \in Nat /\ pr[p].need \in Nat
      /\ pr[p].done \in Nat /\ pr[q].start \in Nat /\ pr[q].need \in Nat /\ pr[q].done \in Nat
  BY <1>1, Fields
<1>3. /\ pr[p].start + pr[p].need <= head /\ pr[q].start + pr[q].need <= head
      /\ head <= tail + Cap
  BY <1>1 DEF Reserved
<1>4. \/ pr[p].start + pr[p].need <= pr[q].start
      \/ pr[q].start + pr[q].need <= pr[p].start
  BY <1>1 DEF Reserved
<1>5. Position(p) >= pr[p].start /\ Position(q) >= pr[q].start
  BY <1>2 DEF Position
<1>6. /\ a \in Nat /\ b \in Nat /\ a # b /\ tail <= a /\ tail <= b
      /\ a < tail + Cap /\ b < tail + Cap
  BY <1>1, <1>2, <1>3, <1>4, <1>5, CapAssumption
<1> QED BY <1>2, <1>6, OtherSlot

\* What the invariant is for.
LEMMA DisjointFromInv == IInv => ReservationsDisjoint
<1> SUFFICES ASSUME IInv PROVE ReservationsDisjoint
  OBVIOUS
<1>1. head <= tail + Cap
  BY DEF IInv, Reserved
<1>2. ASSUME Quiet, NEW p \in alive, NEW q \in alive, p # q,
             NEW a \in Outstanding(p), NEW b \in Outstanding(q)
      PROVE  a % Cap # b % Cap
  <2>1. pr[p].pc \in Writing /\ pr[q].pc \in Writing
    BY DEF Outstanding
  <2>2. /\ a \in Position(p) .. pr[p].start + pr[p].need - 1
        /\ b \in Position(q) .. pr[q].start + pr[q].need - 1
    BY <2>1 DEF Outstanding
  <2> QED BY <1>2, <2>1, <2>2, SlotsApart DEF IInv
<1> QED BY <1>1, <1>2 DEF ReservationsDisjoint, Quiet

-----------------------------------------------------------------------------
(* The steps, by what they do to the slots                                 *)

\* A slot nobody wrote stays open to whom it was.
Untouched(j) == /\ slots'[j].state = slots[j].state /\ slots'[j].owner = slots[j].owner
                /\ slots'[j].reserved = slots[j].reserved

\* A handle goes on without the slots: it refreshes, gives up, or claims a FREE one.
LEMMA HandleKept ==
  ASSUME Typed, Orderly, Window, NEW p \in Producers,
         UNCHANGED <<scenario, head, tail, slots, alive, cons>>,
         \A q \in Producers : q # p => pr'[q] = pr[q],
         pr'[p].op # "drop", pr'[p].pc \notin Dropping,
         pr'[p].pc \in Writing => /\ pr[p].pc \in Writing /\ pr'[p].start = pr[p].start
                                  /\ pr'[p].need = pr[p].need /\ pr'[p].done = pr[p].done
  PROVE  Orderly' /\ Window'
<1>1. \A q \in Producers : pr'[q].op # "drop" /\ pr'[q].pc \notin Dropping
  BY DEF Orderly
<1>2. Orderly'
  BY <1>1 DEF Orderly
<1>3. \A q \in Producers : pr'[q].pc \in Writing =>
        /\ pr[q].pc \in Writing /\ Position(q)' = Position(q)
        /\ pr'[q].start = pr[q].start /\ pr'[q].need = pr[q].need
  BY DEF Position
<1>4. alive \subseteq Producers
  BY DEF Typed, TypeOK, RegionOK
<1>5. \A i, W : Open(i, W)' <=> Open(i, W)
  BY DEF Open
<1>6. ASSUME NEW q \in alive, pr'[q].pc \in Writing
      PROVE  /\ tail <= Position(q)'
             /\ cons.pc \in Passing => tail < Position(q)'
             /\ \A x \in Position(q)' .. pr'[q].start + pr'[q].need - 1 : Open(x % Cap, {q})
  BY <1>3, <1>4, <1>6 DEF Window
<1>7. Window'
  BY <1>5, <1>6 DEF Window, Open
<1> QED BY <1>2, <1>7

\* The exchange takes free positions, which are open to nobody.
LEMMA ReserveKept ==
  ASSUME Typed, Reserved, Reserved', Orderly, Window, NEW p \in Producers, Reserve(p), HeadIs(p)
  PROVE  Orderly' /\ Window'
<1>1. /\ UNCHANGED <<scenario, tail, slots, alive, cons>> /\ pr[p].pc = "cas" /\ p \in alive
      /\ \A q \in Producers : q # p => pr'[q] = pr[q]
      /\ pr'[p].pc = "claim" /\ pr'[p].op = pr[p].op /\ pr'[p].start = head /\ pr'[p].done = 0
      /\ pr'[p].need = pr[p].need /\ head' = head + pr[p].need
  BY Fields DEF Reserve, HeadIs, At, Record
<1>f. head \in Nat /\ tail \in Nat /\ Cap \in Nat \ {0} /\ alive \subseteq Producers
  BY Fields, CapAssumption DEF Typed, TypeOK, RegionOK
<1>2. pr[p].need \in Nat \ {0}
  BY <1>1, Fields DEF Reserved
<1>3. head' <= tail + Cap /\ head' \in Nat /\ head' > head /\ tail <= head
  BY <1>1, <1>f, <1>2 DEF Reserved, Window
<1>4. Orderly'
  <2>1. \A q \in Producers : pr'[q].op # "drop" /\ pr'[q].pc \notin Dropping
    BY <1>1 DEF Orderly, Dropping
  <2> QED BY <1>1, <2>1 DEF Orderly
<1>5. Position(p)' = head
  BY <1>1, <1>f DEF Position
<1>o. \A x \in head .. tail + Cap - 1 : Open(x % Cap, {})
  BY DEF Window
<1>6. ASSUME NEW q \in alive, pr'[q].pc \in Writing
      PROVE  /\ tail <= Position(q)'
             /\ cons.pc \in Passing => tail < Position(q)'
             /\ \A x \in Position(q)' .. pr'[q].start + pr'[q].need - 1 : Open(x % Cap, {q})
  <2>1. CASE q = p
    <3>1. \A x \in Position(q)' .. pr'[q].start + pr'[q].need - 1 : x \in head .. tail + Cap - 1
      BY <1>1, <1>f, <1>2, <1>3, <1>5, <2>1
    <3>2. \A x \in Position(q)' .. pr'[q].start + pr'[q].need - 1 : Open(x % Cap, {q})
      BY <1>o, <3>1 DEF Open
    <3> QED BY <1>3, <1>5, <2>1, <3>2 DEF Window
  <2>2. CASE q # p
    <3>1. pr'[q] = pr[q] /\ Position(q)' = Position(q)
      BY <1>1, <1>f, <2>2 DEF Position
    <3> QED BY <1>6, <3>1 DEF Window
  <2> QED BY <2>1, <2>2
<1>7. \A x \in head' .. tail + Cap - 1 : Open(x % Cap, {})
  <2>1. \A x \in head' .. tail + Cap - 1 : x \in head .. tail + Cap - 1
    BY <1>f, <1>3
  <2> QED BY <1>o, <2>1
<1>8. tail <= head' /\ (cons.pc \in Passing => tail < head')
  BY <1>f, <1>3
<1>9. cons.pc \in Passed => Open(tail % Cap, {})
  BY DEF Window
<1> QED BY <1>1, <1>4, <1>6, <1>7, <1>8, <1>9 DEF Window, Open

\* A handle writes the slot of its own position: for everyone else the slots
\* are as they were, and what it commits it has no longer to write.
LEMMA SlotKept ==
  ASSUME Typed, Reserved, Typed', Reserved', Orderly, Window,
         NEW p \in alive, pr[p].pc \in Writing,
         UNCHANGED <<scenario, head, tail, alive, cons>>,
         \A q \in Producers : q # p => pr'[q] = pr[q],
         pr'[p].op # "drop", pr'[p].pc \notin Dropping,
         \A j \in 0 .. Cap - 1 : j # WriteIdx(p) => Untouched(j),
         slots'[WriteIdx(p)].owner \in {p, NoOne},
         scenario.sizes = {1} => slots'[WriteIdx(p)].reserved <= 1,
         pr'[p].pc \in Writing =>
           /\ pr'[p].start = pr[p].start /\ pr'[p].need = pr[p].need
           /\ \/ pr'[p].done = pr[p].done /\ slots'[WriteIdx(p)].state # "COMMITTED"
              \/ pr'[p].done = pr[p].done + 1
  PROVE  Orderly' /\ Window'
<1>f. head \in Nat /\ tail \in Nat /\ Cap \in Nat \ {0} /\ alive \subseteq Producers
  BY Fields, CapAssumption DEF Typed, TypeOK, RegionOK
<1>g. pr[p].start \in Nat /\ pr[p].need \in Nat /\ pr[p].done \in Nat /\ pr'[p].done \in Nat
  BY <1>f, Fields DEF Typed, TypeOK, HandleOK
<1>p. /\ Position(p) \in Nat /\ WriteIdx(p) \in 0 .. Cap - 1 /\ WriteIdx(p) = Position(p) % Cap
      /\ tail <= Position(p) /\ Position(p) < head /\ Position(p) < tail + Cap
  BY PositionFacts DEF WriteIdx
<1>r. head <= tail + Cap
  BY DEF Reserved
<1>1. Orderly'
  <2>1. \A q \in Producers : pr'[q].op # "drop" /\ pr'[q].pc \notin Dropping
    BY DEF Orderly
  <2>2. scenario.sizes = {1} => \A i \in 0 .. Cap - 1 : slots'[i].reserved <= 1
    BY <1>p DEF Orderly, Untouched
  <2> QED BY <2>1, <2>2 DEF Orderly
<1>2. ASSUME NEW x \in Nat, x # Position(p), tail <= x, x < tail + Cap, NEW W, Open(x % Cap, W)
      PROVE  Open(x % Cap, W)'
  <2>1. x % Cap # WriteIdx(p) /\ x % Cap \in 0 .. Cap - 1
    BY <1>f, <1>p, <1>2, OtherSlot, PositionsHaveSlots DEF Typed
  <2> QED BY <1>2, <2>1 DEF Open, Untouched
<1>3. ASSUME NEW q \in alive, pr'[q].pc \in Writing
      PROVE  /\ tail <= Position(q)'
             /\ cons.pc \in Passing => tail < Position(q)'
             /\ \A x \in Position(q)' .. pr'[q].start + pr'[q].need - 1 : Open(x % Cap, {q})'
  <2>1. CASE q # p
    <3>1. pr'[q] = pr[q] /\ Position(q)' = Position(q) /\ pr[q].pc \in Writing
      BY <1>f, <1>3, <2>1 DEF Position
    <3>2. ASSUME NEW x \in Position(q) .. pr[q].start + pr[q].need - 1 PROVE Open(x % Cap, {q})'
      <4>1. Open(x % Cap, {q})
        BY <3>1 DEF Window
      <4>2. /\ q \in Producers /\ pr[q].start \in Nat /\ pr[q].need \in Nat /\ Position(q) \in Nat
            /\ tail <= Position(q) /\ pr[q].start + pr[q].need <= head
        BY <1>f, <3>1, PositionFacts, Fields DEF Reserved
      <4>3. x \in Nat /\ tail <= x /\ x < tail + Cap
        BY <1>f, <1>r, <4>2
      <4>4. Position(p) \in Position(p) .. pr[p].start + pr[p].need - 1
        <5>1. pr[p].done < pr[p].need
          BY <1>f DEF Reserved
        <5> QED BY <1>g, <1>p, <5>1 DEF Position
      <4>5. x % Cap # WriteIdx(p)
        BY <1>p, <2>1, <3>1, <4>4, SlotsApart
      <4>6. x % Cap \in 0 .. Cap - 1
        BY <4>3, PositionsHaveSlots DEF Typed
      <4> QED BY <4>1, <4>5, <4>6 DEF Open, Untouched
    <3> QED BY <3>1, <3>2 DEF Window
  <2>2. CASE q = p
    <3>0. /\ pr'[p].start = pr[p].start /\ pr'[p].need = pr[p].need
          /\ \/ pr'[p].done = pr[p].done /\ slots'[WriteIdx(p)].state # "COMMITTED"
             \/ pr'[p].done = pr[p].done + 1
      BY <1>3, <2>2
    <3>1. /\ Position(p)' = Position(p) \/ Position(p)' = Position(p) + 1
          /\ Position(p)' \in Nat
          /\ Position(p)' = Position(p) => slots'[WriteIdx(p)].state # "COMMITTED"
      BY <1>g, <3>0 DEF Position
    <3>2. tail <= Position(p)' /\ (cons.pc \in Passing => tail < Position(p)')
      <4>1. cons.pc \in Passing => tail < Position(p)
        BY DEF Window
      <4> QED BY <1>f, <1>p, <3>1, <4>1
    <3>3. ASSUME NEW x \in Position(p)' .. pr[p].start + pr[p].need - 1 PROVE Open(x % Cap, {p})'
      <4>1. CASE x = Position(p)
        <5>1. Position(p)' = Position(p)
          BY <1>p, <3>1, <4>1
        <5> QED BY <1>p, <3>1, <4>1, <5>1 DEF Open
      <4>2. CASE x # Position(p)
        <5>1. x \in Position(p) .. pr[p].start + pr[p].need - 1
          BY <1>p, <1>g, <3>1
        <5>2. Open(x % Cap, {p})
          BY <5>1 DEF Window
        <5>3. pr[p].start + pr[p].need <= head
          BY <1>f DEF Reserved
        <5>4. x \in Nat /\ tail <= x /\ x < tail + Cap
          BY <1>f, <1>g, <1>p, <1>r, <5>1, <5>3
        <5> QED BY <1>2, <4>2, <5>2, <5>4
      <4> QED BY <4>1, <4>2
    <3> QED BY <2>2, <3>0, <3>2, <3>3
  <2> QED BY <2>1, <2>2
<1>4. \A x \in head .. tail + Cap - 1 : Open(x % Cap, {})'
  <2>1. SUFFICES ASSUME NEW x \in head .. tail + Cap - 1 PROVE Open(x % Cap, {})'
    OBVIOUS
  <2>2. x \in Nat /\ x # Position(p) /\ tail <= x /\ x < tail + Cap
    BY <1>f, <1>p
  <2>3. Open(x % Cap, {})
    BY DEF Window
  <2> QED BY <1>2, <2>2, <2>3
<1>5. cons.pc \in Passed => Open(tail % Cap, {})'
  <2>1. SUFFICES ASSUME cons.pc \in Passed PROVE Open(tail % Cap, {})'
    OBVIOUS
  <2>2. tail < Position(p) /\ Open(tail % Cap, {})
    BY <2>1 DEF Window, Passed, Passing
  <2> QED BY <1>2, <1>f, <1>p, <2>2
<1>6. tail <= head /\ (cons.pc \in Passing => tail < head)
  BY DEF Window
<1> QED BY <1>1, <1>3, <1>4, <1>5, <1>6 DEF Window

\* The consumer at the tail: it moves on, writes nothing but a header without
\* an identity and never COMMITTED, and passes no position still to be written.
LEMMA ReceiverKept ==
  ASSUME Typed, Reserved, Orderly, Window,
         UNCHANGED <<scenario, head, tail, alive, pr>>,
         cons'.pc # "idle" => cons'.t = tail,
         cons'.pc \in {"reclaimFree", "reclaimTail"} => cons'.ext = 1,
         \/ UNCHANGED slots
         \/ /\ \A j \in 0 .. Cap - 1 : j # tail % Cap => Untouched(j)
            /\ slots'[tail % Cap].state # "COMMITTED" /\ slots'[tail % Cap].owner = NoOne
            /\ slots'[tail % Cap].reserved = 0,
         cons'.pc \in Passing =>
           /\ tail < head
           /\ \A p \in alive : pr[p].pc \in Writing => tail < Position(p),
         cons'.pc \in Passed =>
           slots'[tail % Cap].state # "COMMITTED" /\ slots'[tail % Cap].owner = NoOne
  PROVE  Orderly' /\ Window'
<1>f. head \in Nat /\ tail \in Nat /\ Cap \in Nat \ {0} /\ alive \subseteq Producers
  BY Fields, CapAssumption DEF Typed, TypeOK, RegionOK
<1>1. ASSUME NEW j \in 0 .. Cap - 1
      PROVE  \/ slots'[j] = slots[j]
             \/ Untouched(j)
             \/ /\ slots'[j].state # "COMMITTED" /\ slots'[j].owner = NoOne
                /\ slots'[j].reserved = 0
  OBVIOUS
<1>2. Orderly'
  <2>1. scenario.sizes = {1} => \A i \in 0 .. Cap - 1 : slots'[i].reserved <= 1
    BY <1>1 DEF Orderly, Untouched
  <2> QED BY <2>1 DEF Orderly
<1>3. ASSUME NEW x \in Nat, NEW W, Open(x % Cap, W)
      PROVE  Open(x % Cap, W)'
  <2>1. x % Cap \in 0 .. Cap - 1
    BY PositionsHaveSlots DEF Typed
  <2> QED BY <1>1, <1>3, <2>1 DEF Open, Untouched
<1>4. ASSUME NEW q \in alive, pr[q].pc \in Writing
      PROVE  /\ tail <= Position(q)
             /\ cons'.pc \in Passing => tail < Position(q)
             /\ \A x \in Position(q) .. pr[q].start + pr[q].need - 1 : Open(x % Cap, {q})'
  <2>1. Position(q) \in Nat /\ tail <= Position(q) /\ pr[q].start \in Nat /\ pr[q].need \in Nat
    BY <1>f, <1>4, PositionFacts, Fields
  <2>2. \A x \in Position(q) .. pr[q].start + pr[q].need - 1 : x \in Nat /\ Open(x % Cap, {q})
    BY <1>4, <2>1 DEF Window
  <2> QED BY <1>3, <1>4, <2>1, <2>2
<1>5. \A x \in head .. tail + Cap - 1 : Open(x % Cap, {})'
  <2>1. \A x \in head .. tail + Cap - 1 : x \in Nat /\ Open(x % Cap, {})
    BY <1>f DEF Window
  <2> QED BY <1>3, <2>1
<1>6. tail <= head
  BY DEF Window
<1>7. cons'.pc \in Passed => Open(tail % Cap, {})'
  BY DEF Open
<1>8. \A q \in alive : Position(q)' = Position(q)
  BY DEF Position
<1> QED BY <1>2, <1>4, <1>5, <1>6, <1>7, <1>8 DEF Window

\* The tail passes one slot, which joins the free ones a lap further on.
LEMMA TailKept ==
  ASSUME Typed, Reserved, Orderly, Window,
         UNCHANGED <<scenario, head, slots, alive, pr>>,
         tail' = tail + 1, cons.pc \in Passed, cons'.pc \in {"idle", "gate", "second"},
         cons'.pc # "idle" => cons'.t = tail'
  PROVE  Orderly' /\ Window'
<1>f. head \in Nat /\ tail \in Nat /\ Cap \in Nat \ {0} /\ alive \subseteq Producers
  BY Fields, CapAssumption DEF Typed, TypeOK, RegionOK
<1>1. Orderly'
  BY DEF Orderly
<1>2. tail < head /\ cons.pc \in Passing /\ Open(tail % Cap, {})
  BY DEF Window, Passed, Passing
<1>3. \A i, W : Open(i, W)' <=> Open(i, W)
  BY DEF Open
<1>4. ASSUME NEW q \in alive, pr[q].pc \in Writing
      PROVE  /\ tail' <= Position(q)
             /\ \A x \in Position(q) .. pr[q].start + pr[q].need - 1 : Open(x % Cap, {q})
  <2>1. Position(q) \in Nat /\ tail < Position(q)
    BY <1>2, <1>4, PositionFacts DEF Window
  <2>2. \A x \in Position(q) .. pr[q].start + pr[q].need - 1 : Open(x % Cap, {q})
    BY <1>4 DEF Window
  <2>3. tail' <= Position(q)
    BY <1>f, <2>1
  <2> QED BY <2>2, <2>3
<1>5. ASSUME NEW x \in head .. tail' + Cap - 1 PROVE Open(x % Cap, {})
  <2>1. CASE x = tail + Cap
    <3>1. x % Cap = tail % Cap
      BY <1>f, <2>1, NextLap
    <3> QED BY <1>2, <3>1
  <2>2. CASE x # tail + Cap
    <3>1. x \in head .. tail + Cap - 1
      BY <1>f, <2>2
    <3> QED BY <3>1 DEF Window
  <2> QED BY <2>1, <2>2
<1>6. tail' <= head
  BY <1>f, <1>2
<1>7. \A q \in alive : Position(q)' = Position(q)
  BY DEF Position
<1>8. cons'.pc \notin Passing /\ cons'.pc \notin Passed
  BY DEF Passing, Passed
<1> QED BY <1>1, <1>3, <1>4, <1>5, <1>6, <1>7, <1>8 DEF Window

-----------------------------------------------------------------------------
(* The steps of a handle and of the consumer                               *)

LEMMA SendingKept ==
  ASSUME Typed, Typed', Reserved, Reserved', Quiet, Orderly, Window,
         NEW p \in Producers, Sending(p)
  PROVE  Orderly' /\ Window'
<1>f. pr \in [Producers -> Record] /\ slots \in Slots /\ alive \subseteq Producers
  BY Fields DEF Typed, TypeOK, RegionOK
<1>o. /\ scenario' = scenario /\ alive' = alive /\ cons' = cons /\ p \in alive
      /\ \A q \in Producers : q # p => pr'[q] = pr[q]
  BY OthersKept
<1>d. pr[p].op # "drop" /\ pr[p].pc \notin Dropping
  BY DEF Orderly
<1>k. ASSUME UNCHANGED <<head, tail, slots>>,
             pr'[p].op # "drop", pr'[p].pc \notin Dropping,
             pr'[p].pc \in Writing => /\ pr[p].pc \in Writing /\ pr'[p].start = pr[p].start
                                      /\ pr'[p].need = pr[p].need /\ pr'[p].done = pr[p].done
      PROVE  Orderly' /\ Window'
  BY <1>o, <1>k, HandleKept
<1>e. ASSUME UNCHANGED <<head, tail, slots>>, SendEnds(p) PROVE Orderly' /\ Window'
  <2>1. pr'[p].pc = "idle" /\ pr'[p].op = "none"
    BY <1>f, <1>e DEF SendEnds, Handle
  <2> QED BY <1>e, <1>k, <2>1 DEF Dropping, Writing
<1>1. ASSUME NEW n \in scenario.sizes, SendBegin(p, n) PROVE Orderly' /\ Window'
  <2>1. pr'[p].pc = "head" /\ pr'[p].op = "reserve" /\ UNCHANGED <<head, tail, slots>>
    BY <1>f, <1>1 DEF SendBegin, Record
  <2> QED BY <1>k, <2>1 DEF Dropping, Writing
<1>2. CASE LoadHead(p)
  <2>1. pr'[p].pc = "tail" /\ pr'[p].op = pr[p].op /\ UNCHANGED <<head, tail, slots>>
    BY <1>f, <1>2 DEF LoadHead, Record
  <2> QED BY <1>d, <1>k, <2>1 DEF Dropping, Writing
<1>3. CASE LoadTail(p)
  <2> DEFINE next == AfterRefresh(p, pr[p].h, tail)
  <2>1. pr[p].pc = "tail" /\ pr[p].op \in {"reserve", "wait"}
    <3>1. pr[p].pc = "tail"
      BY <1>3 DEF LoadTail, At
    <3> QED BY <1>d, <1>f, <3>1 DEF Typed, Record
  <2>2. next.pc \in {"idle", "head", "cas"} /\ (next.pc # "idle" => next.op # "drop")
    <3>1. Refused.pc \in {"idle", "head"} /\ Refused.op # "drop"
      BY DEF Refused, Quiet, Lossless
    <3> QED BY <2>1, <3>1 DEF AfterRefresh
  <2>3. UNCHANGED <<head, tail, slots>>
    BY <1>3 DEF LoadTail
  <2> HIDE DEF next
  <2>4. CASE next.pc = "idle"
    BY <1>3, <1>e, <2>3, <2>4 DEF LoadTail, next
  <2>5. CASE next.pc # "idle"
    <3>1. pr'[p].pc = next.pc /\ pr'[p].op = next.op
      BY <1>f, <1>3, <2>5 DEF LoadTail, next, Record
    <3> QED BY <1>k, <2>2, <2>3, <2>5, <3>1 DEF Dropping, Writing
  <2> QED BY <2>4, <2>5
<1>4. CASE WaitExpires(p)
  BY <1>4, <1>e DEF WaitExpires
<1>5. CASE Reserve(p)
  <2>1. CASE HeadIs(p)
    BY <1>5, <2>1, ReserveKept
  <2>2. CASE ~HeadIs(p)
    <3>1. pr'[p].pc = "head" /\ pr'[p].op = "reserve" /\ UNCHANGED <<head, tail, slots>>
      BY <1>f, <1>5, <2>2 DEF Reserve, Refresh, Record
    <3> QED BY <1>k, <3>1 DEF Dropping, Writing
  <2> QED BY <2>1, <2>2
\* Goto within the reservation.
<1>g. ASSUME NEW to \in Writing, Goto(p, to), pr[p].pc \in Writing
      PROVE  /\ pr'[p].pc = to /\ pr'[p].pc \in Writing /\ pr'[p].op = pr[p].op
             /\ pr'[p].start = pr[p].start /\ pr'[p].need = pr[p].need /\ pr'[p].done = pr[p].done
             /\ pr'[p].op # "drop" /\ pr'[p].pc \notin Dropping
  <2>1. /\ pr'[p].pc = to /\ pr'[p].op = pr[p].op
        /\ pr'[p].start = pr[p].start /\ pr'[p].need = pr[p].need /\ pr'[p].done = pr[p].done
    BY <1>f, <1>g DEF Goto, Record
  <2> QED BY <1>d, <1>g, <2>1 DEF Writing, Dropping
<1>6. CASE ClaimSlot(p)
  <2>1. pr[p].pc \in Writing /\ "mark" \in Writing /\ Goto(p, "mark") /\ UNCHANGED <<head, tail, slots>>
    BY <1>6 DEF ClaimSlot, At, Writing
  <2> QED BY <1>g, <1>k, <2>1
<1>7. CASE ClaimExpires(p)
  BY <1>7, <1>e DEF ClaimExpires
\* A write of the slot at the handle's position.
<1>s. ASSUME pr[p].pc \in Writing, UNCHANGED <<head, tail>>,
             pr'[p].op # "drop", pr'[p].pc \notin Dropping,
             \A j \in 0 .. Cap - 1 : j # WriteIdx(p) => Untouched(j),
             slots'[WriteIdx(p)].owner \in {p, NoOne},
             scenario.sizes = {1} => slots'[WriteIdx(p)].reserved <= 1,
             pr'[p].pc \in Writing =>
               /\ pr'[p].start = pr[p].start /\ pr'[p].need = pr[p].need
               /\ \/ pr'[p].done = pr[p].done /\ slots'[WriteIdx(p)].state # "COMMITTED"
                  \/ pr'[p].done = pr[p].done + 1
      PROVE  Orderly' /\ Window'
  BY <1>o, <1>s, SlotKept
<1>i. WriteIdx(p) \in 0 .. Cap - 1 /\ pr[p].need \in Nat
  BY Fields, HandleTyped
<1>w. pr[p].pc \in Writing =>
        /\ slots[WriteIdx(p)].state # "COMMITTED" /\ slots[WriteIdx(p)].owner \in {p, NoOne}
        /\ Seq0(p) \in Nat /\ pr[p].seq > 0
        /\ scenario.sizes = {1} => pr[p].need = 1
  <2>1. SUFFICES ASSUME pr[p].pc \in Writing
                 PROVE  /\ Open(WriteIdx(p), {p}) /\ Seq0(p) \in Nat /\ pr[p].seq > 0
                        /\ scenario.sizes = {1} => pr[p].need = 1
    BY DEF Open
  <2>2. Position(p) \in Position(p) .. pr[p].start + pr[p].need - 1
    <3>1. /\ pr[p].start \in Nat /\ pr[p].need \in Nat /\ pr[p].done \in Nat
          /\ pr[p].done < pr[p].need
      BY <2>1, Fields DEF Reserved
    <3> QED BY <3>1 DEF Position
  <2>3. Open(WriteIdx(p), {p})
    BY <1>o, <2>1, <2>2 DEF Window, WriteIdx
  <2>4. pr[p].need \in scenario.sizes
    BY <2>1 DEF Reserved, Writing
  <2> QED BY <2>1, <2>3, <2>4, HandleTyped
<1>8. CASE MarkSlot(p)
  <2>1. pr[p].pc \in Writing /\ "stamp" \in Writing /\ Goto(p, "stamp") /\ UNCHANGED <<head, tail>>
    BY <1>8 DEF MarkSlot, At, Writing
  <2>2. /\ slots'[WriteIdx(p)].state = "WRITING" /\ slots'[WriteIdx(p)].owner = NoOne
        /\ slots'[WriteIdx(p)].reserved = pr[p].need
        /\ \A j \in 0 .. Cap - 1 : j # WriteIdx(p) => Untouched(j)
    BY <1>8, <1>f, <1>i, <1>w, <2>1, FieldsWritten DEF MarkSlot, Untouched
  <2> QED BY <1>g, <1>s, <1>w, <2>1, <2>2
<1>9. CASE StampSlot(p)
  <2>1. pr[p].pc \in Writing /\ "fill" \in Writing /\ Goto(p, "fill") /\ UNCHANGED <<head, tail>>
    BY <1>9 DEF StampSlot, At, Writing
  <2>2. /\ slots'[WriteIdx(p)].state = slots[WriteIdx(p)].state /\ slots'[WriteIdx(p)].owner = p
        /\ slots'[WriteIdx(p)].reserved = slots[WriteIdx(p)].reserved
        /\ \A j \in 0 .. Cap - 1 : j # WriteIdx(p) => Untouched(j)
    BY <1>9, <1>f, <1>i, IdentityPublished DEF StampSlot, Untouched
  <2>3. scenario.sizes = {1} => slots[WriteIdx(p)].reserved <= 1
    BY <1>i DEF Orderly
  <2> QED BY <1>g, <1>s, <1>w, <2>1, <2>2, <2>3
<1>10. CASE FillSlot(p)
  <2>1. pr[p].pc \in Writing /\ "commit" \in Writing /\ Goto(p, "commit") /\ UNCHANGED <<head, tail>>
    BY <1>10 DEF FillSlot, At, Writing
  <2>2. \A j \in 0 .. Cap - 1 : Untouched(j)
    BY <1>10, <1>w, <2>1, SlotFilled DEF Typed, Untouched
  <2>3. scenario.sizes = {1} => slots[WriteIdx(p)].reserved <= 1
    BY <1>i DEF Orderly
  <2> QED BY <1>g, <1>i, <1>s, <1>w, <2>1, <2>2, <2>3 DEF Untouched
<1>11. CASE CommitSlot(p)
  <2>1. pr[p].pc \in Writing /\ UNCHANGED <<head, tail>>
    BY <1>11 DEF CommitSlot, At, Writing
  <2>2. /\ slots'[WriteIdx(p)].owner = NoOne /\ slots'[WriteIdx(p)].reserved = 0
        /\ \A j \in 0 .. Cap - 1 : j # WriteIdx(p) => Untouched(j)
    BY <1>11, <1>f, <1>i, <1>w, <2>1, HeaderWritten DEF CommitSlot, Untouched, SlotState
  <2>3. /\ pr'[p].op # "drop" /\ pr'[p].pc \notin Dropping
        /\ pr'[p].pc \in Writing => /\ pr'[p].start = pr[p].start /\ pr'[p].need = pr[p].need
                                    /\ pr'[p].done = pr[p].done + 1
    <3>1. CASE pr[p].done + 1 < pr[p].need
      <4>1. /\ pr'[p].pc = "claim" /\ pr'[p].op = pr[p].op /\ pr'[p].start = pr[p].start
            /\ pr'[p].need = pr[p].need /\ pr'[p].done = pr[p].done + 1
        BY <1>11, <1>f, <3>1 DEF CommitSlot, Record
      <4> QED BY <1>d, <4>1 DEF Dropping
    <3>2. CASE ~ (pr[p].done + 1 < pr[p].need)
      <4>1. pr'[p].pc = "idle" /\ pr'[p].op = "none"
        BY <1>11, <1>f, <3>2 DEF CommitSlot, SendEnds, Handle
      <4> QED BY <4>1 DEF Dropping, Writing
    <3> QED BY <3>1, <3>2
  <2> QED BY <1>s, <2>1, <2>2, <2>3
<1>12. ~ (DropGate(p) \/ DropLook(p) \/ DropTail(p) \/ DropFree(p) \/ DropVerify(p)
          \/ DropExpires(p) \/ DropReclaimFree(p) \/ DropReclaimTail(p))
  BY <1>d DEF DropGate, DropLook, DropTail, DropFree, DropVerify, DropExpires, DropReclaimFree,
    DropReclaimTail, At, Dropping
<1> QED BY <1>1, <1>2, <1>3, <1>4, <1>5, <1>6, <1>7, <1>8, <1>9, <1>10, <1>11, <1>12
  DEF Sending, ProducerStep

\* A COMMITTED tail slot, and a dead writer's, is in the window and nobody's
\* position still to be written.
LEMMA TailIsNobodys ==
  ASSUME Typed, Reserved, Window,
         \/ slots[tail % Cap].state = "COMMITTED"
         \/ slots[tail % Cap].owner # NoOne /\ slots[tail % Cap].owner \notin alive
  PROVE  /\ tail < head
         /\ \A p \in alive : pr[p].pc \in Writing => tail < Position(p)
<1>f. head \in Nat /\ tail \in Nat /\ Cap \in Nat \ {0} /\ alive \subseteq Producers
  BY Fields, CapAssumption DEF Typed, TypeOK, RegionOK
<1>1. ~Open(tail % Cap, {}) /\ \A p \in alive : ~Open(tail % Cap, {p})
  BY DEF Open
<1>2. tail < head
  <2>1. tail \notin head .. tail + Cap - 1
    BY <1>1 DEF Window
  <2> QED BY <1>f, <2>1
<1>3. ASSUME NEW p \in alive, pr[p].pc \in Writing PROVE tail < Position(p)
  <2>1. tail \notin Position(p) .. pr[p].start + pr[p].need - 1
    BY <1>1, <1>3 DEF Window
  <2>2. /\ Position(p) \in Nat /\ tail <= Position(p)
        /\ pr[p].start \in Nat /\ pr[p].need \in Nat /\ pr[p].done \in Nat
        /\ pr[p].done < pr[p].need
    BY <1>f, <1>3, PositionFacts, Fields DEF Reserved
  <2>3. Position(p) <= pr[p].start + pr[p].need - 1
    BY <2>2 DEF Position
  <2> QED BY <1>f, <2>1, <2>2, <2>3
<1> QED BY <1>2, <1>3

LEMMA ConsumerKept ==
  ASSUME Typed, Reserved, Quiet, Orderly, Window, ConsumerStep
  PROVE  Orderly' /\ Window'
<1>t. /\ slots \in Slots /\ tail \in Nat /\ cons.t \in Nat /\ cons.h \in Nat /\ cons.left \in Nat
      /\ cons.seq \in Nat
      /\ ReceiverOK /\ tail % Cap \in 0 .. Cap - 1 /\ TailIdx \in 0 .. Cap - 1
  BY PositionsHaveSlots DEF Typed, TypeOK, RegionOK, ReceiverOK
<1>a. cons.pc # "idle" => cons.t = tail /\ TailIdx = tail % Cap
  BY DEF Orderly, TailIdx
<1>p. cons.pc \in Passing =>
        /\ tail < head
        /\ \A p \in alive : pr[p].pc \in Writing => tail < Position(p)
  BY DEF Window
<1>q. cons.pc \in Passed => slots[tail % Cap].state # "COMMITTED" /\ slots[tail % Cap].owner = NoOne
  BY DEF Window, Open
<1>e. ASSUME RecvEnds, UNCHANGED <<scenario, head, tail, slots, alive, pr>>
      PROVE  Orderly' /\ Window'
  <2>1. cons'.pc = "idle"
    BY <1>e DEF RecvEnds, Receiver
  <2> QED BY <1>e, <2>1, ReceiverKept DEF Passing, Passed
\* The receiver moves on at the tail slot it has committed itself to.
<1>m. ASSUME cons'.t = tail, cons'.pc \notin {"reclaimFree", "reclaimTail"},
             cons'.pc \in Passing => cons.pc \in Passing,
             cons'.pc \in Passed => cons.pc \in Passed,
             UNCHANGED <<scenario, head, tail, slots, alive, pr>>
      PROVE  Orderly' /\ Window'
  BY <1>m, <1>p, <1>q, ReceiverKept
\* The tail slot is written.
<1>w. ASSUME cons'.pc # "idle" => cons'.t = tail,
             cons'.pc \in {"reclaimFree", "reclaimTail"} => cons'.ext = 1,
             cons.pc \in Passing,
             UNCHANGED <<scenario, head, tail, alive, pr>>,
             \A j \in 0 .. Cap - 1 : j # tail % Cap => slots'[j] = slots[j],
             slots'[tail % Cap].state # "COMMITTED", slots'[tail % Cap].owner = NoOne,
             slots'[tail % Cap].reserved = 0
      PROVE  Orderly' /\ Window'
  <2>1. \A j \in 0 .. Cap - 1 : j # tail % Cap => Untouched(j)
    BY <1>w DEF Untouched
  <2> QED BY <1>w, <1>p, <2>1, ReceiverKept
\* The receiver sees its message at the tail.
<1>c. ASSUME cons'.t = tail, cons'.pc = "copy", slots[tail % Cap].state = "COMMITTED",
             UNCHANGED <<scenario, head, tail, slots, alive, pr>>
      PROVE  Orderly' /\ Window'
  BY <1>c, TailIsNobodys, ReceiverKept DEF Passed
<1>1. CASE RecvBegin
  <2>1. cons'.pc = "gate" /\ cons'.t = tail
    BY <1>1 DEF RecvBegin, Receiver
  <2> QED BY <1>1, <1>m, <2>1 DEF RecvBegin, Passing, Passed
<1>2. CASE SecondLook
  <2>1. CASE Readable(TailIdx)
    <3>1. cons'.pc = "copy" /\ cons'.t = cons.t /\ cons.pc = "second"
      BY <1>2, <1>t, <2>1 DEF SecondLook, ConsAt, ReceiverOK
    <3>2. slots[tail % Cap].state = "COMMITTED"
      BY <1>a, <2>1, <3>1 DEF Readable
    <3> QED BY <1>2, <1>a, <1>c, <3>1, <3>2 DEF SecondLook
  <2>2. CASE ~Readable(TailIdx)
    BY <1>2, <1>e, <2>2 DEF SecondLook
  <2> QED BY <2>1, <2>2
<1>3. CASE Gate
  <2>1. CASE Readable(TailIdx)
    <3>1. cons'.pc = "copy" /\ cons'.t = cons.t /\ cons.pc = "gate"
      BY <1>3, <1>t, <2>1 DEF Gate, ConsAt, ReceiverOK
    <3>2. slots[tail % Cap].state = "COMMITTED"
      BY <1>a, <2>1, <3>1 DEF Readable
    <3> QED BY <1>3, <1>a, <1>c, <3>1, <3>2 DEF Gate
  <2>2. CASE Move("verify")
    <3>1. cons'.pc = "verify" /\ cons'.t = cons.t /\ cons.pc = "gate"
      BY <1>3, <1>t, <2>2 DEF Gate, Move, ConsAt, ReceiverOK
    <3> QED BY <1>3, <1>a, <1>m, <3>1 DEF Gate, Passing, Passed
  <2>3. CASE RecvEnds
    BY <1>3, <1>e, <2>3 DEF Gate
  <2> QED BY <1>3, <2>1, <2>2, <2>3 DEF Gate
<1>4. CASE Verify
  <2> DEFINE n == Extent(cons.h, cons.t)
  <2>0. n \in Nat /\ cons.pc = "verify"
    BY <1>4, <1>t, ExtentTyped DEF Verify, ConsAt
  <2>1. CASE n = 0
    BY <1>4, <1>e, <2>1 DEF Verify
  <2>2. CASE n > 0
    <3>1. n = 1 /\ slots[tail % Cap].owner # NoOne /\ slots[tail % Cap].owner \notin alive
      BY <1>a, <1>t, <2>0, <2>2, ExtentOfOne
    <3>2. /\ cons' = [cons EXCEPT !.pc = "reclaimFree", !.left = n, !.ext = n]
          /\ UNCHANGED <<scenario, head, tail, slots, alive, pr>>
      BY <1>4, <2>2, <3>1 DEF Verify
    <3> HIDE DEF n
    <3>3. cons'.pc = "reclaimFree" /\ cons'.ext = 1 /\ cons'.t = tail
      BY <1>a, <1>t, <2>0, <3>1, <3>2 DEF ReceiverOK
    <3> QED BY <3>1, <3>2, <3>3, TailIsNobodys, ReceiverKept DEF Passed
  <2> QED BY <2>0, <2>1, <2>2
<1>5. CASE ReclaimFree
  <2>0. cons.pc = "reclaimFree" /\ cons.ext = 1 /\ cons.left = 1 /\ cons.t = tail
    BY <1>5, <1>a, <1>t DEF ReclaimFree, ConsAt, Orderly, Typed
  <2>1. cons.t + cons.ext - cons.left = tail
    BY <1>t, <2>0
  <2>2. /\ slots'[tail % Cap].state = "FREE" /\ slots'[tail % Cap].owner = NoOne
        /\ slots'[tail % Cap].reserved = 0
        /\ \A j \in 0 .. Cap - 1 : j # tail % Cap => slots'[j] = slots[j]
    BY <1>5, <1>t, <2>1, SlotReleased DEF ReclaimFree
  <2>3. cons'.t = tail /\ cons'.ext = 1 /\ UNCHANGED <<scenario, head, tail, alive, pr>>
    BY <1>5, <1>t, <2>0 DEF ReclaimFree, ReceiverOK
  <2> QED BY <1>w, <2>0, <2>2, <2>3 DEF Passing
<1>6. CASE ReclaimTail
  <2>0. cons.pc = "reclaimTail" /\ cons.ext = 1 /\ cons.t = tail
    BY <1>6, <1>a DEF ReclaimTail, ConsAt, Orderly
  <2>1. /\ tail' = tail + 1 /\ cons'.pc = "second" /\ cons'.t = tail'
        /\ UNCHANGED <<scenario, head, slots, alive, pr>>
    BY <1>6, <1>t, <2>0 DEF ReclaimTail, TailIs, ReceiverOK
  <2> QED BY <2>0, <2>1, TailKept DEF Passed
<1>7. CASE CopyPayload
  <2>1. cons.pc = "copy" /\ cons'.pc = "pin" /\ cons'.t = cons.t
    BY <1>7, <1>t DEF CopyPayload, ConsAt, ReceiverOK
  <2> QED BY <1>7, <1>a, <1>m, <2>1 DEF CopyPayload, Passing, Passed
<1>8. CASE PinSlot
  <2>1. cons.pc = "pin" /\ cons'.pc = "check" /\ cons'.t = cons.t
    BY <1>8, <1>t DEF PinSlot, ConsAt, ReceiverOK
  <2>2. /\ slots'[tail % Cap].state = "PINNED" /\ slots'[tail % Cap].owner = NoOne
        /\ slots'[tail % Cap].reserved = 0
        /\ \A j \in 0 .. Cap - 1 : j # tail % Cap => slots'[j] = slots[j]
    BY <1>8, <1>a, <1>t, <2>1, HeaderWritten DEF PinSlot, SlotState
  <2> QED BY <1>8, <1>a, <1>w, <2>1, <2>2 DEF PinSlot, Passing
<1>9. CASE CheckPinned
  <2>1. cons.pc = "check"
    BY <1>9 DEF CheckPinned, ConsAt
  <2>2. CASE Move("release")
    <3>1. cons'.pc = "release" /\ cons'.t = cons.t
      BY <1>t, <2>2 DEF Move, ReceiverOK
    <3> QED BY <1>9, <1>a, <1>m, <2>1, <3>1 DEF CheckPinned, Passing, Passed
  <2>3. CASE RecvEnds
    BY <1>9, <1>e, <2>3 DEF CheckPinned
  <2> QED BY <1>9, <2>2, <2>3 DEF CheckPinned
<1>10. CASE FreeTail
  <2>1. cons.pc = "release"
    BY <1>10 DEF FreeTail, ConsAt
  <2>2. /\ slots'[tail % Cap].state = "FREE" /\ slots'[tail % Cap].owner = NoOne
        /\ slots'[tail % Cap].reserved = 0
        /\ \A j \in 0 .. Cap - 1 : j # tail % Cap => slots'[j] = slots[j]
    BY <1>10, <1>a, <1>t, <2>1, SlotReleased DEF FreeTail
  <2>3. cons'.pc = "idle" \/ (cons'.pc = "advance" /\ cons'.t = cons.t)
    BY <1>10, <1>t DEF FreeTail, RecvEnds, Receiver, Move, ReceiverOK
  <2> QED BY <1>10, <1>a, <1>w, <2>1, <2>2, <2>3 DEF FreeTail, Passing
<1>11. CASE AdvanceTail
  <2>0. cons.pc = "advance" /\ cons.t = tail
    BY <1>11, <1>a DEF AdvanceTail, ConsAt
  <2>1. tail' = tail + 1 /\ UNCHANGED <<scenario, head, slots, alive, pr>>
    BY <1>11, <1>t, <2>0 DEF AdvanceTail, FetchMaxTail
  <2>2. cons'.pc = "idle" \/ (cons'.pc = "gate" /\ cons'.t = cons.t + 1)
    <3>1. RecvEnds \/ cons' = [cons EXCEPT !.t = cons.t + 1, !.part = cons.part + 1, !.pc = "gate"]
      BY <1>11 DEF AdvanceTail
    <3>2. CASE RecvEnds
      BY <3>2 DEF RecvEnds, Receiver
    <3>3. CASE cons' = [cons EXCEPT !.t = cons.t + 1, !.part = cons.part + 1, !.pc = "gate"]
      BY <1>t, <3>3 DEF ReceiverOK
    <3> QED BY <3>1, <3>2, <3>3
  <2> QED BY <2>0, <2>1, <2>2, TailKept DEF Passed
<1> QED BY <1>1, <1>2, <1>3, <1>4, <1>5, <1>6, <1>7, <1>8, <1>9, <1>10, <1>11 DEF ConsumerStep

LEMMA IInvNext == IInv /\ [Next]_vars => IInv'
<1> SUFFICES ASSUME IInv, [Next]_vars PROVE IInv'
  OBVIOUS
<1>1. Typed /\ Reserved /\ Typed' /\ Reserved'
  BY TypedNext, ReservedNext DEF IInv
<1>2. ASSUME NEW p \in Producers, Sending(p) PROVE IInv'
  <2>1. scenario' = scenario
    BY <1>1, <1>2, OthersKept
  <2> QED BY <1>1, <1>2, <2>1, SendingKept DEF IInv, Quiet, Lossless, Calm
<1>3. CASE ConsumerStep
  <2>1. scenario' = scenario
    BY <1>3 DEF ConsumerStep, RecvBegin, SecondLook, Gate, Verify, ReclaimFree, ReclaimTail,
      CopyPayload, PinSlot, CheckPinned, FreeTail, AdvanceTail
  <2> QED BY <1>1, <1>3, <2>1, ConsumerKept DEF IInv, Quiet, Lossless, Calm
<1>4. ASSUME NEW p \in Producers, Die(p) PROVE IInv'
  <2>1. /\ UNCHANGED <<scenario, head, tail, slots, pr, cons>>
        /\ alive' \subseteq alive /\ scenario.victims # {}
    BY <1>4 DEF Die
  <2>2. Quiet' => Orderly' /\ Window'
    BY <2>1 DEF IInv, Quiet, Lossless, Calm, Orderly, Window, Open, Position
  <2> QED BY <1>1, <2>2 DEF IInv
<1>5. CASE UNCHANGED vars
  BY <1>1, <1>5 DEF vars, IInv, Quiet, Lossless, Calm, Orderly, Window, Open, Position
<1> QED BY <1>2, <1>3, <1>4, <1>5 DEF Next, Sending

\* Two producers never over-commit the ring: the cursors span at most one lap
\* and, where nothing is dropped, no two live handles hold reservations on one
\* slot, whatever is received, killed and reclaimed at the same time.
THEOREM NeverOvercommitted == Spec => []ReservationsDisjoint
<1>1. IInv => ReservationsDisjoint
  BY DisjointFromInv
<1> QED BY <1>1, OrderlyInit, IInvNext, PTL DEF Spec

\* Where slots change, and on whose behalf.
LEMMA WhoWrites ==
  ASSUME Typed, Reserved, Quiet, Orderly, Window, [Next]_vars
  PROVE  \/ slots' = slots
         \/ \E q \in alive :
              /\ pr[q].pc \in Writing /\ pr'[q] # pr[q]
              /\ \A j \in 0 .. Cap - 1 : j # WriteIdx(q) => slots'[j] = slots[j]
         \/ /\ cons.pc \in Passing
            /\ \A j \in 0 .. Cap - 1 : j # tail % Cap => slots'[j] = slots[j]
<1>t. /\ slots \in Slots /\ tail \in Nat /\ cons.t \in Nat /\ cons.left \in Nat /\ cons.seq \in Nat
      /\ tail % Cap \in 0 .. Cap - 1 /\ pr \in [Producers -> Record]
  BY PositionsHaveSlots, Fields DEF Typed, TypeOK, RegionOK, ReceiverOK
<1>a. cons.pc # "idle" => cons.t = tail /\ TailIdx = tail % Cap
  BY DEF Orderly, TailIdx
<1>1. ASSUME NEW q \in Producers,
             MarkSlot(q) \/ StampSlot(q) \/ FillSlot(q) \/ CommitSlot(q)
      PROVE  /\ q \in alive /\ pr[q].pc \in Writing /\ pr'[q] # pr[q]
             /\ \A j \in 0 .. Cap - 1 : j # WriteIdx(q) => slots'[j] = slots[j]
  <2>0. q \in alive /\ pr[q].pc \in Writing /\ pr[q].pc \in {"mark", "stamp", "fill", "commit"}
    BY <1>1 DEF MarkSlot, StampSlot, FillSlot, CommitSlot, At, Writing
  <2>1. pr[q].seq > 0 /\ Seq0(q) \in Nat /\ WriteIdx(q) \in 0 .. Cap - 1 /\ pr[q].need \in Nat
    BY <2>0, HandleTyped, Fields
  <2>2. CASE MarkSlot(q)
    BY <1>t, <2>1, <2>2, FieldsWritten, <2>0 DEF MarkSlot, At, Goto, Record
  <2>3. CASE StampSlot(q)
    BY <1>t, <2>1, <2>3, IdentityPublished, <2>0 DEF StampSlot, At, Goto, Record
  <2>4. CASE FillSlot(q)
    <3>1. pr'[q].pc = "commit" /\ pr[q].pc = "fill"
      BY <1>t, <2>4 DEF FillSlot, At, Goto, Record
    <3>2. \A j \in 0 .. Cap - 1 : j # WriteIdx(q) => slots'[j] = slots[j]
      BY <2>1, <2>4, SlotFilled DEF Typed
    <3> QED BY <2>0, <3>1, <3>2
  <2>5. CASE CommitSlot(q)
    <3>1. pr'[q].pc \in {"claim", "idle"} /\ pr[q].pc = "commit"
      BY <1>t, <2>5 DEF CommitSlot, At, SendEnds, Handle, Record
    <3>2. \A j \in 0 .. Cap - 1 : j # WriteIdx(q) => slots'[j] = slots[j]
      BY <1>t, <2>1, <2>5, HeaderWritten DEF CommitSlot, SlotState
    <3> QED BY <2>0, <3>1, <3>2
  <2> QED BY <1>1, <2>2, <2>3, <2>4, <2>5
<1>2. ASSUME NEW q \in Producers,
             \/ \E n \in scenario.sizes : SendBegin(q, n)
             \/ WaitExpires(q) \/ LoadHead(q) \/ LoadTail(q) \/ Reserve(q) \/ ClaimSlot(q)
             \/ ClaimExpires(q) \/ Die(q)
      PROVE  slots' = slots
  BY <1>2 DEF SendBegin, WaitExpires, LoadHead, LoadTail, Reserve, ClaimSlot, ClaimExpires, Die
<1>3. ASSUME NEW q \in Producers
      PROVE  ~ (DropGate(q) \/ DropLook(q) \/ DropTail(q) \/ DropFree(q) \/ DropVerify(q)
                \/ DropExpires(q) \/ DropReclaimFree(q) \/ DropReclaimTail(q))
  BY DEF Orderly, DropGate, DropLook, DropTail, DropFree, DropVerify, DropExpires,
    DropReclaimFree, DropReclaimTail, At, Dropping
<1>4. CASE PinSlot \/ FreeTail
  <2>1. cons.pc \in {"pin", "release"}
    BY <1>4 DEF PinSlot, FreeTail, ConsAt
  <2>2. \A j \in 0 .. Cap - 1 : j # tail % Cap => slots'[j] = slots[j]
    BY <1>4, <1>a, <1>t, <2>1, HeaderWritten, SlotReleased DEF PinSlot, FreeTail, SlotState
  <2> QED BY <2>1, <2>2 DEF Passing
<1>5. CASE ReclaimFree
  <2>0. cons.pc = "reclaimFree" /\ cons.ext = 1 /\ cons.left = 1 /\ cons.t = tail
    BY <1>5, <1>a, <1>t DEF ReclaimFree, ConsAt, Orderly, Typed
  <2>1. cons.t + cons.ext - cons.left = tail
    BY <1>t, <2>0
  <2>2. \A j \in 0 .. Cap - 1 : j # tail % Cap => slots'[j] = slots[j]
    BY <1>5, <1>t, <2>1, SlotReleased DEF ReclaimFree
  <2> QED BY <2>0, <2>2 DEF Passing
<1>6. ASSUME ConsumerStep, ~PinSlot, ~FreeTail, ~ReclaimFree PROVE slots' = slots
  BY <1>6 DEF ConsumerStep, RecvBegin, SecondLook, Gate, Verify, ReclaimTail, CopyPayload,
    CheckPinned, AdvanceTail
<1>7. CASE UNCHANGED vars
  BY <1>7 DEF vars
<1> QED BY <1>1, <1>2, <1>3, <1>4, <1>5, <1>6, <1>7 DEF Next, ProducerStep

\* A slot a live producer is writing is changed by that producer only: a
\* reclaim leaves live writers alone, and so does everything else.
THEOREM LiveWriterUndisturbed == Spec => WriterUndisturbed
<1>1. IInv /\ [Next]_vars =>
        \A p \in alive : Lossless /\ Calm /\ pr[p].pc \in {"stamp", "fill", "commit"} /\ pr'[p] = pr[p] =>
          slots'[WriteIdx(p)] = slots[WriteIdx(p)]
  <2>1. SUFFICES ASSUME IInv, [Next]_vars, Quiet, NEW p \in alive, pr[p].pc \in Writing, pr'[p] = pr[p]
                 PROVE  slots'[WriteIdx(p)] = slots[WriteIdx(p)]
    BY DEF Quiet, Writing
  <2>2. Typed /\ Reserved /\ Orderly /\ Window
    BY <2>1 DEF IInv
  <2>3. /\ Position(p) \in Nat /\ WriteIdx(p) \in 0 .. Cap - 1 /\ WriteIdx(p) = Position(p) % Cap
        /\ tail <= Position(p) /\ Position(p) < tail + Cap /\ tail \in Nat /\ p \in Producers
    BY <2>1, <2>2, PositionFacts, Fields DEF WriteIdx
  <2>4. \A q \in alive : pr[q].pc \in Writing =>
          Position(q) \in Position(q) .. pr[q].start + pr[q].need - 1
    <3>1. SUFFICES ASSUME NEW q \in alive, pr[q].pc \in Writing
                   PROVE  Position(q) \in Position(q) .. pr[q].start + pr[q].need - 1
      OBVIOUS
    <3>2. /\ q \in Producers /\ pr[q].start \in Nat /\ pr[q].need \in Nat /\ pr[q].done \in Nat
          /\ pr[q].done < pr[q].need
      BY <2>2, <3>1, PositionFacts, Fields DEF Reserved
    <3> QED BY <3>2 DEF Position
  <2>5. ASSUME NEW q \in alive, pr[q].pc \in Writing, q # p PROVE WriteIdx(q) # WriteIdx(p)
    BY <2>1, <2>2, <2>4, <2>5, SlotsApart DEF WriteIdx
  <2>6. cons.pc \in Passing => tail % Cap # WriteIdx(p)
    <3>1. SUFFICES ASSUME cons.pc \in Passing PROVE tail % Cap # WriteIdx(p)
      OBVIOUS
    <3>2. tail < Position(p)
      BY <2>1, <2>2, <3>1 DEF Window
    <3>3. tail # Position(p) /\ tail < tail + Cap
      BY <2>3, <3>2, CapAssumption
    <3> QED BY <2>3, <3>3, OtherSlot
  <2> QED BY <2>1, <2>2, <2>3, <2>5, <2>6, WhoWrites
<1>2. IInv /\ [Next]_vars =>
        [\A p \in alive : Lossless /\ Calm /\ pr[p].pc \in {"stamp", "fill", "commit"} /\ pr'[p] = pr[p] =>
           slots'[WriteIdx(p)] = slots[WriteIdx(p)]]_vars
  BY <1>1
<1> QED BY <1>2, OrderlyInit, IInvNext, PTL DEF Spec, WriterUndisturbed

-----------------------------------------------------------------------------
(* What the channel delivers.                                              *)
(*                                                                         *)
(* Without drops the window between the cursors is a queue: every position *)
(* stands for one chunk from the moment it is reserved, whoever has still  *)
(* to write it, until the consumer has passed it.  No step changes what a  *)
(* position stands for, a reservation adds whole messages at the head, and *)
(* the consumer takes them at the tail.  With drops, messages of one slot  *)
(* are still in one place each.                                            *)

-----------------------------------------------------------------------------
(* The window as a queue                                                   *)

\* A slot of its reservation p has still to commit.
Owned(q, p) == pr[p].pc \in Writing /\ q \in Position(p) .. pr[p].start + pr[p].need - 1
Own(q)      == \E p \in Producers : Owned(q, p)

\* The chunk a handle writes at a position of its reservation.
ChunkAt(p, q) ==
  [from |-> p, seq |-> Seq0(p), part |-> q - pr[p].start, total |-> pr[p].need]

\* The stored chunk of a position: released, it is with the consumer.
FrameAt(q) == IF q = tail /\ cons.pc = "advance" THEN cons.frame ELSE slots[q % Cap].frame

\* What the consumer will find at a position of the window, or has found there.
Content(q) ==
  IF Own(q) THEN ChunkAt(CHOOSE p \in Producers : Owned(q, p), q) ELSE FrameAt(q)

LastChunk(f) == f.part + 1 = f.total
InSent(p, s) == \E j \in 1 .. Len(sent) : sent[j] = <<p, s>>

\* The physical slot of a position somebody has still to write, and of one
\* that is committed.
OwnedSlot(q, p) ==
  LET s == slots[q % Cap] IN
  /\ s.state \in {"FREE", "WRITING"} /\ s.owner \in {p, NoOne}
  /\ s.state = "WRITING" => q = Position(p) /\ pr[p].pc \in {"stamp", "fill", "commit"}
  /\ p \in alive /\ pr[p].pc = "commit" /\ q = Position(p) => s.frame = ChunkAt(p, q)
FullSlot(q) ==
  LET s == slots[q % Cap] IN
  /\ LastChunk(FrameAt(q)) => InSent(FrameAt(q).from, FrameAt(q).seq)
  /\ IF q = tail /\ cons.pc = "advance" THEN s.state = "FREE"
     ELSE IF q = tail /\ cons.pc \in {"check", "release"} THEN s.state = "PINNED"
     ELSE s.state = "COMMITTED" /\ s.seq = FrameAt(q).seq
Layout ==
  /\ \A q \in tail .. head - 1 :
       /\ \A p \in Producers : Owned(q, p) => OwnedSlot(q, p)
       /\ ~Own(q) => FullSlot(q)
  /\ \A q \in head .. tail + Cap - 1 : slots[q % Cap].state = "FREE"

\* The window is a sequence of whole messages, those of one producer in the
\* order of their numbers.
Genuine(f) ==
  /\ f.from \in Producers /\ f.seq \in Nat /\ f.part \in Nat /\ f.total \in scenario.sizes
  /\ f.part < f.total /\ f.seq < pr[f.from].seq
Before(f, g) == f.seq < g.seq \/ (f.seq = g.seq /\ f.total = g.total /\ f.part < g.part)
Follows(f, g) == IF LastChunk(f) THEN g.part = 0 ELSE g = [f EXCEPT !.part = f.part + 1]
Line ==
  /\ \A q \in tail .. head - 1 : Genuine(Content(q))
  /\ \A a, b \in tail .. head - 1 :
       a < b /\ Content(a).from = Content(b).from => Before(Content(a), Content(b))
  /\ \A q \in tail .. head - 1 : q + 1 < head => Follows(Content(q), Content(q + 1))
  /\ tail < head => LastChunk(Content(head - 1))

Holding == {"pin", "check", "release", "advance"}
Receiving ==
  /\ cons.part = 0 /\ tail < head => Content(tail).part = 0
  /\ cons.part > 0 => /\ tail < head /\ cons.pc \in {"gate", "copy"} \cup Holding
                      /\ Content(tail) = [cons.first EXCEPT !.part = cons.part]
  /\ cons.pc \in {"copy"} \cup Holding => ~Own(tail) /\ cons.seq = Content(tail).seq
  /\ cons.pc \in Holding => cons.frame = Content(tail)
  /\ cons.pc \in Holding \ {"pin"} /\ cons.part = 0 => cons.first = cons.frame
  /\ cons.pc \in {"reclaimFree", "reclaimTail"} => \E p \in Producers \ alive : Owned(tail, p)
  /\ cons.pc = "reclaimTail" => slots[tail % Cap].state = "FREE"

Taken ==
  /\ \A i \in 1 .. Len(got) : LET p == got[i][1]  s == got[i][2] IN
       /\ p \in Producers /\ s < pr[p].seq /\ InSent(p, s)
       /\ \A q \in tail .. head - 1 : Content(q).from = p => s < Content(q).seq
  /\ \A i, j \in 1 .. Len(got) : i < j /\ got[i][1] = got[j][1] => got[i][2] < got[j][2]
Kept ==
  \A j \in 1 .. Len(sent) :
    \/ \E i \in 1 .. Len(got) : got[i] = sent[j]
    \/ \E q \in tail .. head - 1 :
         /\ ~Own(q) /\ LastChunk(Content(q))
         /\ Content(q).from = sent[j][1] /\ Content(q).seq = sent[j][2]

Delivery == Layout /\ Line /\ Receiving /\ Taken /\ Kept

\* What the proofs take from the invariant of the reservations.
LEMMA Facts ==
  ASSUME Typed, Reserved, Orderly, Window
  PROVE  /\ head \in Nat /\ tail \in Nat /\ tail <= head /\ head <= tail + Cap
         /\ Cap \in Nat \ {0} /\ alive \subseteq Producers /\ slots \in Slots
         /\ \A q \in Nat : q % Cap \in 0 .. Cap - 1
         /\ cons.pc # "idle" => cons.t = tail /\ TailIdx = tail % Cap
         /\ \A q \in tail .. head - 1 : q \in Nat /\ tail <= q /\ q < head /\ q < tail + Cap
<1>1. /\ head \in Nat /\ tail \in Nat /\ tail <= head /\ head <= tail + Cap
      /\ Cap \in Nat \ {0}
  BY Fields, CapAssumption DEF Reserved, Window
<1>2. alive \subseteq Producers /\ slots \in Slots /\ \A q \in Nat : q % Cap \in 0 .. Cap - 1
  BY PositionsHaveSlots DEF Typed, TypeOK, RegionOK
<1>3. cons.pc # "idle" => cons.t = tail /\ TailIdx = tail % Cap
  BY DEF Orderly, TailIdx
<1>4. \A q \in tail .. head - 1 : q \in Nat /\ tail <= q /\ q < head /\ q < tail + Cap
  BY <1>1
<1> QED BY <1>1, <1>2, <1>3, <1>4

\* A position belongs to one handle at most, and lies below the head.
LEMMA OwnedFacts ==
  ASSUME Typed, Reserved, NEW p \in Producers, NEW q, Owned(q, p)
  PROVE  /\ q \in Nat /\ q < head /\ Position(p) <= q /\ Position(p) \in Nat
         /\ q - pr[p].start \in Nat /\ q - pr[p].start < pr[p].need
         /\ pr[p].start <= q /\ q < pr[p].start + pr[p].need
         /\ pr[p].need \in scenario.sizes /\ Seq0(p) \in Nat /\ Seq0(p) < pr[p].seq
         /\ \A r \in Producers : Owned(q, r) => r = p
<1>1. pr[p].pc \in Writing /\ q \in Position(p) .. pr[p].start + pr[p].need - 1
  BY DEF Owned
<1>2. /\ head \in Nat /\ pr[p].start \in Nat /\ pr[p].need \in Nat /\ pr[p].done \in Nat
      /\ pr[p].start + pr[p].need <= head
  BY <1>1, Fields DEF Reserved
<1>3. /\ q \in Nat /\ q < head /\ Position(p) <= q /\ Position(p) \in Nat
      /\ q - pr[p].start \in Nat /\ q - pr[p].start < pr[p].need
      /\ pr[p].start <= q /\ q < pr[p].start + pr[p].need
  BY <1>1, <1>2 DEF Position
<1>4. pr[p].need \in scenario.sizes
  BY <1>1 DEF Reserved, Writing
<1>5. Seq0(p) \in Nat /\ Seq0(p) < pr[p].seq
  <2>1. pr[p].seq \in Nat /\ pr[p].seq > 0
    BY <1>1, HandleTyped, RecordFields DEF Typed
  <2> QED BY <2>1 DEF Seq0
<1>6. ASSUME NEW r \in Producers, Owned(q, r), r # p PROVE FALSE
  <2>1. pr[r].pc \in Writing /\ q \in Position(r) .. pr[r].start + pr[r].need - 1
    BY <1>6 DEF Owned
  <2>2. /\ pr[r].start \in Nat /\ pr[r].need \in Nat /\ pr[r].done \in Nat
    BY Fields
  <2>3. pr[r].start <= q /\ q < pr[r].start + pr[r].need
    BY <1>3, <2>1, <2>2 DEF Position
  <2>4. \/ pr[p].start + pr[p].need <= pr[r].start
        \/ pr[r].start + pr[r].need <= pr[p].start
    BY <1>1, <1>6, <2>1 DEF Reserved
  <2> QED BY <1>2, <1>3, <2>2, <2>3, <2>4
<1> QED BY <1>3, <1>4, <1>5, <1>6

LEMMA ContentFacts ==
  Typed /\ Reserved =>
    \A x : /\ \A p \in Producers : Owned(x, p) => Content(x) = ChunkAt(p, x)
           /\ ~Own(x) => Content(x) = FrameAt(x)
<1>1. ASSUME Typed, Reserved, NEW q, NEW p \in Producers, Owned(q, p)
      PROVE  Content(q) = ChunkAt(p, q)
  <2> DEFINE r == CHOOSE r \in Producers : Owned(q, r)
  <2>1. r \in Producers /\ Owned(q, r)
    BY <1>1
  <2> HIDE DEF r
  <2>2. r = p
    BY <1>1, <2>1, OwnedFacts
  <2> QED BY <1>1, <2>2 DEF Content, Own, r
<1> QED BY <1>1 DEF Content

LEMMA ContentFactsNext ==
  (Typed /\ Reserved =>
    \A x : /\ \A p \in Producers : Owned(x, p) => Content(x) = ChunkAt(p, x)
           /\ ~Own(x) => Content(x) = FrameAt(x))'
BY ContentFacts, PTL

\* What a position stands for, where its owner, the owner's record and the
\* stored chunk are as they were.
LEMMA ContentKept ==
  ASSUME Typed, Reserved, Typed', Reserved', NEW q,
         \A p \in Producers : Owned(q, p)' <=> Owned(q, p),
         \A p \in Producers : Owned(q, p) => ChunkAt(p, q)' = ChunkAt(p, q),
         ~Own(q) => FrameAt(q)' = FrameAt(q)
  PROVE  Content(q)' = Content(q) /\ (Own(q)' <=> Own(q))
<1>2. /\ \A p \in Producers : Owned(q, p)' => Content(q)' = ChunkAt(p, q)'
      /\ ~Own(q)' => Content(q)' = FrameAt(q)'
  BY ContentFactsNext
<1>3. Own(q)' <=> Own(q)
  BY DEF Own
<1>4. CASE Own(q)
  <2>1. PICK p \in Producers : Owned(q, p)
    BY <1>4 DEF Own
  <2>2. Content(q) = ChunkAt(p, q)
    BY <2>1, ContentFacts
  <2> QED BY <1>2, <1>3, <2>1, <2>2
<1>5. CASE ~Own(q)
  <2>1. Content(q) = FrameAt(q)
    BY <1>5, ContentFacts
  <2> QED BY <1>2, <1>3, <1>5, <2>1
<1> QED BY <1>3, <1>4, <1>5

\* A handle that keeps its reservation.
SameHold(p) ==
  /\ pr'[p].pc \in Writing <=> pr[p].pc \in Writing
  /\ pr'[p].seq = pr[p].seq
  /\ pr[p].pc \in Writing => /\ pr'[p].start = pr[p].start /\ pr'[p].need = pr[p].need
                             /\ pr'[p].done = pr[p].done

LEMMA HoldKept ==
  ASSUME NEW p \in Producers, SameHold(p), NEW q
  PROVE  /\ Owned(q, p)' <=> Owned(q, p)
         /\ Owned(q, p) => ChunkAt(p, q)' = ChunkAt(p, q)
         /\ pr[p].pc \in Writing => Position(p)' = Position(p)
BY DEF SameHold, Owned, Position, ChunkAt, Seq0

\* The messages in the window, sent and received, where no position changes
\* what it stands for and no message is received.
LEMMA StoryKept ==
  ASSUME Typed, Reserved, Orderly, Window, Line, Taken, Kept, Typed',
         UNCHANGED <<scenario, head, tail, got>>,
         \A p \in Producers : pr'[p].seq = pr[p].seq,
         \A q \in tail .. head - 1 : Content(q)' = Content(q) /\ (Own(q)' => Own(q)),
         \/ sent' = sent
         \/ \E p \in Producers, s \in Nat :
              /\ sent' = Append(sent, <<p, s>>)
              /\ \E q \in tail .. head - 1 : /\ ~Own(q)' /\ LastChunk(Content(q))
                                             /\ Content(q).from = p /\ Content(q).seq = s
  PROVE  Line' /\ Taken' /\ Kept' /\ (\A p, s : InSent(p, s) => InSent(p, s)')
<1>f. head \in Nat /\ tail \in Nat /\ sent \in Seq(Producers \X Nat) /\ got \in Seq((Producers \cup {NoOne}) \X Nat)
  BY Facts DEF Typed, TypeOK, HistoryOK
<1>1. Line'
  <2>1. \A q \in tail .. head - 1 : Genuine(Content(q))'
    BY DEF Line, Genuine
  <2>2. \A a, b \in tail .. head - 1 :
          a < b /\ Content(a)'.from = Content(b)'.from => Before(Content(a), Content(b))'
    BY DEF Line, Before
  <2>3. \A q \in tail .. head - 1 : q + 1 < head => Follows(Content(q), Content(q + 1))'
    <3>1. SUFFICES ASSUME NEW q \in tail .. head - 1, q + 1 < head
                   PROVE  Follows(Content(q), Content(q + 1))'
      OBVIOUS
    <3>2. q + 1 \in tail .. head - 1
      BY <1>f, <3>1
    <3>3. Follows(Content(q), Content(q + 1))
      BY <3>1 DEF Line
    <3>4. Content(q)' = Content(q) /\ Content(q + 1)' = Content(q + 1)
      BY <3>2
    <3> QED BY <3>3, <3>4 DEF Follows, LastChunk
  <2>4. tail < head => LastChunk(Content(head - 1))'
    <3>1. tail < head => head - 1 \in tail .. head - 1
      BY <1>f
    <3> QED BY <3>1 DEF Line, LastChunk
  <2> QED BY <2>1, <2>2, <2>3, <2>4 DEF Line
<1>2. \A p, s : InSent(p, s) => InSent(p, s)'
  <2>1. ASSUME NEW m \in Producers \X Nat, sent' = Append(sent, m)
        PROVE  /\ Len(sent') = Len(sent) + 1 /\ Len(sent) \in Nat
               /\ \A j \in 1 .. Len(sent) : sent'[j] = sent[j]
    BY <1>f, <2>1
  <2>2. CASE sent' = sent
    BY <2>2 DEF InSent
  <2>3. CASE sent' # sent
    <3>1. PICK m \in Producers \X Nat : sent' = Append(sent, m)
      BY <2>3
    <3>2. /\ 1 .. Len(sent) \subseteq 1 .. Len(sent')
          /\ \A j \in 1 .. Len(sent) : sent'[j] = sent[j]
      BY <2>1, <3>1
    <3> QED BY <3>2 DEF InSent
  <2> QED BY <2>2, <2>3
<1>3. Taken'
  <2>1. ASSUME NEW i \in 1 .. Len(got), NEW p \in Producers, p = got[i][1], NEW s, s = got[i][2]
        PROVE  /\ s < pr'[p].seq /\ InSent(p, s)'
               /\ \A q \in tail .. head - 1 : Content(q)'.from = p => s < Content(q)'.seq
    BY <1>2, <2>1 DEF Taken
  <2> QED BY <2>1 DEF Taken
<1>4. Kept'
  <2>1. ASSUME NEW m, \/ \E i \in 1 .. Len(got) : got[i] = m
                      \/ \E q \in tail .. head - 1 :
                           /\ ~Own(q) /\ LastChunk(Content(q))
                           /\ Content(q).from = m[1] /\ Content(q).seq = m[2]
        PROVE  \/ \E i \in 1 .. Len(got) : got[i] = m
               \/ \E q \in tail .. head - 1 :
                    /\ ~Own(q)' /\ LastChunk(Content(q))'
                    /\ Content(q)'.from = m[1] /\ Content(q)'.seq = m[2]
    BY <2>1 DEF LastChunk
  <2>2. CASE sent' = sent
    BY <2>1, <2>2 DEF Kept
  <2>3. CASE sent' # sent
    <3>1. PICK p \in Producers, s \in Nat :
            /\ sent' = Append(sent, <<p, s>>)
            /\ \E q \in tail .. head - 1 : /\ ~Own(q)' /\ LastChunk(Content(q))
                                           /\ Content(q).from = p /\ Content(q).seq = s
      BY <2>3
    <3>2. /\ Len(sent') = Len(sent) + 1 /\ sent'[Len(sent) + 1] = <<p, s>> /\ Len(sent) \in Nat
          /\ \A j \in 1 .. Len(sent) : sent'[j] = sent[j]
      BY <1>f, <3>1
    <3>3. ASSUME NEW j \in 1 .. Len(sent')
          PROVE  \/ \E i \in 1 .. Len(got) : got[i] = sent'[j]
                 \/ \E q \in tail .. head - 1 :
                      /\ ~Own(q)' /\ LastChunk(Content(q))'
                      /\ Content(q)'.from = sent'[j][1] /\ Content(q)'.seq = sent'[j][2]
      <4>1. CASE j \in 1 .. Len(sent)
        <5>1. sent'[j] = sent[j]
          BY <3>2, <4>1
        <5>2. \/ \E i \in 1 .. Len(got) : got[i] = sent[j]
              \/ \E q \in tail .. head - 1 :
                   /\ ~Own(q) /\ LastChunk(Content(q))
                   /\ Content(q).from = sent[j][1] /\ Content(q).seq = sent[j][2]
          BY <4>1 DEF Kept
        <5> QED BY <2>1, <5>1, <5>2
      <4>2. CASE j = Len(sent) + 1
        <5>1. sent'[j][1] = p /\ sent'[j][2] = s
          BY <3>2, <4>2
        <5> QED BY <3>1, <5>1 DEF LastChunk
      <4> QED BY <3>2, <4>1, <4>2
    <3> QED BY <3>3 DEF Kept
  <2> QED BY <2>2, <2>3
<1> QED BY <1>1, <1>2, <1>3, <1>4

LEMMA ReceivingKept ==
  ASSUME Typed, Reserved, Orderly, Window, Receiving,
         UNCHANGED <<head, tail, alive, cons>>,
         tail < head => Content(tail)' = Content(tail) /\ (Own(tail)' => Own(tail)),
         \A p \in Producers \ alive : Owned(tail, p) => Owned(tail, p)',
         cons.pc = "reclaimTail" => slots'[tail % Cap].state = "FREE"
  PROVE  Receiving'
<1>1. cons.pc \in {"copy"} \cup Holding => tail < head
  BY DEF Window, Passing, Holding
<1>3. cons.part = 0 /\ tail < head => Content(tail)'.part = 0
  BY DEF Receiving
<1>4. cons.part > 0 => /\ tail < head /\ cons.pc \in {"gate", "copy"} \cup Holding
                       /\ Content(tail)' = [cons.first EXCEPT !.part = cons.part]
  BY DEF Receiving
<1>5. cons.pc \in {"copy"} \cup Holding => ~Own(tail)' /\ cons.seq = Content(tail)'.seq
  BY <1>1 DEF Receiving
<1>6. cons.pc \in Holding => cons.frame = Content(tail)'
  BY <1>1 DEF Receiving
<1>7. cons.pc \in {"reclaimFree", "reclaimTail"} => \E p \in Producers \ alive : Owned(tail, p)'
  BY DEF Receiving
<1>8. cons.pc \in Holding \ {"pin"} /\ cons.part = 0 => cons.first = cons.frame
  BY DEF Receiving
<1> HIDE DEF Holding
<1> QED BY <1>3, <1>4, <1>5, <1>6, <1>7, <1>8 DEF Receiving

-----------------------------------------------------------------------------
(* The steps of a handle                                                   *)

\* A handle goes on without the slots.
LEMMA Waits ==
  ASSUME Typed, Reserved, Typed', Reserved', Orderly, Window, Delivery, NEW p \in Producers,
         UNCHANGED <<scenario, head, tail, slots, alive, cons, sent, got>>,
         \A q \in Producers : q # p => pr'[q] = pr[q],
         SameHold(p),
         pr[p].pc \notin {"stamp", "fill", "commit"}, pr'[p].pc \notin {"stamp", "fill", "commit"}
  PROVE  Delivery'
<1>d. Layout /\ Line /\ Receiving /\ Taken /\ Kept
  BY DEF Delivery
<1>1. \A q \in Producers : SameHold(q)
  BY DEF SameHold
<1>2. /\ \A q : \A r \in Producers : Owned(q, r)' <=> Owned(q, r)
      /\ \A q : \A r \in Producers : Owned(q, r) => ChunkAt(r, q)' = ChunkAt(r, q)
      /\ \A r \in Producers : pr[r].pc \in Writing => Position(r)' = Position(r)
  BY <1>1, HoldKept
<1>3. \A q : FrameAt(q)' = FrameAt(q)
  BY DEF FrameAt
<1>4. \A q : Content(q)' = Content(q) /\ (Own(q)' <=> Own(q))
  BY <1>2, <1>3, ContentKept
<1>5. Line' /\ Taken' /\ Kept' /\ \A r, s : InSent(r, s) => InSent(r, s)'
  <2>1. \A q \in Producers : pr'[q].seq = pr[q].seq
    BY <1>1 DEF SameHold
  <2> QED BY <1>4, <1>d, <2>1, StoryKept
<1>6. Receiving'
  <2>1. cons.pc = "reclaimTail" => slots'[tail % Cap].state = "FREE"
    BY <1>d DEF Receiving
  <2>2. Content(tail)' = Content(tail) /\ (Own(tail)' => Own(tail))
    BY <1>4
  <2>3. \A r \in Producers \ alive : Owned(tail, r) => Owned(tail, r)'
    BY <1>2
  <2> QED BY <1>d, <2>1, <2>2, <2>3, ReceivingKept
<1>7. ASSUME NEW q \in tail .. head - 1, NEW r \in Producers, Owned(q, r)' PROVE OwnedSlot(q, r)'
  <2>1. Owned(q, r) /\ OwnedSlot(q, r) /\ pr[r].pc \in Writing
    BY <1>2, <1>7, <1>d DEF Layout, Owned
  <2>2. Position(r)' = Position(r) /\ ChunkAt(r, q)' = ChunkAt(r, q)
    BY <1>2, <2>1
  <2>3. CASE r = p
    <3>1. slots[q % Cap].state # "WRITING"
      BY <2>1, <2>3 DEF OwnedSlot
    <3> QED BY <2>1, <2>3, <3>1 DEF OwnedSlot
  <2>4. CASE r # p
    <3>1. pr'[r] = pr[r]
      BY <2>4
    <3> QED BY <2>1, <2>2, <3>1 DEF OwnedSlot
  <2> QED BY <2>3, <2>4
<1>8. ASSUME NEW q \in tail .. head - 1, ~Own(q)' PROVE FullSlot(q)'
  <2>1. FullSlot(q)
    BY <1>4, <1>8, <1>d DEF Layout
  <2> QED BY <1>3, <1>5, <2>1 DEF FullSlot, LastChunk
<1>9. \A q \in head .. tail + Cap - 1 : slots[q % Cap].state = "FREE"
  BY <1>d DEF Layout
<1>10. Layout'
  BY <1>7, <1>8, <1>9 DEF Layout
<1> QED BY <1>5, <1>6, <1>10 DEF Delivery

\* A live handle's position in the window: its own, on a slot of its own, and
\* not the one the consumer is about to pass.
LEMMA OwnPosition ==
  ASSUME Typed, Reserved, Orderly, Window, NEW p \in alive, pr[p].pc \in Writing
  PROVE  /\ p \in Producers /\ Position(p) \in tail .. head - 1 /\ Owned(Position(p), p)
         /\ Position(p) \in Nat /\ WriteIdx(p) = Position(p) % Cap /\ WriteIdx(p) \in 0 .. Cap - 1
         /\ cons.pc \in Passing => tail # Position(p)
         /\ \A q \in tail .. tail + Cap - 1 : q # Position(p) => q % Cap # WriteIdx(p)
         /\ Position(p) - pr[p].start = pr[p].done
<1>1. /\ p \in Producers /\ Position(p) \in Nat /\ WriteIdx(p) \in 0 .. Cap - 1
      /\ tail <= Position(p) /\ Position(p) < head /\ Position(p) < tail + Cap
  BY PositionFacts
<1>2. head \in Nat /\ tail \in Nat /\ Cap \in Nat \ {0} /\ head <= tail + Cap
  BY Facts
<1>3. /\ pr[p].start \in Nat /\ pr[p].need \in Nat /\ pr[p].done \in Nat
      /\ pr[p].done < pr[p].need
  BY <1>1, Fields DEF Reserved
<1>4. Position(p) \in Position(p) .. pr[p].start + pr[p].need - 1
  BY <1>3 DEF Position
<1>5. cons.pc \in Passing => tail # Position(p)
  <2>1. cons.pc \in Passing => tail < Position(p)
    BY DEF Window
  <2> QED BY <1>1, <1>2, <2>1
<1>6. ASSUME NEW q \in tail .. tail + Cap - 1, q # Position(p) PROVE q % Cap # WriteIdx(p)
  <2>1. q \in Nat /\ tail <= q /\ q < tail + Cap
    BY <1>2
  <2> QED BY <1>1, <1>2, <1>6, <2>1, OtherSlot DEF WriteIdx
<1>7. Position(p) - pr[p].start = pr[p].done
  BY <1>3 DEF Position
<1>8. Position(p) \in tail .. head - 1
  BY <1>1, <1>2
<1> QED BY <1>1, <1>4, <1>5, <1>6, <1>7, <1>8 DEF Owned, WriteIdx

\* A handle writes the slot of its position, which it has still to commit.
LEMMA Writes ==
  ASSUME Typed, Reserved, Typed', Reserved', Orderly, Window, Delivery,
         NEW p \in alive, pr[p].pc \in Writing,
         UNCHANGED <<scenario, head, tail, alive, cons, sent, got>>,
         \A q \in Producers : q # p => pr'[q] = pr[q],
         SameHold(p), pr'[p].pc \in {"stamp", "fill", "commit"},
         \A j \in 0 .. Cap - 1 : j # WriteIdx(p) => slots'[j] = slots[j],
         slots'[WriteIdx(p)].state \in {"FREE", "WRITING"}, slots'[WriteIdx(p)].owner \in {p, NoOne},
         pr'[p].pc = "commit" => slots'[WriteIdx(p)].frame = ChunkAt(p, Position(p))
  PROVE  Delivery'
<1>d. Layout /\ Line /\ Receiving /\ Taken /\ Kept
  BY DEF Delivery
<1>f. /\ head \in Nat /\ tail \in Nat /\ tail <= head /\ head <= tail + Cap /\ Cap \in Nat \ {0}
      /\ \A q \in Nat : q % Cap \in 0 .. Cap - 1
      /\ \A q \in tail .. head - 1 : q \in Nat
  BY Facts
<1>p. /\ p \in Producers /\ Position(p) \in tail .. head - 1 /\ Owned(Position(p), p)
      /\ Position(p) \in Nat /\ WriteIdx(p) = Position(p) % Cap
      /\ cons.pc \in Passing => tail # Position(p)
      /\ \A q \in tail .. tail + Cap - 1 : q # Position(p) => q % Cap # WriteIdx(p)
  BY OwnPosition
<1>o. \A q \in tail .. tail + Cap - 1 : q # Position(p) => slots'[q % Cap] = slots[q % Cap]
  <2>1. \A q \in tail .. tail + Cap - 1 : q \in Nat
    BY <1>f
  <2> QED BY <1>f, <1>p, <2>1
<1>w. \A q \in tail .. head - 1 : q \in tail .. tail + Cap - 1
  BY <1>f
<1>1. \A q \in Producers : SameHold(q)
  BY DEF SameHold
<1>2. /\ \A q : \A r \in Producers : Owned(q, r)' <=> Owned(q, r)
      /\ \A q : \A r \in Producers : Owned(q, r) => ChunkAt(r, q)' = ChunkAt(r, q)
      /\ \A r \in Producers : pr[r].pc \in Writing => Position(r)' = Position(r)
  BY <1>1, HoldKept
<1>3. \A q \in tail .. head - 1 : ~Own(q) => q # Position(p) /\ FrameAt(q)' = FrameAt(q)
  BY <1>o, <1>p, <1>w DEF Own, FrameAt
<1>4. \A q \in tail .. head - 1 : Content(q)' = Content(q) /\ (Own(q)' <=> Own(q))
  BY <1>2, <1>3, ContentKept
<1>5. Line' /\ Taken' /\ Kept' /\ \A r, s : InSent(r, s) => InSent(r, s)'
  <2>1. \A q \in Producers : pr'[q].seq = pr[q].seq
    BY <1>1 DEF SameHold
  <2> QED BY <1>4, <1>d, <2>1, StoryKept
<1>6. Receiving'
  <2>0. tail \in tail .. tail + Cap - 1
    BY <1>f
  <2>1. cons.pc = "reclaimTail" => slots'[tail % Cap].state = "FREE"
    BY <1>d, <1>o, <1>p, <2>0 DEF Receiving, Passing
  <2>2. tail < head => Content(tail)' = Content(tail) /\ (Own(tail)' => Own(tail))
    <3>1. tail < head => tail \in tail .. head - 1
      BY <1>f
    <3> QED BY <1>4, <3>1
  <2>3. \A r \in Producers \ alive : Owned(tail, r) => Owned(tail, r)'
    BY <1>2
  <2> QED BY <1>d, <2>1, <2>2, <2>3, ReceivingKept
<1>7. ASSUME NEW q \in tail .. head - 1, NEW r \in Producers, Owned(q, r)' PROVE OwnedSlot(q, r)'
  <2>1. Owned(q, r) /\ OwnedSlot(q, r) /\ pr[r].pc \in Writing
    BY <1>2, <1>7, <1>d DEF Layout, Owned
  <2>2. Position(r)' = Position(r) /\ ChunkAt(r, q)' = ChunkAt(r, q)
    BY <1>2, <2>1
  <2>3. CASE q = Position(p)
    <3>1. r = p
      BY <1>p, <2>1, <2>3, OwnedFacts
    <3> QED BY <1>p, <2>1, <2>2, <2>3, <3>1 DEF OwnedSlot
  <2>4. CASE q # Position(p)
    <3>1. slots'[q % Cap] = slots[q % Cap]
      BY <1>o, <1>w, <2>4
    <3>2. CASE r = p
      <4>1. slots[q % Cap].state # "WRITING"
        BY <2>1, <2>4, <3>2 DEF OwnedSlot
      <4> QED BY <2>1, <2>2, <2>4, <3>1, <3>2, <4>1 DEF OwnedSlot
    <3>3. CASE r # p
      <4>1. pr'[r] = pr[r]
        BY <3>3
      <4> QED BY <2>1, <2>2, <3>1, <4>1 DEF OwnedSlot
    <3> QED BY <3>2, <3>3
  <2> QED BY <2>3, <2>4
<1>8. ASSUME NEW q \in tail .. head - 1, ~Own(q)' PROVE FullSlot(q)'
  <2>1. FullSlot(q) /\ FrameAt(q)' = FrameAt(q) /\ slots'[q % Cap] = slots[q % Cap]
    BY <1>3, <1>4, <1>8, <1>d, <1>o, <1>w DEF Layout
  <2> QED BY <1>5, <2>1 DEF FullSlot, LastChunk
<1>9. \A q \in head .. tail + Cap - 1 : slots'[q % Cap].state = "FREE"
  <2>1. SUFFICES ASSUME NEW q \in head .. tail + Cap - 1 PROVE slots'[q % Cap].state = "FREE"
    OBVIOUS
  <2>2. q \in tail .. tail + Cap - 1 /\ q # Position(p)
    BY <1>f, <1>p
  <2> QED BY <1>d, <1>o, <2>2 DEF Layout
<1>10. Layout'
  BY <1>7, <1>8, <1>9 DEF Layout
<1> QED BY <1>5, <1>6, <1>10 DEF Delivery

\* A handle commits the slot of its position: what the position stands for is
\* now what is stored there.
LEMMA Commits ==
  ASSUME Typed, Reserved, Typed', Reserved', Orderly, Window, Delivery,
         NEW p \in alive, CommitSlot(p)
  PROVE  Delivery'
<1>0. PICK q0 : q0 = Position(p)
  OBVIOUS
<1>d. Layout /\ Line /\ Receiving /\ Taken /\ Kept
  BY DEF Delivery
<1>f. /\ head \in Nat /\ tail \in Nat /\ tail <= head /\ head <= tail + Cap /\ Cap \in Nat \ {0}
      /\ slots \in Slots /\ \A q \in Nat : q % Cap \in 0 .. Cap - 1
      /\ \A q \in tail .. head - 1 : q \in Nat
  BY Facts
<1>c. /\ pr[p].pc = "commit" /\ pr[p].pc \in Writing
      /\ UNCHANGED <<scenario, head, tail, alive, cons, got>>
  BY DEF CommitSlot, At, Writing
<1>p. /\ p \in Producers /\ q0 \in tail .. head - 1 /\ Owned(q0, p)
      /\ q0 \in Nat /\ WriteIdx(p) = q0 % Cap /\ WriteIdx(p) \in 0 .. Cap - 1
      /\ cons.pc \in Passing => tail # q0
      /\ \A q \in tail .. tail + Cap - 1 : q # q0 => q % Cap # WriteIdx(p)
      /\ q0 - pr[p].start = pr[p].done
  BY <1>0, <1>c, OwnPosition
<1>q. pr \in [Producers -> Record] /\ q0 \in tail .. tail + Cap - 1
  BY <1>f, <1>p, Fields
<1>r. /\ pr[p].start \in Nat /\ pr[p].need \in Nat /\ pr[p].done \in Nat
      /\ pr[p].done < pr[p].need /\ Seq0(p) \in Nat
  BY <1>c, <1>p, Fields, OwnedFacts DEF Reserved
<1>s. /\ slots'[WriteIdx(p)].state = "COMMITTED" /\ slots'[WriteIdx(p)].seq = Seq0(p)
      /\ slots'[WriteIdx(p)].frame = slots[WriteIdx(p)].frame
      /\ \A j \in 0 .. Cap - 1 : j # WriteIdx(p) => slots'[j] = slots[j]
  BY <1>f, <1>p DEF CommitSlot, WriteHeader, Slots
<1>o. \A q \in tail .. tail + Cap - 1 : q # q0 => slots'[q % Cap] = slots[q % Cap]
  <2>1. \A q \in tail .. tail + Cap - 1 : q \in Nat
    BY <1>f
  <2> QED BY <1>f, <1>p, <1>s, <2>1
<1>w. \A q \in tail .. head - 1 : q \in tail .. tail + Cap - 1
  BY <1>f
<1>h. slots[q0 % Cap].frame = ChunkAt(p, q0)
  <2>1. OwnedSlot(q0, p)
    BY <1>d, <1>p DEF Layout
  <2> QED BY <1>0, <1>c, <1>p, <2>1 DEF OwnedSlot
<1>1. /\ \A r \in Producers : r # p => pr'[r] = pr[r]
      /\ pr'[p].seq = pr[p].seq
      /\ \/ /\ pr[p].done + 1 < pr[p].need /\ pr'[p].pc = "claim" /\ pr'[p].done = pr[p].done + 1
            /\ pr'[p].start = pr[p].start /\ pr'[p].need = pr[p].need /\ sent' = sent
         \/ /\ pr[p].done + 1 = pr[p].need /\ pr'[p].pc = "idle"
            /\ sent' = Append(sent, <<p, Seq0(p)>>)
  <2>1. CASE pr[p].done + 1 < pr[p].need
    BY <1>q, <1>p, <2>1 DEF CommitSlot, Record
  <2>2. CASE ~ (pr[p].done + 1 < pr[p].need)
    <3>1. /\ pr' = [pr EXCEPT ![p] = [Handle EXCEPT !.seq = pr[p].seq]]
          /\ sent' = Append(sent, <<p, Seq0(p)>>)
      BY <2>2 DEF CommitSlot, SendEnds
    <3>2. pr[p].done + 1 = pr[p].need
      BY <1>r, <2>2
    <3>3. pr'[p].pc = "idle" /\ pr'[p].seq = pr[p].seq
      BY <1>q, <1>p, <3>1 DEF Handle
    <3> QED BY <1>q, <3>1, <3>2, <3>3
  <2> QED BY <2>1, <2>2
\* Its other positions stay its own.
<1>2. ASSUME NEW r \in Producers, NEW q
      PROVE  /\ r # p => (Owned(q, r)' <=> Owned(q, r))
             /\ Owned(q, p)' <=> Owned(q, p) /\ q # q0
             /\ Owned(q, r)' => ChunkAt(r, q)' = ChunkAt(r, q)
  <2>1. r # p => (Owned(q, r)' <=> Owned(q, r)) /\ ChunkAt(r, q)' = ChunkAt(r, q)
    BY <1>1 DEF Owned, Position, ChunkAt, Seq0
  <2>2. CASE pr'[p].pc = "claim"
    <3>1. Position(p)' = q0 + 1 /\ pr'[p].start = pr[p].start /\ pr'[p].need = pr[p].need
      BY <1>0, <1>1, <1>r, <2>2 DEF Position
    <3>2. Owned(q, p) <=> q \in q0 .. pr[p].start + pr[p].need - 1
      BY <1>0, <1>c DEF Owned
    <3>3. Owned(q, p)' <=> q \in q0 + 1 .. pr[p].start + pr[p].need - 1
      <4>1. Owned(q, p)' <=> q \in Position(p)' .. pr'[p].start + pr'[p].need - 1
        BY <2>2 DEF Owned, Writing
      <4>2. Position(p)' .. pr'[p].start + pr'[p].need - 1 = q0 + 1 .. pr[p].start + pr[p].need - 1
        BY <3>1
      <4> QED BY <4>1, <4>2
    <3>4. Owned(q, p)' <=> Owned(q, p) /\ q # q0
      BY <1>p, <1>r, <3>2, <3>3
    <3>5. ChunkAt(p, q)' = ChunkAt(p, q)
      BY <1>1, <2>2 DEF ChunkAt, Seq0
    <3> QED BY <2>1, <3>4, <3>5
  <2>3. CASE pr'[p].pc = "idle"
    <3>1. ~Owned(q, p)'
      BY <2>3 DEF Owned, Writing
    <3>2. Owned(q, p) => q = q0
      <4>1. Owned(q, p) => q \in q0 .. pr[p].start + pr[p].need - 1
        BY <1>0 DEF Owned
      <4>2. pr[p].start + pr[p].need - 1 = q0
        <5>1. pr[p].done + 1 = pr[p].need
          BY <1>1, <2>3
        <5>2. /\ pr[p].start \in Nat /\ pr[p].need \in Nat /\ pr[p].done \in Nat /\ q0 \in Nat
              /\ q0 - pr[p].start = pr[p].done
          BY <1>p, <1>r
        <5> QED BY <5>1, <5>2
      <4> QED BY <1>p, <4>1, <4>2
    <3> QED BY <2>1, <3>1, <3>2
  <2> QED BY <1>1, <2>2, <2>3
<1>3. \A q \in tail .. head - 1 : q # q0 => FrameAt(q)' = FrameAt(q)
  BY <1>c, <1>o, <1>w DEF FrameAt
<1>4. \A q \in tail .. head - 1 : q # q0 => Content(q)' = Content(q) /\ (Own(q)' <=> Own(q))
  <2>1. SUFFICES ASSUME NEW q \in tail .. head - 1, q # q0
                 PROVE  Content(q)' = Content(q) /\ (Own(q)' <=> Own(q))
    OBVIOUS
  <2>2. \A r \in Producers : Owned(q, r)' <=> Owned(q, r)
    BY <1>2, <2>1
  <2>3. \A r \in Producers : Owned(q, r) => ChunkAt(r, q)' = ChunkAt(r, q)
    BY <1>2, <2>2
  <2> QED BY <1>3, <2>1, <2>2, <2>3, ContentKept
<1>5. ~Own(q0)' /\ Content(q0) = ChunkAt(p, q0) /\ Content(q0)' = ChunkAt(p, q0)
      /\ FrameAt(q0)' = ChunkAt(p, q0)
  <2>1. Content(q0) = ChunkAt(p, q0)
    BY <1>p, ContentFacts
  <2>2. ~Own(q0)'
    <3>1. \A r \in Producers : ~Owned(q0, r)'
      BY <1>2, <1>p, OwnedFacts
    <3> QED BY <3>1 DEF Own
  <2>3. FrameAt(q0)' = ChunkAt(p, q0)
    BY <1>c, <1>h, <1>p, <1>s DEF FrameAt, Passing
  <2>4. Content(q0)' = FrameAt(q0)'
    BY <2>2, ContentFactsNext
  <2> QED BY <2>1, <2>2, <2>3, <2>4
<1>6. \A q \in tail .. head - 1 : Content(q)' = Content(q) /\ (Own(q)' => Own(q))
  BY <1>4, <1>5, <1>p
<1>7. Line' /\ Taken' /\ Kept' /\ \A r, s : InSent(r, s) => InSent(r, s)'
  <2>1. \A q \in Producers : pr'[q].seq = pr[q].seq
    BY <1>1
  <2>2. \/ sent' = sent
        \/ \E r \in Producers, s \in Nat :
             /\ sent' = Append(sent, <<r, s>>)
             /\ \E q \in tail .. head - 1 : /\ ~Own(q)' /\ LastChunk(Content(q))
                                            /\ Content(q).from = r /\ Content(q).seq = s
    <3>1. CASE sent' = sent
      BY <3>1
    <3>2. CASE sent' # sent
      <4>1. pr[p].done + 1 = pr[p].need /\ sent' = Append(sent, <<p, Seq0(p)>>)
        BY <1>1, <3>2
      <4>2. LastChunk(Content(q0)) /\ Content(q0).from = p /\ Content(q0).seq = Seq0(p)
        BY <1>5, <1>p, <4>1 DEF ChunkAt, LastChunk
      <4> QED BY <1>5, <1>p, <1>r, <4>1, <4>2
    <3> QED BY <3>1, <3>2
  <2> QED BY <1>6, <1>c, <1>d, <2>1, <2>2, StoryKept
<1>8. Receiving'
  <2>0. tail \in tail .. tail + Cap - 1
    BY <1>f
  <2>1. cons.pc = "reclaimTail" => slots'[tail % Cap].state = "FREE"
    BY <1>d, <1>o, <1>p, <2>0 DEF Receiving, Passing
  <2>2. tail < head => Content(tail)' = Content(tail) /\ (Own(tail)' => Own(tail))
    <3>1. tail < head => tail \in tail .. head - 1
      BY <1>f
    <3> QED BY <1>6, <1>c, <3>1
  <2>3. \A r \in Producers \ alive : Owned(tail, r) => Owned(tail, r)'
    <3>1. \A r \in Producers \ alive : r # p
      OBVIOUS
    <3> QED BY <1>2, <1>c, <3>1
  <2> QED BY <1>c, <1>d, <2>1, <2>2, <2>3, ReceivingKept
<1>9. ASSUME NEW q \in tail .. head - 1, NEW r \in Producers, Owned(q, r)' PROVE OwnedSlot(q, r)'
  <2>1. Owned(q, r) /\ OwnedSlot(q, r) /\ ChunkAt(r, q)' = ChunkAt(r, q)
    BY <1>2, <1>9, <1>d DEF Layout
  <2>2. q # q0
    BY <1>5, <1>9 DEF Own
  <2>3. slots'[q % Cap] = slots[q % Cap]
    BY <1>o, <1>w, <2>2
  <2>4. CASE r = p
    <3>1. slots[q % Cap].state # "WRITING"
      BY <1>0, <2>1, <2>2, <2>4 DEF OwnedSlot
    <3>2. pr'[p].pc # "commit"
      BY <1>1
    <3> QED BY <2>1, <2>3, <2>4, <3>1, <3>2 DEF OwnedSlot
  <2>5. CASE r # p
    <3>1. pr'[r] = pr[r] /\ Position(r)' = Position(r)
      BY <1>1, <2>5 DEF Position
    <3> QED BY <1>c, <2>1, <2>3, <3>1 DEF OwnedSlot
  <2> QED BY <2>4, <2>5
<1>10. ASSUME NEW q \in tail .. head - 1, ~Own(q)' PROVE FullSlot(q)'
  <2>1. CASE q = q0
    <3>1. LastChunk(ChunkAt(p, q0)) => InSent(p, Seq0(p))'
      <4>1. SUFFICES ASSUME pr[p].done + 1 = pr[p].need PROVE InSent(p, Seq0(p))'
        BY <1>p DEF ChunkAt, LastChunk
      <4>2. sent' = Append(sent, <<p, Seq0(p)>>) /\ sent \in Seq(Producers \X Nat)
        BY <1>1, <1>r, <4>1 DEF Typed, TypeOK, HistoryOK
      <4>3. Len(sent') = Len(sent) + 1 /\ Len(sent) \in Nat /\ sent'[Len(sent) + 1] = <<p, Seq0(p)>>
        BY <4>2
      <4>4. Seq0(p)' = Seq0(p)
        BY <1>1 DEF Seq0
      <4> QED BY <4>3, <4>4 DEF InSent
    <3>2. ChunkAt(p, q0).from = p /\ ChunkAt(p, q0).seq = Seq0(p)
      BY DEF ChunkAt
    <3>3. LastChunk(FrameAt(q))' => InSent(FrameAt(q).from, FrameAt(q).seq)'
      <4>1. Seq0(p)' = Seq0(p)
        BY <1>1 DEF Seq0
      <4> QED BY <1>5, <2>1, <3>1, <3>2, <4>1 DEF LastChunk, InSent
    <3>4. cons.pc \in {"advance", "check", "release"} => q # tail
      BY <1>p, <2>1 DEF Passing
    <3>5. slots'[q % Cap].state = "COMMITTED" /\ slots'[q % Cap].seq = FrameAt(q)'.seq
      BY <1>5, <1>p, <1>s, <2>1, <3>2
    <3> QED BY <1>c, <3>3, <3>4, <3>5 DEF FullSlot
  <2>2. CASE q # q0
    <3>1. FullSlot(q) /\ FrameAt(q)' = FrameAt(q) /\ slots'[q % Cap] = slots[q % Cap]
      BY <1>3, <1>4, <1>10, <1>d, <1>o, <1>w, <2>2 DEF Layout
    <3> QED BY <1>7, <1>c, <3>1 DEF FullSlot, LastChunk
  <2> QED BY <2>1, <2>2
<1>11. \A q \in head .. tail + Cap - 1 : slots'[q % Cap].state = "FREE"
  <2>1. SUFFICES ASSUME NEW q \in head .. tail + Cap - 1 PROVE slots'[q % Cap].state = "FREE"
    OBVIOUS
  <2>2. q \in tail .. tail + Cap - 1 /\ q # q0
    BY <1>f, <1>p
  <2> QED BY <1>d, <1>o, <2>2 DEF Layout
<1>12. Layout'
  BY <1>9, <1>10, <1>11, <1>c DEF Layout
<1> QED BY <1>7, <1>8, <1>12 DEF Delivery

\* A reservation: positions at the head that were nobody's stand for the
\* chunks of one more message.
LEMMA Reserves ==
  ASSUME Typed, Reserved, Typed', Reserved', Orderly, Window, Delivery,
         NEW p \in alive, Reserve(p), HeadIs(p)
  PROVE  Delivery'
<1>d. Layout /\ Line /\ Receiving /\ Taken /\ Kept
  BY DEF Delivery
<1>f. /\ head \in Nat /\ tail \in Nat /\ tail <= head /\ head <= tail + Cap /\ Cap \in Nat \ {0}
      /\ \A q \in tail .. head - 1 : q \in Nat
      /\ p \in Producers
  BY Facts
<1>c. /\ pr[p].pc = "cas" /\ pr[p].h = head
      /\ UNCHANGED <<scenario, tail, slots, alive, cons, sent, got>>
  BY DEF Reserve, At, HeadIs
<1>0. PICK n, s, h : n = pr[p].need /\ s = pr[p].seq /\ h = head + n
  OBVIOUS
<1>n. n \in Nat \ {0} /\ n \in scenario.sizes /\ s \in Nat
  <2>1. n \in scenario.sizes
    BY <1>0, <1>c, <1>f DEF Reserved
  <2>2. s \in Nat
    BY <1>0, <1>f, HandleTyped, RecordFields
  <2> QED BY <2>1, <2>2, Fields
<1>1. /\ \A r \in Producers : r # p => pr'[r] = pr[r]
      /\ pr'[p].pc = "claim" /\ pr'[p].start = head /\ pr'[p].need = n /\ pr'[p].done = 0
      /\ pr'[p].seq = s + 1 /\ head' = h
  <2>1. pr \in [Producers -> Record]
    BY Fields
  <2>2. pr' = [pr EXCEPT ![p].pc = "claim", ![p].start = pr[p].h, ![p].done = 0,
                         ![p].seq = pr[p].seq + 1]
    BY DEF Reserve
  <2>3. head' = pr[p].h + pr[p].need
    BY DEF Reserve
  <2> QED BY <1>0, <1>c, <1>f, <2>1, <2>2, <2>3 DEF Record
<1>h. h \in Nat /\ head < h /\ h <= tail + Cap
  <2>1. head' <= tail' + Cap
    BY DEF Reserved
  <2> QED BY <1>0, <1>1, <1>c, <1>f, <1>n, <2>1
<1>i. head \in Nat /\ tail \in Nat /\ h \in Nat /\ n \in Nat /\ tail <= head /\ head < h /\ h = head + n
  BY <1>0, <1>f, <1>h, <1>n
<1>2. ASSUME NEW r \in Producers, NEW q
      PROVE  /\ r # p => (Owned(q, r)' <=> Owned(q, r)) /\ ChunkAt(r, q)' = ChunkAt(r, q)
             /\ ~Owned(q, p)
             /\ Owned(q, p)' <=> q \in head .. h - 1
  <2>1. r # p => (Owned(q, r)' <=> Owned(q, r)) /\ ChunkAt(r, q)' = ChunkAt(r, q)
    BY <1>1 DEF Owned, Position, ChunkAt, Seq0
  <2>2. ~Owned(q, p)
    BY <1>c DEF Owned, Writing
  <2>3. Owned(q, p)' <=> q \in Position(p)' .. pr'[p].start + pr'[p].need - 1
    BY <1>1 DEF Owned, Writing
  <2>4. Position(p)' .. pr'[p].start + pr'[p].need - 1 = head .. h - 1
    BY <1>0, <1>1, <1>f, <1>n DEF Position
  <2> QED BY <2>1, <2>2, <2>3, <2>4
<1>3. \A q : FrameAt(q)' = FrameAt(q)
  BY <1>c DEF FrameAt
<1>4. ASSUME NEW q \in tail .. head - 1
      PROVE  Content(q)' = Content(q) /\ (Own(q)' <=> Own(q)) /\ ~Owned(q, p)'
  <2>1. q \notin head .. h - 1
    BY <1>i
  <2>2. \A r \in Producers : Owned(q, r)' <=> Owned(q, r)
    BY <1>2, <1>f, <2>1
  <2>3. \A r \in Producers : Owned(q, r) => ChunkAt(r, q)' = ChunkAt(r, q)
    BY <1>2, <1>f
  <2> QED BY <1>2, <1>3, <1>f, <2>1, <2>2, <2>3, ContentKept
<1>5. ASSUME NEW q \in head .. h - 1
      PROVE  /\ Content(q)' = [from |-> p, seq |-> s, part |-> q - head, total |-> n]
             /\ Own(q)' /\ \A r \in Producers : Owned(q, r)' => r = p
  <2>1. Owned(q, p)'
    BY <1>2, <1>f
  <2>2. Content(q)' = ChunkAt(p, q)'
    BY <1>f, <2>1, ContentFactsNext
  <2>3. Seq0(p)' = s
    BY <1>1, <1>n DEF Seq0
  <2>4. ChunkAt(p, q)' = [from |-> p, seq |-> s, part |-> q - head, total |-> n]
    BY <1>1, <2>3 DEF ChunkAt
  <2>5. Own(q)'
    BY <1>f, <2>1 DEF Own
  <2>6. ASSUME NEW r \in Producers, Owned(q, r)', r # p PROVE FALSE
    <3>1. Owned(q, r)
      BY <1>2, <2>6
    <3>2. q < head
      BY <3>1, OwnedFacts
    <3> QED BY <1>i, <3>2
  <2> QED BY <2>2, <2>4, <2>5, <2>6
<1>6. ASSUME NEW q \in tail .. h - 1 PROVE q \in tail .. head - 1 \/ q \in head .. h - 1
  BY <1>i
<1>7. ASSUME NEW q \in tail .. head - 1
      PROVE  /\ Content(q)'.from = Content(q).from /\ Content(q)'.seq = Content(q).seq
             /\ Content(q)'.from = p => Content(q)'.seq < s
             /\ Content(q).from \in Producers /\ Content(q).seq \in Nat
             /\ Content(q).seq < pr'[Content(q).from].seq
  <2>1. Genuine(Content(q))
    BY <1>d DEF Line
  <2>2. Content(q).from \in Producers /\ Content(q).seq \in Nat /\ Content(q).seq < pr[Content(q).from].seq
    BY <2>1 DEF Genuine
  <2>3. Content(q).from = p => Content(q).seq < s /\ Content(q).seq < s + 1
    BY <1>0, <1>n, <2>2
  <2> QED BY <1>1, <1>4, <2>2, <2>3
<1>8. Line'
  <2>1. ASSUME NEW q \in tail .. h - 1 PROVE Genuine(Content(q))'
    <3>1. CASE q \in tail .. head - 1
      BY <1>4, <1>7, <1>c, <1>d, <3>1 DEF Line, Genuine
    <3>2. CASE q \in head .. h - 1
      <4>1. q - head \in Nat /\ q - head < n /\ s < s + 1
        BY <1>i, <1>n, <3>2
      <4> QED BY <1>1, <1>5, <1>c, <1>f, <1>n, <3>2, <4>1 DEF Genuine
    <3> QED BY <1>6, <3>1, <3>2
  <2>2. ASSUME NEW a \in tail .. h - 1, NEW b \in tail .. h - 1, a < b,
               Content(a)'.from = Content(b)'.from
        PROVE  Before(Content(a), Content(b))'
    <3>1. CASE a \in tail .. head - 1 /\ b \in tail .. head - 1
      BY <1>4, <1>d, <2>2, <3>1 DEF Line, Before
    <3>2. CASE a \in tail .. head - 1 /\ b \in head .. h - 1
      <4>1. Content(b)'.from = p /\ Content(b)'.seq = s
        BY <1>5, <3>2
      <4>2. Content(a)'.seq < s
        BY <1>7, <2>2, <3>2, <4>1
      <4> QED BY <4>1, <4>2 DEF Before
    <3>3. CASE a \in head .. h - 1 /\ b \in head .. h - 1
      <4>1. /\ Content(a)'.seq = s /\ Content(a)'.part = a - head /\ Content(a)'.total = n
            /\ Content(b)'.seq = s /\ Content(b)'.part = b - head /\ Content(b)'.total = n
        BY <1>5, <3>3
      <4>2. a - head < b - head
        BY <1>i, <2>2, <3>3
      <4> QED BY <4>1, <4>2 DEF Before
    <3>4. CASE a \in head .. h - 1 /\ b \in tail .. head - 1
      BY <1>i, <2>2, <3>4
    <3> QED BY <1>6, <3>1, <3>2, <3>3, <3>4
  <2>3. ASSUME NEW q \in tail .. h - 1, q + 1 < h
        PROVE  Follows(Content(q), Content(q + 1))'
    <3>1. CASE q \in tail .. head - 1 /\ q + 1 < head
      <4>1. q + 1 \in tail .. head - 1
        BY <1>f, <3>1
      <4>2. Follows(Content(q), Content(q + 1))
        BY <1>d, <3>1 DEF Line
      <4>3. Content(q)' = Content(q) /\ Content(q + 1)' = Content(q + 1)
        BY <1>4, <3>1, <4>1
      <4> QED BY <4>2, <4>3 DEF Follows, LastChunk
    <3>2. CASE q \in tail .. head - 1 /\ ~ (q + 1 < head)
      <4>1. q = head - 1 /\ tail < head /\ q + 1 = head /\ head \in head .. h - 1
        BY <1>i, <3>2
      <4>2. LastChunk(Content(q))
        BY <1>d, <4>1 DEF Line
      <4>3. LastChunk(Content(q))'
        BY <1>4, <3>2, <4>2 DEF LastChunk
      <4>4. Content(q + 1)'.part = 0
        BY <1>5, <1>f, <4>1
      <4> QED BY <4>3, <4>4 DEF Follows
    <3>3. CASE q \in head .. h - 1
      <4>1. q + 1 \in head .. h - 1
        BY <1>i, <2>3, <3>3
      <4>2. PICK x : x = q + 1
        OBVIOUS
      <4>3. /\ Content(q)' = [from |-> p, seq |-> s, part |-> q - head, total |-> n]
            /\ Content(x)' = [from |-> p, seq |-> s, part |-> x - head, total |-> n]
        BY <1>5, <3>3, <4>1, <4>2
      <4>4. q - head + 1 # n /\ x - head = q - head + 1
        BY <1>i, <1>n, <2>3, <3>3, <4>2
      <4> QED BY <4>2, <4>3, <4>4 DEF Follows, LastChunk
    <3> QED BY <1>6, <3>1, <3>2, <3>3
  <2>4. LastChunk(Content(head - 1))'
    <3>1. h - 1 \in head .. h - 1 /\ h - 1 - head + 1 = n
      BY <1>i, <1>n
    <3>2. PICK x : x = h - 1
      OBVIOUS
    <3>3. Content(x)' = [from |-> p, seq |-> s, part |-> x - head, total |-> n]
      BY <1>5, <3>1, <3>2
    <3>4. head' - 1 = x
      BY <1>1, <3>2
    <3>5. LastChunk(Content(x)')
      BY <3>1, <3>2, <3>3 DEF LastChunk
    <3> QED BY <3>4, <3>5 DEF LastChunk
  <2> QED BY <1>1, <1>c, <2>1, <2>2, <2>3, <2>4 DEF Line
<1>9. \A q \in tail .. head - 1 : q \in tail .. h - 1
  BY <1>i
<1>10. Taken'
  <2>1. ASSUME NEW i \in 1 .. Len(got), NEW r \in Producers, r = got[i][1], NEW m, m = got[i][2]
        PROVE  /\ m < pr'[r].seq /\ InSent(r, m)'
               /\ \A q \in tail .. h - 1 : Content(q)'.from = r => m < Content(q)'.seq
    <3>1. /\ m < pr[r].seq /\ InSent(r, m)
          /\ \A q \in tail .. head - 1 : Content(q).from = r => m < Content(q).seq
      BY <1>d, <2>1 DEF Taken
    <3>2. m \in Nat
      <4>1. got \in Seq((Producers \cup {NoOne}) \X Nat)
        BY DEF Typed, TypeOK, HistoryOK
      <4>2. got[i] \in (Producers \cup {NoOne}) \X Nat
        BY <4>1
      <4> QED BY <2>1, <4>2
    <3>3. m < pr'[r].seq /\ (r = p => m < s)
      <4>1. CASE r = p
        <5>1. m < s /\ m < s + 1
          BY <1>0, <1>n, <3>1, <3>2, <4>1
        <5> QED BY <1>1, <4>1, <5>1
      <4>2. CASE r # p
        BY <1>1, <3>1, <4>2
      <4> QED BY <4>1, <4>2
    <3>4. InSent(r, m)'
      BY <1>c, <3>1 DEF InSent
    <3>5. ASSUME NEW q \in tail .. h - 1, Content(q)'.from = r PROVE m < Content(q)'.seq
      <4>1. CASE q \in tail .. head - 1
        BY <1>4, <3>1, <3>5, <4>1
      <4>2. CASE q \in head .. h - 1
        <5>1. Content(q)'.from = p /\ Content(q)'.seq = s
          BY <1>5, <4>2
        <5> QED BY <3>3, <3>5, <5>1
      <4> QED BY <1>6, <4>1, <4>2
    <3> QED BY <3>3, <3>4, <3>5
  <2>2. /\ \A i \in 1 .. Len(got) : got[i][1] \in Producers
        /\ \A i, j \in 1 .. Len(got) : i < j /\ got[i][1] = got[j][1] => got[i][2] < got[j][2]
    BY <1>d DEF Taken
  <2> QED BY <1>1, <1>c, <2>1, <2>2 DEF Taken
<1>11. Kept'
  <2>1. ASSUME NEW j \in 1 .. Len(sent)
        PROVE  \/ \E i \in 1 .. Len(got) : got[i] = sent[j]
               \/ \E q \in tail .. h - 1 :
                    /\ ~Own(q)' /\ LastChunk(Content(q))'
                    /\ Content(q)'.from = sent[j][1] /\ Content(q)'.seq = sent[j][2]
    <3>1. CASE \E i \in 1 .. Len(got) : got[i] = sent[j]
      BY <3>1
    <3>2. CASE ~ \E i \in 1 .. Len(got) : got[i] = sent[j]
      <4>1. PICK q \in tail .. head - 1 :
              /\ ~Own(q) /\ LastChunk(Content(q))
              /\ Content(q).from = sent[j][1] /\ Content(q).seq = sent[j][2]
        BY <1>d, <3>2 DEF Kept
      <4>2. /\ ~Own(q)' /\ LastChunk(Content(q))'
            /\ Content(q)'.from = sent[j][1] /\ Content(q)'.seq = sent[j][2]
        BY <1>4, <4>1 DEF LastChunk
      <4> QED BY <1>9, <4>2
    <3> QED BY <3>1, <3>2
  <2> QED BY <1>1, <1>c, <2>1 DEF Kept
<1>12. Receiving'
  <2>1. tail < head => /\ Content(tail)' = Content(tail) /\ (Own(tail)' <=> Own(tail))
    <3>1. tail < head => tail \in tail .. head - 1
      BY <1>f
    <3> QED BY <1>4, <1>c, <3>1
  <2>2. ~ (tail < head) => Content(tail)'.part = 0
    <3>1. ~ (tail < head) => tail = head /\ tail \in head .. h - 1 /\ tail - head = 0
      BY <1>i
    <3> QED BY <1>5, <1>c, <3>1
  <2>3. cons.pc \in {"copy"} \cup Holding => tail < head
    BY DEF Window, Passing, Holding
  <2>4. \A r \in Producers \ alive : Owned(tail, r) => Owned(tail, r)'
    <3>1. \A r \in Producers \ alive : r # p
      OBVIOUS
    <3> QED BY <1>2, <1>c, <3>1
  <2>5. tail < h
    BY <1>i
  <2>6. cons.part = 0 => Content(tail)'.part = 0
    BY <1>d, <2>1, <2>2 DEF Receiving
  <2>7. cons.part > 0 => /\ cons.pc \in {"gate", "copy"} \cup Holding
                         /\ Content(tail)' = [cons.first EXCEPT !.part = cons.part]
    BY <1>d, <2>1 DEF Receiving
  <2>8. /\ cons.pc \in {"copy"} \cup Holding => ~Own(tail)' /\ cons.seq = Content(tail)'.seq
        /\ cons.pc \in Holding => cons.frame = Content(tail)'
    BY <1>d, <2>1, <2>3 DEF Receiving
  <2>9. cons.pc \in {"reclaimFree", "reclaimTail"} => \E r \in Producers \ alive : Owned(tail, r)'
    BY <1>d, <2>4 DEF Receiving
  <2>10. /\ cons.pc \in Holding \ {"pin"} /\ cons.part = 0 => cons.first = cons.frame
         /\ cons.pc = "reclaimTail" => slots[tail % Cap].state = "FREE"
    BY <1>d DEF Receiving
  <2> HIDE DEF Holding
  <2> QED BY <1>1, <1>c, <2>5, <2>6, <2>7, <2>8, <2>9, <2>10 DEF Receiving
<1>13. ASSUME NEW q \in tail .. h - 1, NEW r \in Producers, Owned(q, r)' PROVE OwnedSlot(q, r)'
  <2>1. CASE q \in tail .. head - 1
    <3>1. r # p
      BY <1>4, <1>13, <2>1
    <3>2. pr'[r] = pr[r] /\ Position(r)' = Position(r) /\ ChunkAt(r, q)' = ChunkAt(r, q)
      BY <1>1, <1>2, <3>1 DEF Position
    <3>3. Owned(q, r)
      BY <1>2, <1>13, <3>1
    <3>4. OwnedSlot(q, r)
      BY <1>d, <2>1, <3>3 DEF Layout
    <3> QED BY <1>c, <3>2, <3>4 DEF OwnedSlot
  <2>2. CASE q \in head .. h - 1
    <3>1. r = p
      BY <1>5, <1>13, <2>2
    <3>2. q \in head .. tail + Cap - 1
      BY <1>f, <1>h, <2>2
    <3>3. slots[q % Cap].state = "FREE" /\ slots[q % Cap].owner = NoOne
      BY <1>d, <3>2 DEF Layout, Window, Open
    <3> QED BY <1>1, <1>c, <3>1, <3>3 DEF OwnedSlot
  <2> QED BY <1>6, <2>1, <2>2
<1>14. ASSUME NEW q \in tail .. h - 1, ~Own(q)' PROVE FullSlot(q)'
  <2>1. q \in tail .. head - 1
    BY <1>5, <1>6, <1>14
  <2>2. FullSlot(q)
    BY <1>4, <1>14, <1>d, <2>1 DEF Layout
  <2>3. \A r, m : InSent(r, m)' <=> InSent(r, m)
    BY <1>c DEF InSent
  <2> QED BY <1>3, <1>c, <2>2, <2>3 DEF FullSlot, LastChunk
<1>15. \A q \in h .. tail + Cap - 1 : slots[q % Cap].state = "FREE"
  <2>1. \A q \in h .. tail + Cap - 1 : q \in head .. tail + Cap - 1
    BY <1>i
  <2> QED BY <1>d, <2>1 DEF Layout
<1>16. Layout'
  BY <1>1, <1>13, <1>14, <1>15, <1>c DEF Layout
<1> QED BY <1>8, <1>10, <1>11, <1>12, <1>16 DEF Delivery

\* A killed handle keeps what it reserved; nobody else is concerned.
LEMMA Dies ==
  ASSUME Typed, Orderly, Window, Delivery, NEW p \in Producers, Die(p)
  PROVE  Delivery'
<1>1. /\ alive' \subseteq alive /\ UNCHANGED <<scenario, head, tail, slots, pr, cons, sent, got>>
  BY DEF Die
<1>2. \A r, q : /\ Owned(q, r)' <=> Owned(q, r)
                /\ ChunkAt(r, q)' = ChunkAt(r, q) /\ Position(r)' = Position(r)
  BY <1>1 DEF Owned, Position, ChunkAt, Seq0
<1>3. \A q : /\ Own(q)' <=> Own(q)
             /\ FrameAt(q)' = FrameAt(q) /\ Content(q)' = Content(q)
  BY <1>1, <1>2 DEF Own, FrameAt, Content
<1>4. \A r, s : InSent(r, s)' <=> InSent(r, s)
  BY <1>1 DEF InSent
<1>5. Layout'
  <2>1. \A q, r : OwnedSlot(q, r) => OwnedSlot(q, r)'
    BY <1>1, <1>2 DEF OwnedSlot
  <2>2. \A q : FullSlot(q) => FullSlot(q)'
    BY <1>1, <1>3, <1>4 DEF FullSlot, LastChunk
  <2> QED BY <1>1, <1>2, <1>3, <2>1, <2>2 DEF Delivery, Layout
<1>6. Line' /\ Taken' /\ Kept'
  BY <1>1, <1>3, <1>4 DEF Delivery, Line, Genuine, Before, Follows, LastChunk, Taken, Kept
<1>7. Receiving'
  <2>1. cons.pc \in {"reclaimFree", "reclaimTail"} => \E r \in Producers \ alive' : Owned(tail, r)'
    BY <1>1, <1>2 DEF Delivery, Receiving
  <2> HIDE DEF Holding
  <2> QED BY <1>1, <1>3, <2>1 DEF Delivery, Receiving
<1> QED BY <1>5, <1>6, <1>7 DEF Delivery

-----------------------------------------------------------------------------
(* The steps of the consumer                                               *)

\* The consumer goes on without writing a slot.
LEMMA Looks ==
  ASSUME Typed, Reserved, Typed', Orderly, Window, Delivery,
         UNCHANGED <<scenario, head, tail, slots, alive, pr, sent, got>>,
         cons.pc # "advance", cons'.pc # "advance",
         cons'.pc \in {"check", "release"} <=> cons.pc \in {"check", "release"}
  PROVE  /\ Layout' /\ Line' /\ Taken' /\ Kept'
         /\ \A q : Content(q)' = Content(q) /\ (Own(q)' <=> Own(q))
         /\ \A q, r : Owned(q, r)' <=> Owned(q, r)
<1>d. Layout /\ Line /\ Receiving /\ Taken /\ Kept
  BY DEF Delivery
<1>2. \A r, q : /\ Owned(q, r)' <=> Owned(q, r)
                /\ ChunkAt(r, q)' = ChunkAt(r, q) /\ Position(r)' = Position(r)
  BY DEF Owned, Position, ChunkAt, Seq0
<1>3. \A q : /\ Own(q)' <=> Own(q)
             /\ FrameAt(q)' = FrameAt(q) /\ Content(q)' = Content(q)
  BY <1>2 DEF Own, FrameAt, Content
<1>4. Line' /\ Taken' /\ Kept' /\ \A r, s : InSent(r, s) => InSent(r, s)'
  BY <1>3, <1>d, StoryKept
<1>5. Layout'
  <2>1. \A q, r : OwnedSlot(q, r) => OwnedSlot(q, r)'
    BY <1>2 DEF OwnedSlot
  <2>2. \A q : FullSlot(q) => FullSlot(q)'
    BY <1>3, <1>4 DEF FullSlot, LastChunk
  <2> QED BY <1>2, <1>3, <1>d, <2>1, <2>2 DEF Layout
<1> QED BY <1>2, <1>3, <1>4, <1>5

\* The consumer writes the tail slot.
LEMMA TailWritten ==
  ASSUME Typed, Reserved, Typed', Reserved', Orderly, Window, Delivery,
         UNCHANGED <<scenario, head, tail, alive, pr, sent, got>>,
         tail < head, cons.pc # "advance",
         \A j \in 0 .. Cap - 1 : j # tail % Cap => slots'[j] = slots[j],
         \A p \in Producers : Owned(tail, p) => OwnedSlot(tail, p)',
         ~Own(tail) => FrameAt(tail)' = FrameAt(tail),
         ~Own(tail) =>
           \/ cons'.pc = "advance" /\ slots'[tail % Cap].state = "FREE"
           \/ cons'.pc \in {"check", "release"} /\ slots'[tail % Cap].state = "PINNED"
  PROVE  /\ Layout' /\ Line' /\ Taken' /\ Kept'
         /\ Content(tail)' = Content(tail) /\ (Own(tail)' <=> Own(tail))
         /\ \A q, r : Owned(q, r)' <=> Owned(q, r)
<1>d. Layout /\ Line /\ Receiving /\ Taken /\ Kept
  BY DEF Delivery
<1>f. /\ head \in Nat /\ tail \in Nat /\ tail <= head /\ head <= tail + Cap /\ Cap \in Nat \ {0}
      /\ \A q \in Nat : q % Cap \in 0 .. Cap - 1
      /\ \A q \in tail .. head - 1 : q \in Nat /\ tail <= q /\ q < tail + Cap
  BY Facts
<1>o. \A q \in Nat : tail < q /\ q < tail + Cap => slots'[q % Cap] = slots[q % Cap]
  <2>1. SUFFICES ASSUME NEW q \in Nat, tail < q, q < tail + Cap
                 PROVE  slots'[q % Cap] = slots[q % Cap]
    OBVIOUS
  <2>2. tail # q /\ tail < tail + Cap /\ tail <= q /\ tail <= tail
    BY <1>f, <2>1
  <2>3. q % Cap # tail % Cap
    BY <1>f, <2>1, <2>2, OtherSlot
  <2> QED BY <1>f, <2>3
<1>2. \A r, q : /\ Owned(q, r)' <=> Owned(q, r)
                /\ ChunkAt(r, q)' = ChunkAt(r, q) /\ Position(r)' = Position(r)
  BY DEF Owned, Position, ChunkAt, Seq0
<1>3. \A q \in tail .. head - 1 : q # tail => slots'[q % Cap] = slots[q % Cap] /\ FrameAt(q)' = FrameAt(q)
  <2>1. \A q \in tail .. head - 1 : q # tail => tail < q
    <3>1. head \in Nat /\ tail \in Nat
      BY <1>f
    <3> QED BY <3>1
  <2>2. \A q \in tail .. head - 1 : q # tail => slots'[q % Cap] = slots[q % Cap]
    BY <1>f, <1>o, <2>1
  <2> QED BY <2>2 DEF FrameAt
<1>4. \A q \in tail .. head - 1 : Content(q)' = Content(q) /\ (Own(q)' <=> Own(q))
  BY <1>2, <1>3, ContentKept
<1>5. Line' /\ Taken' /\ Kept' /\ \A r, s : InSent(r, s) => InSent(r, s)'
  BY <1>4, <1>d, StoryKept
<1>6. tail \in tail .. head - 1
  BY <1>f
<1>7. ASSUME NEW q \in tail .. head - 1, NEW r \in Producers, Owned(q, r)' PROVE OwnedSlot(q, r)'
  <2>1. CASE q = tail
    BY <1>2, <1>7, <2>1
  <2>2. CASE q # tail
    <3>1. OwnedSlot(q, r)
      BY <1>2, <1>7, <1>d DEF Layout
    <3> QED BY <1>2, <1>3, <2>2, <3>1 DEF OwnedSlot
  <2> QED BY <2>1, <2>2
<1>8. ASSUME NEW q \in tail .. head - 1, ~Own(q)' PROVE FullSlot(q)'
  <2>1. FullSlot(q) /\ ~Own(q)
    BY <1>4, <1>8, <1>d DEF Layout
  <2>2. FrameAt(q)' = FrameAt(q)
    BY <1>3, <2>1
  <2>3. LastChunk(FrameAt(q))' => InSent(FrameAt(q).from, FrameAt(q).seq)'
    BY <1>5, <2>1, <2>2 DEF FullSlot, LastChunk, InSent
  <2>4. CASE q = tail
    BY <2>1, <2>3, <2>4 DEF FullSlot
  <2>5. CASE q # tail
    <3>1. slots[q % Cap].state = "COMMITTED" /\ slots[q % Cap].seq = FrameAt(q).seq
      BY <2>1, <2>5 DEF FullSlot
    <3> QED BY <1>3, <2>2, <2>3, <2>5, <3>1 DEF FullSlot
  <2> QED BY <2>4, <2>5
<1>9. \A q \in head .. tail + Cap - 1 : slots'[q % Cap].state = "FREE"
  <2>1. \A q \in head .. tail + Cap - 1 : q \in Nat /\ tail < q /\ q < tail + Cap
    BY <1>f
  <2> QED BY <1>d, <1>o, <2>1 DEF Layout
<1>10. Layout'
  BY <1>7, <1>8, <1>9 DEF Layout
<1> QED BY <1>2, <1>4, <1>5, <1>6, <1>10

\* The tail passes one slot, which is free by then.
LEMMA TailPasses ==
  ASSUME Typed, Reserved, Typed', Reserved', Orderly, Window, Delivery,
         UNCHANGED <<scenario, head, slots, alive, pr, sent>>,
         NEW t, t = tail + 1, tail' = t, tail < head,
         cons'.pc \notin {"advance", "check", "release"}, slots[tail % Cap].state = "FREE"
  PROVE  /\ Layout' /\ Line'
         /\ t \in Nat /\ \A q \in t .. head - 1 : q \in tail .. head - 1 /\ tail < q
         /\ \A q \in t .. head - 1 : Content(q)' = Content(q) /\ (Own(q)' <=> Own(q))
<1>d. Layout /\ Line /\ Receiving /\ Taken /\ Kept
  BY DEF Delivery
<1>f. /\ head \in Nat /\ tail \in Nat /\ tail <= head /\ head <= tail + Cap /\ Cap \in Nat \ {0}
  BY Facts
<1>1. t \in Nat /\ \A q \in t .. head - 1 : q \in tail .. head - 1 /\ tail < q
  BY <1>f
<1>2. \A r, q : /\ Owned(q, r)' <=> Owned(q, r)
                /\ ChunkAt(r, q)' = ChunkAt(r, q) /\ Position(r)' = Position(r)
  BY DEF Owned, Position, ChunkAt, Seq0
<1>3. \A q \in t .. head - 1 : q # tail /\ FrameAt(q)' = FrameAt(q)
  <2>1. \A q \in t .. head - 1 : q # tail
    BY <1>1, <1>f
  <2> QED BY <2>1 DEF FrameAt
<1>4. \A q \in t .. head - 1 : Content(q)' = Content(q) /\ (Own(q)' <=> Own(q))
  BY <1>2, <1>3, ContentKept
<1>5. \A q, r : OwnedSlot(q, r) => OwnedSlot(q, r)'
  BY <1>2 DEF OwnedSlot
<1>6. ASSUME NEW q \in t .. head - 1, FullSlot(q) PROVE FullSlot(q)'
  <2>1. slots[q % Cap].state = "COMMITTED" /\ slots[q % Cap].seq = FrameAt(q).seq
    BY <1>3, <1>6 DEF FullSlot
  <2> QED BY <1>3, <1>6, <2>1 DEF FullSlot, LastChunk, InSent
<1>7. ASSUME NEW q \in head .. t + Cap - 1 PROVE slots[q % Cap].state = "FREE"
  <2>1. CASE q = tail + Cap
    BY <1>f, <2>1, NextLap
  <2>2. CASE q # tail + Cap
    <3>1. q \in head .. tail + Cap - 1
      BY <1>f, <2>2
    <3> QED BY <1>d, <3>1 DEF Layout
  <2> QED BY <2>1, <2>2
<1>8. Layout'
  BY <1>1, <1>2, <1>4, <1>5, <1>6, <1>7, <1>d DEF Layout
<1>9. Line'
  <2>1. \A q \in t .. head - 1 : Genuine(Content(q))'
    BY <1>1, <1>4, <1>d DEF Line, Genuine
  <2>2. \A a, b \in t .. head - 1 :
          a < b /\ Content(a)'.from = Content(b)'.from => Before(Content(a), Content(b))'
    BY <1>1, <1>4, <1>d DEF Line, Before
  <2>3. \A q \in t .. head - 1 : q + 1 < head => Follows(Content(q), Content(q + 1))'
    <3>1. SUFFICES ASSUME NEW q \in t .. head - 1, q + 1 < head
                   PROVE  Follows(Content(q), Content(q + 1))'
      OBVIOUS
    <3>2. q + 1 \in t .. head - 1 /\ q \in tail .. head - 1
      BY <1>f, <1>1, <3>1
    <3>3. Follows(Content(q), Content(q + 1))
      BY <1>d, <3>1, <3>2 DEF Line
    <3>4. Content(q)' = Content(q) /\ Content(q + 1)' = Content(q + 1)
      BY <1>4, <3>2
    <3> QED BY <3>3, <3>4 DEF Follows, LastChunk
  <2>4. t < head => LastChunk(Content(head - 1))'
    <3>1. t < head => head - 1 \in t .. head - 1 /\ tail < head
      BY <1>f, <1>1
    <3> QED BY <1>4, <1>d, <3>1 DEF Line, LastChunk
  <2> QED BY <2>1, <2>2, <2>3, <2>4 DEF Line
<1> QED BY <1>1, <1>4, <1>8, <1>9

\* A tail slot that is COMMITTED holds a chunk.
LEMMA TailReadable ==
  ASSUME Typed, Reserved, Orderly, Window, Delivery,
         cons.pc \in {"gate", "second"}, slots[tail % Cap].state = "COMMITTED"
  PROVE  tail < head /\ ~Own(tail) /\ slots[tail % Cap].seq = Content(tail).seq
<1>f. head \in Nat /\ tail \in Nat
  BY Facts
<1>1. tail < head
  BY TailIsNobodys
<1>2. tail \in tail .. head - 1
  BY <1>f, <1>1
<1>3. ~Own(tail)
  <2>1. \A p \in Producers : ~Owned(tail, p)
    BY <1>2 DEF Delivery, Layout, OwnedSlot
  <2> QED BY <2>1 DEF Own
<1>4. FullSlot(tail)
  BY <1>2, <1>3 DEF Delivery, Layout
<1>5. Content(tail) = FrameAt(tail)
  BY <1>3, ContentFacts
<1> QED BY <1>1, <1>3, <1>4, <1>5 DEF FullSlot

\* Inside a message, what the consumer waits for is committed or under way.
LEMMA NextChunkComes ==
  ASSUME Typed, Reserved, Orderly, Window, Quiet, Delivery,
         cons.pc = "gate", cons.part > 0, ~Readable(TailIdx)
  PROVE  InProgress
<1>f. head \in Nat /\ tail \in Nat /\ cons.t = tail /\ TailIdx = tail % Cap
  BY Facts
<1>1. tail < head /\ Content(tail) = [cons.first EXCEPT !.part = cons.part]
  BY DEF Delivery, Receiving
<1>2. tail \in tail .. head - 1
  BY <1>f, <1>1
<1>3. Own(tail)
  <2>1. SUFFICES ASSUME ~Own(tail) PROVE FALSE
    OBVIOUS
  <2>2. FullSlot(tail)
    BY <1>2, <2>1 DEF Delivery, Layout
  <2> QED BY <1>f, <2>2 DEF FullSlot, Readable
<1>4. PICK p \in Producers : Owned(tail, p)
  BY <1>3 DEF Own
<1>5. alive = Producers
  <2>1. Content(tail).part = cons.part /\ cons.part \in Nat
    <3>1. cons.first \in Frames /\ cons.part \in Nat
      BY DEF Typed, TypeOK, ReceiverOK
    <3> QED BY <1>1, <3>1 DEF Frames
  <2>2. Content(tail).total \in scenario.sizes /\ Content(tail).part < Content(tail).total
    BY <1>2 DEF Delivery, Line, Genuine
  <2>3. scenario.sizes # {1}
    BY <2>1, <2>2
  <2> QED BY <2>3 DEF Quiet, Calm, Orderly
<1>6. tail \in Outstanding(p)
  BY <1>4 DEF Owned, Outstanding
<1> QED BY <1>4, <1>5, <1>6, <1>f DEF InProgress

\* Where a process was killed, messages have one slot.
LEMMA KilledAreSingle ==
  ASSUME Typed, Orderly, Quiet, NEW p \in Producers \ alive
  PROVE  scenario.sizes = {1}
BY DEF Orderly, Quiet, Calm

\* The frame the consumer copied is the one it expects.
LEMMA VerdictIsTake ==
  ASSUME Typed, Reserved, Orderly, Window, Delivery, cons.pc \in {"check", "release", "advance"}
  PROVE  /\ Verdict = "take"
         /\ cons.frame = Content(tail) /\ Genuine(Content(tail)) /\ tail \in tail .. head - 1
         /\ cons.frame.part = cons.part /\ cons.first.total = cons.frame.total
         /\ [cons.first EXCEPT !.part = cons.part] = cons.frame
<1>f. head \in Nat /\ tail \in Nat /\ tail < head
  BY Facts DEF Window, Passing
<1>1. tail \in tail .. head - 1
  BY <1>f
<1>2. Genuine(Content(tail))
  BY <1>1 DEF Delivery, Line
<1>3. cons.frame = Content(tail) /\ cons.seq = Content(tail).seq
  BY DEF Delivery, Receiving, Holding
<1>t. /\ cons.first \in Frames /\ cons.frame \in Frames /\ cons.part \in Nat /\ cons.frame.total # 0
      /\ \A n \in scenario.sizes : n \in Nat \ {0}
  BY <1>2, <1>3, Fields DEF Typed, TypeOK, ReceiverOK, Genuine
<1>4. CASE cons.part = 0
  <2>1. cons.first = cons.frame /\ cons.frame.part = 0
    BY <1>3, <1>4, <1>f DEF Delivery, Receiving, Holding
  <2>2. Verdict = "take"
    BY <1>3, <1>4, <1>t, <2>1 DEF Verdict
  <2>3. [cons.first EXCEPT !.part = cons.part] = cons.frame
    BY <1>4, <1>t, <2>1 DEF Frames
  <2> QED BY <1>1, <1>2, <1>3, <1>4, <2>1, <2>2, <2>3
<1>5. CASE cons.part > 0
  <2>1. cons.frame = [cons.first EXCEPT !.part = cons.part]
    BY <1>3, <1>5 DEF Delivery, Receiving
  <2>2. /\ cons.frame.part = cons.part /\ cons.frame.total = cons.first.total
        /\ cons.frame.seq = cons.first.seq
    BY <1>t, <2>1 DEF Frames
  <2>3. Verdict = "take"
    BY <1>3, <1>5, <2>2 DEF Verdict
  <2> QED BY <1>1, <1>2, <1>3, <2>1, <2>2, <2>3
<1> QED BY <1>4, <1>5, <1>t

\* The consumer looks for a message, waits, verifies, copies and checks.
LEMMA ReceiverLooks ==
  ASSUME Typed, Reserved, Typed', Orderly, Window, Quiet, Delivery,
         RecvBegin \/ SecondLook \/ Gate \/ Verify \/ CopyPayload \/ CheckPinned
  PROVE  Delivery'
<1>d. Layout /\ Line /\ Receiving /\ Taken /\ Kept
  BY DEF Delivery
<1>t. /\ cons.part \in Nat /\ ReceiverOK /\ slots \in Slots /\ tail \in Nat /\ head \in Nat
      /\ cons.pc # "idle" => cons.t = tail /\ TailIdx = tail % Cap
  BY Facts DEF Typed, TypeOK, ReceiverOK
<1>p. cons.pc \notin {"gate", "copy"} \cup Holding => cons.part = 0
  BY <1>d, <1>t DEF Receiving
<1>u. UNCHANGED <<scenario, head, tail, slots, alive, pr, sent, got>>
  BY DEF RecvBegin, SecondLook, Gate, Verify, CopyPayload, CheckPinned
\* The call is over, or goes on, with nothing taken.
<1>w. ASSUME cons.pc \in {"idle", "second", "gate", "verify"}, cons.part = 0,
             cons'.pc \in {"idle", "gate", "verify"}, cons'.part = 0
      PROVE  Delivery'
  <2>1. /\ Layout' /\ Line' /\ Taken' /\ Kept'
        /\ Content(tail)' = Content(tail) /\ (Own(tail)' <=> Own(tail))
    BY <1>u, <1>w, Looks
  <2>2. Receiving'
    BY <1>d, <1>u, <1>w, <2>1 DEF Receiving, Holding
  <2> QED BY <2>1, <2>2 DEF Delivery
\* The consumer sees its message at the tail.
<1>c. ASSUME cons.pc \in {"second", "gate"}, slots[tail % Cap].state = "COMMITTED",
             cons' = [cons EXCEPT !.pc = "copy", !.seq = slots[tail % Cap].seq]
      PROVE  Delivery'
  <2>1. /\ cons'.pc = "copy" /\ cons'.seq = slots[tail % Cap].seq /\ cons'.part = cons.part
        /\ cons'.first = cons.first
    BY <1>c, <1>t DEF ReceiverOK
  <2>2. /\ Layout' /\ Line' /\ Taken' /\ Kept'
        /\ Content(tail)' = Content(tail) /\ (Own(tail)' <=> Own(tail))
    BY <1>u, <1>c, <2>1, Looks
  <2>3. tail < head /\ ~Own(tail) /\ slots[tail % Cap].seq = Content(tail).seq
    BY <1>c, TailReadable
  <2>4. Receiving'
    BY <1>d, <1>u, <2>1, <2>2, <2>3 DEF Receiving, Holding
  <2> QED BY <2>2, <2>4 DEF Delivery
<1>1. CASE RecvBegin
  <2>1. cons.pc = "idle" /\ cons.part = 0
    BY <1>1, <1>p DEF RecvBegin, ConsAt, Holding
  <2>2. cons'.pc = "gate" /\ cons'.part = 0
    BY <1>1 DEF RecvBegin, Receiver
  <2> QED BY <1>w, <2>1, <2>2
<1>e. ASSUME RecvEnds PROVE cons'.pc = "idle" /\ cons'.part = 0
  BY <1>e DEF RecvEnds, Receiver
<1>2. CASE SecondLook
  <2>1. cons.pc = "second" /\ cons.part = 0 /\ TailIdx = tail % Cap
    BY <1>2, <1>p, <1>t DEF SecondLook, ConsAt, Holding
  <2>2. CASE Readable(TailIdx)
    BY <1>2, <1>c, <2>1, <2>2 DEF SecondLook, Readable
  <2>3. CASE ~Readable(TailIdx)
    BY <1>2, <1>e, <1>w, <2>1, <2>3 DEF SecondLook
  <2> QED BY <2>2, <2>3
<1>3. CASE Gate
  <2>1. cons.pc = "gate" /\ TailIdx = tail % Cap
    BY <1>3, <1>t DEF Gate, ConsAt
  <2>2. CASE Readable(TailIdx)
    BY <1>3, <1>c, <2>1, <2>2 DEF Gate, Readable
  <2>3. CASE ~Readable(TailIdx) /\ cons.part = 0
    <3>1. cons'.pc = "verify" /\ cons'.part = 0
      BY <1>3, <1>t, <2>3 DEF Gate, Move, ReceiverOK
    <3> QED BY <1>w, <2>1, <2>3, <3>1
  <2>4. CASE ~Readable(TailIdx) /\ cons.part > 0
    <3>1. InProgress
      BY <2>1, <2>4, NextChunkComes
    <3> QED BY <1>3, <1>t, <2>4, <3>1 DEF Gate
  <2> QED BY <1>t, <2>2, <2>3, <2>4
<1>4. CASE Verify
  <2> DEFINE n == Extent(cons.h, cons.t)
  <2>0. cons.pc = "verify" /\ cons.part = 0 /\ cons.t = tail
    BY <1>4, <1>p, <1>t DEF Verify, ConsAt, Holding
  <2>1. CASE n = 0
    BY <1>4, <1>e, <1>w, <2>0, <2>1 DEF Verify
  <2>2. CASE n > 0
    <3>1. /\ slots[tail % Cap].state = "WRITING"
          /\ slots[tail % Cap].owner # NoOne /\ slots[tail % Cap].owner \notin alive
      <4>1. n # 0
        BY <2>2
      <4>2. slots[tail % Cap].state = "WRITING" /\ Gone(slots[tail % Cap].owner)
        BY <2>0, <4>1 DEF Extent
      <4> QED BY <4>2 DEF Gone
    <3>2. tail < head
      BY <3>1, TailIsNobodys
    <3>3. tail \in tail .. head - 1
      BY <1>t, <3>2
    <3>4. Own(tail)
      <4>1. SUFFICES ASSUME ~Own(tail) PROVE FALSE
        OBVIOUS
      <4>2. FullSlot(tail)
        BY <1>d, <3>3, <4>1 DEF Layout
      <4> QED BY <2>0, <3>1, <4>2 DEF FullSlot
    <3>5. PICK p \in Producers : Owned(tail, p)
      BY <3>4 DEF Own
    <3>6. p \notin alive
      <4>1. OwnedSlot(tail, p)
        BY <1>d, <3>3, <3>5 DEF Layout
      <4> QED BY <3>1, <4>1 DEF OwnedSlot
    <3>7. n \in Nat /\ cons' = [cons EXCEPT !.pc = "reclaimFree", !.left = n, !.ext = n]
      BY <1>4, <1>t, <2>2, ExtentTyped DEF Verify, ReceiverOK
    <3> HIDE DEF n
    <3>8. cons'.pc = "reclaimFree" /\ cons'.part = 0
      BY <1>t, <2>0, <3>7 DEF ReceiverOK
    <3>9. /\ Layout' /\ Line' /\ Taken' /\ Kept'
          /\ Content(tail)' = Content(tail) /\ Owned(tail, p)'
      BY <1>u, <2>0, <3>5, <3>8, Looks
    <3>10. Receiving'
      BY <1>d, <1>u, <2>0, <3>5, <3>6, <3>8, <3>9 DEF Receiving, Holding
    <3> QED BY <3>9, <3>10 DEF Delivery
  <2>3. n \in Nat
    BY <1>t, ExtentTyped DEF ReceiverOK
  <2> QED BY <2>1, <2>2, <2>3
<1>5. CASE CopyPayload
  <2>1. /\ cons.pc = "copy" /\ cons'.pc = "pin" /\ cons'.part = cons.part /\ cons'.seq = cons.seq
        /\ cons'.first = cons.first /\ cons'.frame = slots[tail % Cap].frame
    BY <1>5, <1>t DEF CopyPayload, ConsAt, ReceiverOK
  <2>2. /\ Layout' /\ Line' /\ Taken' /\ Kept'
        /\ Content(tail)' = Content(tail) /\ (Own(tail)' <=> Own(tail))
    BY <1>u, <2>1, Looks
  <2>3. ~Own(tail) /\ Content(tail) = FrameAt(tail)
    BY <1>d, <2>1, ContentFacts DEF Receiving
  <2>4. cons'.frame = Content(tail)
    BY <2>1, <2>3 DEF FrameAt
  <2>5. Receiving'
    BY <1>d, <1>u, <2>1, <2>2, <2>3, <2>4 DEF Receiving, Holding
  <2> QED BY <2>2, <2>5 DEF Delivery
<1>6. CASE CheckPinned
  <2>1. cons.pc = "check" /\ TailIdx = tail % Cap
    BY <1>6, <1>t DEF CheckPinned, ConsAt
  <2>2. tail \in tail .. head - 1 /\ tail < head
    BY <1>t, <2>1 DEF Window, Passing
  <2>3. slots[TailIdx].state = "PINNED"
    <3>1. ~Own(tail)
      BY <1>d, <2>1 DEF Receiving, Holding
    <3>2. FullSlot(tail)
      BY <1>d, <2>2, <3>1 DEF Layout
    <3> QED BY <2>1, <3>2 DEF FullSlot
  <2>4. /\ cons'.pc = "release" /\ cons'.part = cons.part /\ cons'.seq = cons.seq
        /\ cons'.first = cons.first /\ cons'.frame = cons.frame
    BY <1>6, <1>t, <2>3 DEF CheckPinned, Move, ReceiverOK
  <2>5. /\ Layout' /\ Line' /\ Taken' /\ Kept'
        /\ Content(tail)' = Content(tail) /\ (Own(tail)' <=> Own(tail))
    BY <1>u, <2>1, <2>4, Looks
  <2>6. Receiving'
    BY <1>d, <1>u, <2>1, <2>4, <2>5 DEF Receiving, Holding
  <2> QED BY <2>5, <2>6 DEF Delivery
<1> QED BY <1>1, <1>2, <1>3, <1>4, <1>5, <1>6

\* The consumer pins, releases or frees the tail slot.
LEMMA ReceiverWrites ==
  ASSUME Typed, Reserved, Typed', Reserved', Orderly, Window, Quiet, Delivery,
         PinSlot \/ FreeTail \/ ReclaimFree
  PROVE  Delivery'
<1>d. Layout /\ Line /\ Receiving /\ Taken /\ Kept
  BY DEF Delivery
<1>t. /\ cons.part \in Nat /\ cons.seq \in Nat /\ ReceiverOK /\ slots \in Slots /\ tail \in Nat /\ head \in Nat
      /\ tail % Cap \in 0 .. Cap - 1
      /\ cons.pc # "idle" => cons.t = tail /\ TailIdx = tail % Cap
  BY Facts DEF Typed, TypeOK, ReceiverOK
<1>u. /\ UNCHANGED <<scenario, head, tail, alive, pr, sent, got>>
      /\ cons.pc \in {"pin", "release", "reclaimFree"}
  BY DEF PinSlot, FreeTail, ReclaimFree, ConsAt
<1>h. tail < head /\ tail \in tail .. head - 1 /\ TailIdx = tail % Cap
  <2>1. tail < head
    BY <1>u DEF Window, Passing
  <2> QED BY <1>t, <1>u, <2>1
<1>1. CASE PinSlot
  <2>1. /\ cons.pc = "pin" /\ cons'.pc = "check" /\ cons'.part = cons.part /\ cons'.seq = cons.seq
        /\ cons'.frame = cons.frame
        /\ cons'.first = IF cons.part = 0 THEN cons.frame ELSE cons.first
    BY <1>1, <1>t DEF PinSlot, ConsAt, ReceiverOK
  <2>2. /\ slots'[tail % Cap].state = "PINNED"
        /\ slots'[tail % Cap].frame = slots[tail % Cap].frame
        /\ \A j \in 0 .. Cap - 1 : j # tail % Cap => slots'[j] = slots[j]
    BY <1>1, <1>h, <1>t DEF PinSlot, WriteHeader, Slots
  <2>3. ~Own(tail)
    BY <1>d, <2>1 DEF Receiving, Holding
  <2>4. FrameAt(tail)' = FrameAt(tail)
    BY <1>u, <2>1, <2>2 DEF FrameAt
  <2>5. \A p \in Producers : ~Owned(tail, p)
    BY <2>3 DEF Own
  <2>6. /\ Layout' /\ Line' /\ Taken' /\ Kept'
        /\ Content(tail)' = Content(tail) /\ (Own(tail)' <=> Own(tail))
    BY <1>h, <1>u, <2>1, <2>2, <2>4, <2>5, TailWritten
  <2>7. Receiving'
    BY <1>d, <1>u, <2>1, <2>6 DEF Receiving, Holding
  <2> QED BY <2>6, <2>7 DEF Delivery
<1>2. CASE FreeTail
  <2>1. cons.pc = "release"
    BY <1>2 DEF FreeTail, ConsAt
  <2>2. Verdict = "take" /\ cons.frame = Content(tail)
    BY <2>1, VerdictIsTake
  <2>3. /\ cons'.pc = "advance" /\ cons'.part = cons.part /\ cons'.seq = cons.seq
        /\ cons'.first = cons.first /\ cons'.frame = cons.frame
    BY <1>2, <1>t, <2>2 DEF FreeTail, Move, ReceiverOK
  <2>4. /\ slots'[tail % Cap].state = "FREE"
        /\ \A j \in 0 .. Cap - 1 : j # tail % Cap => slots'[j] = slots[j]
    BY <1>2, <1>h, <1>t, SlotReleased DEF FreeTail
  <2>5. ~Own(tail)
    BY <1>d, <2>1 DEF Receiving, Holding
  <2>6. FrameAt(tail)' = FrameAt(tail)
    <3>1. FrameAt(tail)' = cons.frame
      BY <1>u, <2>3 DEF FrameAt
    <3> QED BY <2>2, <2>5, <3>1, ContentFacts
  <2>7. \A p \in Producers : ~Owned(tail, p)
    BY <2>5 DEF Own
  <2>8. /\ Layout' /\ Line' /\ Taken' /\ Kept'
        /\ Content(tail)' = Content(tail) /\ (Own(tail)' <=> Own(tail))
    BY <1>h, <1>u, <2>1, <2>3, <2>4, <2>6, <2>7, TailWritten
  <2>9. Receiving'
    BY <1>d, <1>u, <2>1, <2>3, <2>8 DEF Receiving, Holding
  <2> QED BY <2>8, <2>9 DEF Delivery
<1>3. CASE ReclaimFree
  <2>1. /\ cons.pc = "reclaimFree" /\ cons.left = 1 /\ cons.ext = 1 /\ cons.t = tail /\ cons.part = 0
    BY <1>3, <1>d, <1>t DEF ReclaimFree, ConsAt, Orderly, Typed, Receiving, Holding
  <2>2. cons'.pc = "reclaimTail" /\ cons'.part = 0
    BY <1>3, <1>t, <2>1 DEF ReclaimFree, ReceiverOK
  <2>3. cons.t + cons.ext - cons.left = tail
    BY <1>t, <2>1
  <2>4. /\ slots'[tail % Cap].state = "FREE" /\ slots'[tail % Cap].owner = NoOne
        /\ \A j \in 0 .. Cap - 1 : j # tail % Cap => slots'[j] = slots[j]
    BY <1>3, <1>t, <2>3, SlotReleased DEF ReclaimFree
  <2>5. PICK p \in Producers \ alive : Owned(tail, p)
    BY <1>d, <2>1 DEF Receiving
  <2>6. Own(tail)
    BY <2>5 DEF Own
  <2>7. ASSUME NEW r \in Producers, Owned(tail, r) PROVE OwnedSlot(tail, r)'
    <3>1. r = p
      BY <2>5, <2>7, OwnedFacts
    <3> QED BY <1>u, <2>4, <2>5, <3>1 DEF OwnedSlot
  <2>8. /\ Layout' /\ Line' /\ Taken' /\ Kept'
        /\ Content(tail)' = Content(tail) /\ Owned(tail, p)'
    BY <1>h, <1>u, <2>1, <2>4, <2>5, <2>6, <2>7, TailWritten
  <2>9. Receiving'
    BY <1>d, <1>u, <2>1, <2>2, <2>4, <2>5, <2>8 DEF Receiving, Holding
  <2> QED BY <2>8, <2>9 DEF Delivery
<1> QED BY <1>1, <1>2, <1>3

\* The next position of the window carries the message on, or starts one.
LEMMA WhatFollows ==
  ASSUME Typed, Reserved, Orderly, Window, Line, NEW t, t = tail + 1, tail < head
  PROVE  /\ t < head => Follows(Content(tail), Content(t))
         /\ ~ (t < head) => LastChunk(Content(tail))
<1>1. head \in Nat /\ tail \in Nat
  BY Facts
<1>2. tail \in tail .. head - 1
  BY <1>1
<1>3. t < head => Follows(Content(tail), Content(t))
  BY <1>2 DEF Line
<1>4. ~ (t < head) => tail = head - 1
  BY <1>1
<1> QED BY <1>3, <1>4 DEF Line

\* The tail passes a dead writer's slot, which nobody committed.
LEMMA TailReclaimed ==
  ASSUME Typed, Reserved, Typed', Reserved', Orderly, Window, Quiet, Delivery, ReclaimTail
  PROVE  Delivery'
<1>d. Layout /\ Line /\ Receiving /\ Taken /\ Kept
  BY DEF Delivery
<1>t. cons.part \in Nat /\ ReceiverOK /\ tail \in Nat /\ head \in Nat
  BY Facts DEF Typed, TypeOK, ReceiverOK
<1>1. cons.pc = "reclaimTail" /\ cons.t = tail /\ cons.ext = 1 /\ cons.part = 0 /\ tail < head
  BY <1>d, <1>t DEF ReclaimTail, ConsAt, Orderly, Receiving, Holding, Window, Passing
<1>2. PICK t : t = tail + 1
  OBVIOUS
<1>3. /\ tail' = t /\ cons'.pc = "second" /\ cons'.part = 0
      /\ UNCHANGED <<scenario, head, slots, alive, pr, sent, got>>
  BY <1>1, <1>2, <1>t DEF ReclaimTail, TailIs, ReceiverOK
<1>4. slots[tail % Cap].state = "FREE"
  BY <1>1, <1>d DEF Receiving
<1>5. /\ Layout' /\ Line'
      /\ t \in Nat /\ \A q \in t .. head - 1 : q \in tail .. head - 1 /\ tail < q
      /\ \A q \in t .. head - 1 : Content(q)' = Content(q) /\ (Own(q)' <=> Own(q))
  BY <1>1, <1>2, <1>3, <1>4, TailPasses
<1>6. Own(tail) /\ LastChunk(Content(tail))
  <2>1. PICK p \in Producers \ alive : Owned(tail, p)
    BY <1>1, <1>d DEF Receiving
  <2>2. scenario.sizes = {1}
    BY KilledAreSingle
  <2>3. tail \in tail .. head - 1
    BY <1>1, <1>t
  <2>4. Genuine(Content(tail))
    BY <1>d, <2>3 DEF Line
  <2> QED BY <2>1, <2>2, <2>4 DEF Own, Genuine, LastChunk
<1>7. Taken'
  <2>1. \A r, m : InSent(r, m)' <=> InSent(r, m)
    BY <1>3 DEF InSent
  <2>2. ASSUME NEW i \in 1 .. Len(got)
        PROVE  /\ got[i][1] \in Producers /\ got[i][2] < pr[got[i][1]].seq
               /\ InSent(got[i][1], got[i][2])
               /\ \A q \in t .. head - 1 : Content(q)'.from = got[i][1] => got[i][2] < Content(q)'.seq
    BY <1>5, <1>d DEF Taken
  <2>3. \A i, j \in 1 .. Len(got) : i < j /\ got[i][1] = got[j][1] => got[i][2] < got[j][2]
    BY <1>d DEF Taken
  <2> QED BY <1>3, <2>1, <2>2, <2>3 DEF Taken
<1>8. Kept'
  <2>1. ASSUME NEW j \in 1 .. Len(sent)
        PROVE  \/ \E i \in 1 .. Len(got) : got[i] = sent[j]
               \/ \E q \in t .. head - 1 :
                    /\ ~Own(q)' /\ LastChunk(Content(q))'
                    /\ Content(q)'.from = sent[j][1] /\ Content(q)'.seq = sent[j][2]
    <3>1. CASE \E i \in 1 .. Len(got) : got[i] = sent[j]
      BY <3>1
    <3>2. CASE ~ \E i \in 1 .. Len(got) : got[i] = sent[j]
      <4>1. PICK q \in tail .. head - 1 :
              /\ ~Own(q) /\ LastChunk(Content(q))
              /\ Content(q).from = sent[j][1] /\ Content(q).seq = sent[j][2]
        BY <1>d, <3>2 DEF Kept
      <4>2. q # tail
        BY <1>6, <4>1
      <4>3. q \in t .. head - 1
        BY <1>2, <1>t, <4>2
      <4> QED BY <1>5, <4>1, <4>3 DEF LastChunk
    <3> QED BY <3>1, <3>2
  <2> QED BY <1>3, <2>1 DEF Kept
<1>9. Receiving'
  <2>1. t < head => Content(t).part = 0 /\ t \in t .. head - 1
    BY <1>1, <1>2, <1>5, <1>6, <1>d, <1>t, WhatFollows DEF Follows
  <2>2. t < head => Content(t)'.part = 0
    BY <1>5, <2>1
  <2> QED BY <1>3, <2>2 DEF Receiving, Holding
<1> QED BY <1>5, <1>7, <1>8, <1>9 DEF Delivery

\* The tail passes a chunk: the last one of a message ends the call with it.
LEMMA ChunkTaken ==
  ASSUME Typed, Reserved, Typed', Reserved', Orderly, Window, Delivery, AdvanceTail
  PROVE  Delivery'
<1>d. Layout /\ Line /\ Receiving /\ Taken /\ Kept
  BY DEF Delivery
<1>t. /\ cons.part \in Nat /\ ReceiverOK /\ tail \in Nat /\ head \in Nat
      /\ got \in Seq((Producers \cup {NoOne}) \X Nat) /\ sent \in Seq(Producers \X Nat)
  BY Facts DEF Typed, TypeOK, ReceiverOK, HistoryOK
<1>1. cons.pc = "advance" /\ cons.t = tail /\ tail < head
  BY DEF AdvanceTail, ConsAt, Orderly, Window, Passing
<1>0. PICK t, f : t = tail + 1 /\ f = cons.frame
  OBVIOUS
<1>2. /\ Verdict = "take" /\ f = Content(tail) /\ Genuine(f) /\ tail \in tail .. head - 1
      /\ f.part = cons.part /\ cons.first.total = f.total
      /\ [cons.first EXCEPT !.part = cons.part] = f
  BY <1>0, <1>1, VerdictIsTake
<1>f. f.from \in Producers /\ f.seq \in Nat /\ f.part \in Nat /\ f.total \in Nat /\ f.part < f.total
  BY <1>2, Fields DEF Genuine
<1>n. ~Own(tail) /\ FullSlot(tail) /\ FrameAt(tail) = f
  <2>1. ~Own(tail)
    BY <1>1, <1>d DEF Receiving, Holding
  <2> QED BY <1>2, <1>d, <2>1, ContentFacts DEF Layout
<1>3. /\ tail' = t /\ UNCHANGED <<scenario, head, slots, alive, pr, sent>>
      /\ \/ LastChunk(f) /\ RecvEnds /\ got' = Append(got, <<f.from, f.seq>>)
         \/ /\ ~LastChunk(f) /\ got' = got
            /\ cons' = [cons EXCEPT !.t = cons.t + 1, !.part = cons.part + 1, !.pc = "gate"]
  <2>1. tail' = t /\ UNCHANGED <<scenario, head, slots, alive, pr, sent>>
    BY <1>0, <1>1, <1>t DEF AdvanceTail, FetchMaxTail
  <2>2. cons.part + 1 >= cons.first.total <=> LastChunk(f)
    BY <1>2, <1>f DEF LastChunk
  <2>3. CASE LastChunk(f)
    BY <1>0, <1>2, <2>1, <2>2, <2>3 DEF AdvanceTail
  <2>4. CASE ~LastChunk(f)
    BY <1>0, <1>2, <2>1, <2>2, <2>4 DEF AdvanceTail
  <2> QED BY <2>3, <2>4
<1>4. slots[tail % Cap].state = "FREE"
  BY <1>1, <1>n DEF FullSlot
<1>5. /\ cons'.pc \in {"idle", "gate"} /\ cons'.part = IF LastChunk(f) THEN 0 ELSE cons.part + 1
      /\ ~LastChunk(f) => cons'.pc = "gate" /\ cons'.first = cons.first
  <2>1. CASE LastChunk(f)
    BY <1>3, <2>1 DEF RecvEnds, Receiver
  <2>2. CASE ~LastChunk(f)
    BY <1>3, <1>t, <2>2 DEF ReceiverOK
  <2> QED BY <2>1, <2>2
<1>6. /\ Layout' /\ Line'
      /\ t \in Nat /\ \A q \in t .. head - 1 : q \in tail .. head - 1 /\ tail < q
      /\ \A q \in t .. head - 1 : Content(q)' = Content(q) /\ (Own(q)' <=> Own(q))
  BY <1>0, <1>1, <1>3, <1>4, <1>5, TailPasses
<1>7. /\ t < head => Follows(f, Content(t)) /\ t \in t .. head - 1
      /\ ~ (t < head) => LastChunk(f)
  <2>1. t < head => t \in t .. head - 1
    BY <1>6, <1>t
  <2> QED BY <1>0, <1>1, <1>2, <1>d, <2>1, WhatFollows
<1>8. Receiving'
  <2>1. CASE LastChunk(f)
    <3>1. t < head => Content(t)'.part = 0
      BY <1>6, <1>7, <2>1 DEF Follows
    <3>2. cons'.pc = "idle" /\ cons'.part = 0
      BY <1>3, <2>1 DEF RecvEnds, Receiver
    <3> QED BY <1>3, <3>1, <3>2 DEF Receiving, Holding
  <2>2. CASE ~LastChunk(f)
    <3>1. t < head /\ Content(t)' = [f EXCEPT !.part = f.part + 1]
      BY <1>6, <1>7, <2>2 DEF Follows
    <3>2. Content(t)' = [cons.first EXCEPT !.part = cons.part + 1]
      <4>1. cons.first \in Frames
        BY <1>t DEF ReceiverOK
      <4> QED BY <1>2, <3>1, <4>1 DEF Frames
    <3>3. cons'.pc = "gate" /\ cons'.part = cons.part + 1 /\ cons'.first = cons.first
      BY <1>5, <2>2
    <3>4. cons.part + 1 > 0
      BY <1>t
    <3>5. Content(t)' = [cons'.first EXCEPT !.part = cons'.part]
      BY <3>2, <3>3
    <3>6. /\ cons'.part > 0 /\ cons'.part # 0 /\ cons'.pc \notin {"copy", "reclaimFree", "reclaimTail"}
          /\ cons'.pc \notin {"pin", "check", "release", "advance"}
      BY <1>t, <3>3, <3>4 DEF ReceiverOK
    <3>7. tail' = t /\ head' = head
      BY <1>3
    <3> QED BY <3>1, <3>3, <3>5, <3>6, <3>7 DEF Receiving, Holding
  <2> QED BY <2>1, <2>2
<1>s. \A r, m : InSent(r, m)' <=> InSent(r, m)
  BY <1>3 DEF InSent
<1>g. ASSUME NEW i \in 1 .. Len(got)
      PROVE  /\ got[i][1] \in Producers /\ got[i][2] < pr[got[i][1]].seq
             /\ InSent(got[i][1], got[i][2])
             /\ got[i][1] = f.from => got[i][2] < f.seq
             /\ \A q \in t .. head - 1 : Content(q)'.from = got[i][1] => got[i][2] < Content(q)'.seq
  BY <1>2, <1>6, <1>d DEF Taken
<1>9. CASE ~LastChunk(f)
  <2>1. got' = got
    BY <1>3, <1>9
  <2>2. Taken'
    <3>1. \A i, j \in 1 .. Len(got) : i < j /\ got[i][1] = got[j][1] => got[i][2] < got[j][2]
      BY <1>d DEF Taken
    <3> QED BY <1>3, <1>g, <1>s, <2>1, <3>1 DEF Taken
  <2>3. ASSUME NEW j \in 1 .. Len(sent)
        PROVE  \/ \E i \in 1 .. Len(got) : got[i] = sent[j]
               \/ \E q \in t .. head - 1 :
                    /\ ~Own(q)' /\ LastChunk(Content(q))'
                    /\ Content(q)'.from = sent[j][1] /\ Content(q)'.seq = sent[j][2]
    <3>1. CASE \E i \in 1 .. Len(got) : got[i] = sent[j]
      BY <3>1
    <3>2. CASE ~ \E i \in 1 .. Len(got) : got[i] = sent[j]
      <4>1. PICK q \in tail .. head - 1 :
              /\ ~Own(q) /\ LastChunk(Content(q))
              /\ Content(q).from = sent[j][1] /\ Content(q).seq = sent[j][2]
        BY <1>d, <3>2 DEF Kept
      <4>2. q # tail
        BY <1>2, <1>9, <4>1
      <4>3. q \in t .. head - 1
        BY <1>0, <1>t, <4>2
      <4> QED BY <1>6, <4>1, <4>3 DEF LastChunk
    <3> QED BY <3>1, <3>2
  <2>4. Kept'
    BY <1>3, <2>1, <2>3 DEF Kept
  <2> QED BY <1>6, <1>8, <2>2, <2>4 DEF Delivery
<1>10. CASE LastChunk(f)
  <2>0. PICK n : n = Len(got) + 1
    OBVIOUS
  <2>1. /\ got' = Append(got, <<f.from, f.seq>>) /\ Len(got) \in Nat /\ n \in Nat
        /\ Len(got') = n /\ got'[n] = <<f.from, f.seq>>
        /\ \A i \in 1 .. Len(got) : got'[i] = got[i]
        /\ \A i \in 1 .. n : i \in 1 .. Len(got) \/ i = n
    <3>1. got' = Append(got, <<f.from, f.seq>>) /\ <<f.from, f.seq>> \in (Producers \cup {NoOne}) \X Nat
      BY <1>3, <1>10, <1>f
    <3>2. Len(got') = Len(got) + 1 /\ got'[Len(got) + 1] = <<f.from, f.seq>> /\ Len(got) \in Nat
          /\ \A i \in 1 .. Len(got) : got'[i] = got[i]
      BY <1>t, <3>1
    <3> QED BY <2>0, <3>1, <3>2
  <2>2. got'[n][1] = f.from /\ got'[n][2] = f.seq
    BY <2>1
  <2>3. InSent(f.from, f.seq) /\ f.seq < pr[f.from].seq
    BY <1>10, <1>2, <1>n DEF FullSlot, Genuine
  <2>4. ASSUME NEW q \in t .. head - 1, Content(q)'.from = f.from PROVE f.seq < Content(q)'.seq
    <3>1. q \in tail .. head - 1 /\ tail < q /\ Content(q)' = Content(q)
      BY <1>6
    <3>2. Before(f, Content(q))
      BY <1>2, <1>d, <2>4, <3>1 DEF Line
    <3>3. Genuine(Content(q))
      BY <1>d, <3>1 DEF Line
    <3>4. ~ (f.total = Content(q).total /\ f.part < Content(q).part)
      <4>1. /\ Content(q).part \in Nat /\ Content(q).total \in Nat
            /\ Content(q).part < Content(q).total /\ f.part + 1 = f.total
        BY <1>10, <3>3, Fields DEF Genuine, LastChunk
      <4> QED BY <1>f, <4>1
    <3> QED BY <3>1, <3>2, <3>4 DEF Before
  <2>5. ASSUME NEW i \in 1 .. n
        PROVE  /\ got'[i][1] \in Producers /\ got'[i][2] < pr[got'[i][1]].seq
               /\ InSent(got'[i][1], got'[i][2])
               /\ \A q \in t .. head - 1 : Content(q)'.from = got'[i][1] => got'[i][2] < Content(q)'.seq
    <3>1. CASE i \in 1 .. Len(got)
      BY <1>g, <2>1, <3>1
    <3>2. CASE i = n
      BY <1>f, <2>2, <2>3, <2>4, <3>2
    <3> QED BY <2>1, <3>1, <3>2
  <2>6. ASSUME NEW i \in 1 .. n, NEW j \in 1 .. n, i < j, got'[i][1] = got'[j][1]
        PROVE  got'[i][2] < got'[j][2]
    <3>1. i \in 1 .. Len(got)
      BY <2>0, <2>1, <2>6
    <3>2. CASE j \in 1 .. Len(got)
      BY <1>d, <2>1, <2>6, <3>1, <3>2 DEF Taken
    <3>3. CASE j = n
      BY <1>g, <2>1, <2>2, <2>6, <3>1, <3>3
    <3> QED BY <2>1, <3>2, <3>3
  <2>7. Taken'
    BY <1>3, <1>s, <2>1, <2>5, <2>6 DEF Taken
  <2>8. ASSUME NEW j \in 1 .. Len(sent)
        PROVE  \/ \E i \in 1 .. n : got'[i] = sent[j]
               \/ \E q \in t .. head - 1 :
                    /\ ~Own(q)' /\ LastChunk(Content(q))'
                    /\ Content(q)'.from = sent[j][1] /\ Content(q)'.seq = sent[j][2]
    <3>1. CASE \E i \in 1 .. Len(got) : got[i] = sent[j]
      <4>1. PICK i \in 1 .. Len(got) : got[i] = sent[j]
        BY <3>1
      <4>2. i \in 1 .. n /\ got'[i] = sent[j]
        BY <2>0, <2>1, <4>1
      <4> QED BY <4>2
    <3>2. CASE ~ \E i \in 1 .. Len(got) : got[i] = sent[j]
      <4>1. PICK q \in tail .. head - 1 :
              /\ ~Own(q) /\ LastChunk(Content(q))
              /\ Content(q).from = sent[j][1] /\ Content(q).seq = sent[j][2]
        BY <1>d, <3>2 DEF Kept
      <4>2. CASE q = tail
        <5>1. sent[j] \in Producers \X Nat
          BY <1>t
        <5>2. sent[j] = <<f.from, f.seq>>
          BY <1>2, <4>1, <4>2, <5>1
        <5>3. n \in 1 .. n
          BY <2>0, <2>1
        <5> QED BY <2>1, <5>2, <5>3
      <4>3. CASE q # tail
        <5>1. q \in t .. head - 1
          BY <1>0, <1>t, <4>3
        <5> QED BY <1>6, <4>1, <5>1 DEF LastChunk
      <4> QED BY <4>2, <4>3
    <3> QED BY <3>1, <3>2
  <2>9. Kept'
    BY <1>3, <2>1, <2>8 DEF Kept
  <2> QED BY <1>6, <1>8, <2>7, <2>9 DEF Delivery
<1> QED BY <1>9, <1>10


\* A step of a handle.
LEMMA SendingDelivers ==
  ASSUME Typed, Reserved, Typed', Reserved', Orderly, Window, Quiet, Delivery,
         NEW p \in Producers, Sending(p)
  PROVE  Delivery'
<1>f. /\ pr \in [Producers -> Record] /\ slots \in Slots /\ p \in alive /\ pr[p] \in Record
      /\ \A q \in Producers : q # p => pr'[q] = pr[q]
  BY Fields, OthersKept, HandleTyped DEF Typed, TypeOK, RegionOK
<1>d. pr[p].op # "drop" /\ pr[p].pc \notin Dropping
  BY DEF Orderly
<1>k. ASSUME UNCHANGED <<scenario, head, tail, slots, alive, cons, sent, got>>,
             pr[p].pc \notin Writing, pr'[p].pc \notin Writing, pr'[p].seq = pr[p].seq
      PROVE  Delivery'
  BY <1>f, <1>k, Waits DEF SameHold, Writing
<1>e. ASSUME UNCHANGED <<scenario, head, tail, slots, alive, cons, sent, got>>,
             pr[p].pc \notin Writing, SendEnds(p)
      PROVE  Delivery'
  <2>1. pr'[p].pc = "idle" /\ pr'[p].seq = pr[p].seq
    BY <1>f, <1>e DEF SendEnds, Handle
  <2> QED BY <1>e, <1>k, <2>1 DEF Writing
<1>1. ASSUME NEW n \in scenario.sizes, SendBegin(p, n) PROVE Delivery'
  <2>1. /\ pr[p].pc = "idle" /\ pr'[p].pc = "head" /\ pr'[p].seq = pr[p].seq
        /\ UNCHANGED <<scenario, head, tail, slots, alive, cons, sent, got>>
    BY <1>f, <1>1 DEF SendBegin, At, Record
  <2> QED BY <1>k, <2>1 DEF Writing
<1>2. CASE LoadHead(p)
  <2>1. /\ pr[p].pc = "head" /\ pr'[p].pc = "tail" /\ pr'[p].seq = pr[p].seq
        /\ UNCHANGED <<scenario, head, tail, slots, alive, cons, sent, got>>
    BY <1>f, <1>2 DEF LoadHead, At, Record
  <2> QED BY <1>k, <2>1 DEF Writing
<1>3. CASE LoadTail(p)
  <2> DEFINE next == AfterRefresh(p, pr[p].h, tail)
  <2>1. pr[p].pc = "tail" /\ pr[p].op \in {"reserve", "wait"}
    <3>1. pr[p].pc = "tail"
      BY <1>3 DEF LoadTail, At
    <3> QED BY <1>d, <1>f, <3>1 DEF Typed, Record
  <2>2. next.pc \in {"idle", "head", "cas"}
    <3>1. Refused.pc \in {"idle", "head"}
      BY DEF Refused
    <3> QED BY <2>1, <3>1 DEF AfterRefresh
  <2>3. UNCHANGED <<scenario, head, tail, slots, alive, cons, sent, got>>
    BY <1>3 DEF LoadTail
  <2> HIDE DEF next
  <2>4. CASE next.pc = "idle"
    BY <1>3, <1>e, <2>1, <2>3, <2>4 DEF LoadTail, Writing, next
  <2>5. CASE next.pc # "idle"
    <3>1. pr'[p].pc = next.pc /\ pr'[p].seq = pr[p].seq
      BY <1>f, <1>3, <2>5 DEF LoadTail, next, Record
    <3> QED BY <1>k, <2>1, <2>2, <2>3, <3>1 DEF Writing
  <2> QED BY <2>4, <2>5
<1>4. CASE WaitExpires(p)
  BY <1>4, <1>e DEF WaitExpires, At, Writing
<1>5. CASE Reserve(p)
  <2>1. CASE HeadIs(p)
    BY <1>f, <1>5, <2>1, Reserves
  <2>2. CASE ~HeadIs(p)
    <3>1. /\ pr[p].pc = "cas" /\ pr'[p].pc = "head" /\ pr'[p].seq = pr[p].seq
          /\ UNCHANGED <<scenario, head, tail, slots, alive, cons, sent, got>>
      BY <1>f, <1>5, <2>2 DEF Reserve, At, Refresh, Record
    <3> QED BY <1>k, <3>1 DEF Writing
  <2> QED BY <2>1, <2>2
\* Goto within the reservation.
<1>g. ASSUME NEW to \in Writing, Goto(p, to), pr[p].pc \in Writing
      PROVE  pr'[p].pc = to /\ SameHold(p) /\ Position(p)' = Position(p)
             /\ ChunkAt(p, Position(p))' = ChunkAt(p, Position(p))
  <2>1. /\ pr'[p].pc = to /\ pr'[p].seq = pr[p].seq /\ pr'[p].start = pr[p].start
        /\ pr'[p].need = pr[p].need /\ pr'[p].done = pr[p].done
    BY <1>f, <1>g DEF Goto, Record
  <2> QED BY <1>g, <2>1 DEF SameHold, Position, ChunkAt, Seq0
<1>w. ASSUME pr[p].pc \in Writing
      PROVE  /\ OwnedSlot(Position(p), p) /\ Position(p) % Cap = WriteIdx(p)
             /\ WriteIdx(p) \in 0 .. Cap - 1 /\ Seq0(p) \in Nat /\ pr[p].need \in Nat
             /\ Position(p) - pr[p].start = pr[p].done
             /\ slots[WriteIdx(p)].state \in {"FREE", "WRITING"}
             /\ slots[WriteIdx(p)].owner \in {p, NoOne}
  <2>1. /\ Position(p) \in tail .. head - 1 /\ Owned(Position(p), p)
        /\ WriteIdx(p) = Position(p) % Cap /\ WriteIdx(p) \in 0 .. Cap - 1
        /\ Position(p) - pr[p].start = pr[p].done
    BY <1>f, <1>w, OwnPosition
  <2>2. OwnedSlot(Position(p), p)
    BY <1>f, <2>1 DEF Delivery, Layout
  <2>3. Seq0(p) \in Nat /\ pr[p].need \in Nat
    BY <1>w, HandleTyped, RecordFields
  <2> QED BY <2>1, <2>2, <2>3 DEF OwnedSlot
<1>6. CASE ClaimSlot(p)
  <2>1. /\ pr[p].pc = "claim" /\ Goto(p, "mark")
        /\ UNCHANGED <<scenario, head, tail, slots, alive, cons, sent, got>>
    BY <1>6 DEF ClaimSlot, At
  <2>2. pr'[p].pc = "mark" /\ SameHold(p)
    BY <1>g, <2>1 DEF Writing
  <2> QED BY <1>f, <2>1, <2>2, Waits
<1>7. ~ClaimExpires(p)
  <2>1. SUFFICES ASSUME ClaimExpires(p) PROVE FALSE
    OBVIOUS
  <2>2. pr[p].pc = "claim" /\ pr[p].pc \in Writing /\ slots[WriteIdx(p)].state # "FREE"
    BY <2>1 DEF ClaimExpires, At, Writing
  <2> QED BY <1>w, <2>2 DEF OwnedSlot
<1>8. CASE MarkSlot(p)
  <2>1. /\ pr[p].pc \in Writing /\ "stamp" \in Writing /\ Goto(p, "stamp")
        /\ UNCHANGED <<scenario, head, tail, alive, cons, sent, got>>
    BY <1>8 DEF MarkSlot, At, Writing
  <2>2. /\ slots'[WriteIdx(p)].state = "WRITING" /\ slots'[WriteIdx(p)].owner = NoOne
        /\ \A j \in 0 .. Cap - 1 : j # WriteIdx(p) => slots'[j] = slots[j]
    BY <1>8, <1>f, <1>w, <2>1, FieldsWritten DEF MarkSlot
  <2> QED BY <1>f, <1>g, <2>1, <2>2, Writes
<1>9. CASE StampSlot(p)
  <2>1. /\ pr[p].pc = "stamp" /\ pr[p].pc \in Writing /\ "fill" \in Writing /\ Goto(p, "fill")
        /\ UNCHANGED <<scenario, head, tail, alive, cons, sent, got>>
    BY <1>9 DEF StampSlot, At, Writing
  <2>2. /\ slots'[WriteIdx(p)].state = slots[WriteIdx(p)].state /\ slots'[WriteIdx(p)].owner = p
        /\ \A j \in 0 .. Cap - 1 : j # WriteIdx(p) => slots'[j] = slots[j]
    BY <1>9, <1>f, <1>w, <2>1, IdentityPublished DEF StampSlot
  <2> QED BY <1>f, <1>g, <1>w, <2>1, <2>2, Writes
<1>10. CASE FillSlot(p)
  <2>1. /\ pr[p].pc = "fill" /\ pr[p].pc \in Writing /\ "commit" \in Writing /\ Goto(p, "commit")
        /\ UNCHANGED <<scenario, head, tail, alive, cons, sent, got>>
    BY <1>10 DEF FillSlot, At, Writing
  <2>2. /\ slots'[WriteIdx(p)].state = slots[WriteIdx(p)].state
        /\ slots'[WriteIdx(p)].owner = slots[WriteIdx(p)].owner
        /\ slots'[WriteIdx(p)].frame = ChunkAt(p, Position(p))
        /\ \A j \in 0 .. Cap - 1 : j # WriteIdx(p) => slots'[j] = slots[j]
    BY <1>10, <1>f, <1>w, <2>1 DEF FillSlot, ChunkAt, Slots
  <2> QED BY <1>f, <1>g, <1>w, <2>1, <2>2, Writes
<1>11. CASE CommitSlot(p)
  BY <1>f, <1>11, Commits
<1>12. ~ (DropGate(p) \/ DropLook(p) \/ DropTail(p) \/ DropFree(p) \/ DropVerify(p)
          \/ DropExpires(p) \/ DropReclaimFree(p) \/ DropReclaimTail(p))
  BY <1>d DEF DropGate, DropLook, DropTail, DropFree, DropVerify, DropExpires, DropReclaimFree,
    DropReclaimTail, At, Dropping
<1> QED BY <1>1, <1>2, <1>3, <1>4, <1>5, <1>6, <1>7, <1>8, <1>9, <1>10, <1>11, <1>12
  DEF Sending, ProducerStep

LEMMA DeliveryInit == Init => Delivery
<1> SUFFICES ASSUME Init PROVE Delivery
  OBVIOUS
<1>1. /\ head = 0 /\ tail = 0 /\ cons = Receiver /\ sent = <<>> /\ got = <<>>
      /\ \A i \in 0 .. Cap - 1 : slots[i] = FreeSlot
  BY DEF Init
<1>2. \A q \in head .. tail + Cap - 1 : slots[q % Cap].state = "FREE"
  <2>1. \A q \in head .. tail + Cap - 1 : q \in Nat
    BY <1>1, CapAssumption
  <2>2. \A q \in Nat : q % Cap \in 0 .. Cap - 1
    BY TypedInit, PositionsHaveSlots DEF Typed
  <2> QED BY <1>1, <2>1, <2>2 DEF FreeSlot
<1>3. tail .. head - 1 = {} /\ ~ (tail < head)
  BY <1>1
<1>4. Layout /\ Line
  BY <1>2, <1>3 DEF Layout, Line
<1>5. Receiving
  BY <1>1, <1>3 DEF Receiving, Receiver, Holding
<1>6. Len(sent) = 0 /\ Len(got) = 0
  BY <1>1
<1>7. Taken /\ Kept
  BY <1>6 DEF Taken, Kept
<1> QED BY <1>4, <1>5, <1>7 DEF Delivery

LEMMA DeliveryNext == IInv /\ (Quiet => Delivery) /\ [Next]_vars => (Quiet => Delivery)'
<1> SUFFICES ASSUME IInv, Quiet => Delivery, [Next]_vars, Quiet' PROVE Delivery'
  OBVIOUS
<1>1. Typed /\ Reserved /\ Typed' /\ Reserved'
  BY IInvNext DEF IInv
<1>2. Quiet
  <2>1. scenario' = scenario
    <3>1. ASSUME NEW p \in Producers, Sending(p) PROVE scenario' = scenario
      BY <1>1, <3>1, OthersKept
    <3> QED BY <3>1 DEF Next, Sending, Die, ConsumerStep, RecvBegin, SecondLook, Gate, Verify,
          ReclaimFree, ReclaimTail, CopyPayload, PinSlot, CheckPinned, FreeTail, AdvanceTail, vars
  <2> QED BY <2>1 DEF Quiet, Lossless, Calm
<1>3. Orderly /\ Window /\ Delivery
  BY <1>2 DEF IInv
<1>4. ASSUME NEW p \in Producers, Sending(p) PROVE Delivery'
  BY <1>1, <1>2, <1>3, <1>4, SendingDelivers
<1>5. ASSUME NEW p \in Producers, Die(p) PROVE Delivery'
  BY <1>1, <1>3, <1>5, Dies
<1>6. CASE ConsumerStep
  BY <1>1, <1>2, <1>3, <1>6, ReceiverLooks, ReceiverWrites, TailReclaimed, ChunkTaken DEF ConsumerStep
<1>7. CASE UNCHANGED vars
  <2>1. UNCHANGED <<scenario, head, tail, slots, alive, pr, cons, sent, got>>
    BY <1>7 DEF vars
  <2>2. (\A q, p : Owned(q, p)' <=> Owned(q, p)) /\ (\A q, p : ChunkAt(p, q)' = ChunkAt(p, q))
    BY <2>1 DEF Owned, Position, ChunkAt, Seq0
  <2>3. \A q : Own(q)' <=> Own(q)
    BY <2>2 DEF Own
  <2>4. \A q : FrameAt(q)' = FrameAt(q)
    BY <2>1 DEF FrameAt
  <2>5. \A q : Content(q)' = Content(q)
    BY <2>2, <2>3, <2>4, ContentKept, <1>1
  <2>6. Layout'
    <3>1. Layout
      BY <1>3 DEF Delivery
    <3>2. \A q, p : OwnedSlot(q, p)' <=> OwnedSlot(q, p)
      BY <2>1, <2>2 DEF OwnedSlot, Position
    <3>3. \A q : FullSlot(q)' <=> FullSlot(q)
      BY <2>1, <2>4 DEF FullSlot, InSent, LastChunk
    <3> QED BY <2>1, <2>2, <2>3, <3>1, <3>2, <3>3 DEF Layout
  <2>7. Line'
    BY <1>3, <2>1, <2>5 DEF Delivery, Line, Genuine, Before, Follows, LastChunk
  <2>8. Receiving'
    BY <1>3, <2>1, <2>2, <2>3, <2>5 DEF Delivery, Receiving
  <2>9. Taken' /\ Kept'
    BY <1>3, <2>1, <2>3, <2>5 DEF Delivery, Taken, Kept, InSent, LastChunk
  <2> QED BY <2>6, <2>7, <2>8, <2>9 DEF Delivery
<1> QED BY <1>4, <1>5, <1>6, <1>7 DEF Next, Sending

-----------------------------------------------------------------------------
(* Messages of one slot                                                    *)

\* A message that a handle has written to its slot.
Filled(p, s) ==
  /\ p \in Producers /\ s < pr[p].seq
  /\ pr[p].pc \in Writing /\ s + 1 = pr[p].seq => pr[p].pc = "commit"

\* The places where a message can be: a slot, the consumer's copy, the
\* application.
Is(f, p, s)     == f.total = 1 /\ f.from = p /\ f.seq = s
InSlot(i, p, s) == Is(slots[i].frame, p, s)
InHand(p, s)    == cons.pc \in Holding /\ Is(cons.frame, p, s)
InGot(n, p, s)  == got[n][1] = p /\ got[n][2] = s

\* It is in one place, but for the copy of the tail slot that the consumer
\* makes before it releases the slot.
Sole(p, s) ==
  /\ \/ \E i \in 0 .. Cap - 1 : InSlot(i, p, s)
     \/ InHand(p, s)
     \/ \E n \in 1 .. Len(got) : InGot(n, p, s)
     => Filled(p, s)
  /\ \A i, j \in 0 .. Cap - 1 : InSlot(i, p, s) /\ InSlot(j, p, s) => i = j
  /\ \A i \in 0 .. Cap - 1 : InHand(p, s) /\ InSlot(i, p, s) => i = TailIdx /\ cons.pc # "advance"
  /\ \A n \in 1 .. Len(got) :
       InGot(n, p, s) => ~InHand(p, s) /\ \A i \in 0 .. Cap - 1 : ~InSlot(i, p, s)
  /\ \A m, n \in 1 .. Len(got) : InGot(m, p, s) /\ InGot(n, p, s) => m = n

Single ==
  /\ \A i \in 0 .. Cap - 1 : slots[i].frame.total \in {0, 1}
  /\ cons.frame.total \in {0, 1} /\ cons.part = 0
  /\ cons.pc \in Holding \ {"pin"} => cons.first = cons.frame
Once == Single /\ \A p \in Producers \cup {NoOne}, s \in Nat : Sole(p, s)

\* A handle that adds no written message but a new one.
HandleStep(p) ==
  \/ /\ pr'[p].seq = pr[p].seq
     /\ pr'[p].pc \in Writing => pr[p].pc \in Writing \ {"commit"}
  \/ pr'[p].seq = pr[p].seq + 1

LEMMA FilledKept ==
  ASSUME Typed, NEW p \in Producers, HandleStep(p), \A q \in Producers : q # p => pr'[q] = pr[q],
         NEW r, NEW s \in Nat, Filled(r, s)
  PROVE  Filled(r, s)'
<1>1. r \in Producers /\ s < pr[r].seq /\ pr[r].seq \in Nat
  BY HandleTyped, RecordFields DEF Filled
<1>2. CASE r # p
  BY <1>1, <1>2 DEF Filled
<1>3. CASE r = p /\ pr'[p].seq = pr[p].seq + 1
  <2>1. PICK n : n = pr[p].seq + 1
    OBVIOUS
  <2>2. s < n /\ s + 1 # n
    BY <1>1, <1>3, <2>1
  <2> QED BY <1>1, <1>3, <2>1, <2>2 DEF Filled
<1>4. CASE r = p /\ pr'[p].seq = pr[p].seq /\ (pr'[p].pc \in Writing => pr[p].pc \in Writing \ {"commit"})
  BY <1>1, <1>4 DEF Filled
<1> QED BY <1>2, <1>3, <1>4 DEF HandleStep

\* The steps of a handle that write no payload.
LEMMA NothingWritten ==
  ASSUME Typed, Reserved, scenario.sizes = {1}, NEW p \in Producers, Sending(p), ~FillSlot(p)
  PROVE  /\ HandleStep(p) /\ got' = got
         /\ \A i \in 0 .. Cap - 1 : \/ slots'[i].frame = slots[i].frame
                                    \/ slots'[i].frame.total = 0
<1>f. /\ pr \in [Producers -> Record] /\ slots \in Slots /\ pr[p] \in Record
      /\ slots \in [0 .. Cap - 1 -> [state : SlotState, seq : Nat, owner : Producers \cup {NoOne},
                                     reserved : Nat, frame : Frames]]
  BY Fields, HandleTyped DEF Slots
<1>d. ASSUME NEW i, ReleaseHeader(i), NEW j \in 0 .. Cap - 1
      PROVE  slots'[j].frame = slots[j].frame \/ slots'[j].frame.total = 0
  BY <1>f, <1>d DEF ReleaseHeader, FreeSlot, Cleared
<1>h. ASSUME NEW i, NEW st, NEW seq, NEW j \in 0 .. Cap - 1,
             WriteHeader(i, st, seq) \/ WriteFields(i, st, seq) \/ PublishIdentity(i, st)
      PROVE  slots'[j].frame = slots[j].frame
  <2>1. (i = j \/ i # j) /\ slots[j] \in [state : SlotState, seq : Nat,
          owner : Producers \cup {NoOne}, reserved : Nat, frame : Frames]
    BY <1>f
  <2>2. CASE WriteHeader(i, st, seq)
    BY <1>f, <2>1, <2>2 DEF WriteHeader
  <2>3. CASE WriteFields(i, st, seq)
    BY <1>f, <2>1, <2>3 DEF WriteFields
  <2>4. CASE PublishIdentity(i, st)
    BY <1>f, <2>1, <2>4 DEF PublishIdentity
  <2> QED BY <1>h, <2>2, <2>3, <2>4
<1>e. ASSUME SendEnds(p) PROVE HandleStep(p)
  <2>1. pr'[p].pc = "idle" /\ pr'[p].seq = pr[p].seq
    BY <1>f, <1>e DEF SendEnds, Handle
  <2> QED BY <2>1 DEF HandleStep, Writing
<1>o. ASSUME pr'[p].seq = pr[p].seq, pr'[p].pc \notin Writing PROVE HandleStep(p)
  BY <1>o DEF HandleStep
<1>r. ASSUME NEW op, Refresh(p, op) PROVE HandleStep(p)
  BY <1>f, <1>o, <1>r DEF Refresh, Writing, Record
<1>g. ASSUME NEW to, Goto(p, to), to \in Writing => pr[p].pc \in Writing \ {"commit"}
      PROVE  HandleStep(p)
  BY <1>f, <1>g DEF Goto, HandleStep, Record
<1>t. ASSUME NEW t, DropReturns(p, t) PROVE HandleStep(p)
  BY <1>f, <1>o, <1>t DEF DropReturns, Writing, Record
<1>1. ASSUME NEW n \in scenario.sizes, SendBegin(p, n) PROVE HandleStep(p) /\ UNCHANGED <<slots, got>>
  BY <1>f, <1>1, <1>o DEF SendBegin, Writing, Record
<1>2. CASE LoadHead(p)
  BY <1>f, <1>2, <1>o DEF LoadHead, Writing, Record
<1>3. CASE LoadTail(p)
  <2> DEFINE next == AfterRefresh(p, pr[p].h, tail)
  <2>1. pr[p].pc = "tail" /\ pr[p].op \in {"reserve", "wait", "drop"}
    <3>1. pr[p].pc = "tail"
      BY <1>3 DEF LoadTail, At
    <3> QED BY <1>f, <3>1 DEF Typed, Record
  <2>2. next.pc \in {"idle", "head", "cas", "gate"}
    <3>1. Refused.pc \in {"idle", "head"}
      BY DEF Refused
    <3> QED BY <2>1, <3>1 DEF AfterRefresh
  <2>3. UNCHANGED <<slots, got>>
    BY <1>3 DEF LoadTail
  <2> HIDE DEF next
  <2>4. CASE next.pc = "idle"
    BY <1>3, <1>e, <2>3, <2>4 DEF LoadTail, next
  <2>5. CASE next.pc # "idle"
    <3>1. pr'[p].pc = next.pc /\ pr'[p].seq = pr[p].seq
      BY <1>f, <1>3, <2>5 DEF LoadTail, next, Record
    <3> QED BY <1>o, <2>2, <2>3, <3>1 DEF Writing
  <2> QED BY <2>4, <2>5
<1>4. CASE WaitExpires(p) \/ ClaimExpires(p) \/ DropExpires(p)
  BY <1>4, <1>e DEF WaitExpires, ClaimExpires, DropExpires
<1>5. CASE Reserve(p)
  <2>1. CASE HeadIs(p)
    <3>1. pr'[p].seq = pr[p].seq + 1 /\ UNCHANGED <<slots, got>>
      BY <1>f, <1>5, <2>1 DEF Reserve, Record
    <3> QED BY <3>1 DEF HandleStep
  <2>2. CASE ~HeadIs(p)
    BY <1>5, <1>r, <2>2 DEF Reserve
  <2> QED BY <2>1, <2>2
<1>6. CASE ClaimSlot(p)
  BY <1>6, <1>g DEF ClaimSlot, At, Writing
<1>7. CASE MarkSlot(p) \/ StampSlot(p)
  <2>1. HandleStep(p) /\ got' = got
    BY <1>7, <1>g DEF MarkSlot, StampSlot, At, Writing
  <2> QED BY <1>7, <1>h, <2>1 DEF MarkSlot, StampSlot
<1>8. CASE CommitSlot(p)
  <2>1. pr[p].need = 1 /\ pr[p].done = 0
    <3>1. pr[p].pc \in Writing /\ pr[p].pc # "idle" /\ pr[p].done \in Nat /\ pr[p].need \in Nat
      BY <1>8, Fields DEF CommitSlot, At, Writing
    <3>2. pr[p].need = 1 /\ pr[p].done < pr[p].need
      BY <3>1 DEF Reserved
    <3> QED BY <3>1, <3>2
  <2>2. SendEnds(p) /\ got' = got
    BY <1>8, <2>1 DEF CommitSlot
  <2> QED BY <1>8, <1>e, <1>h, <2>2 DEF CommitSlot
<1>9. CASE DropGate(p)
  BY <1>9, <1>g DEF DropGate, Writing
<1>10. CASE DropLook(p)
  <2>1. CASE pr' = [pr EXCEPT ![p].pc = "dropTail", ![p].left = slots[pr[p].t % Cap].frame.total]
    BY <1>f, <1>10, <1>o, <2>1 DEF DropLook, Writing, Record
  <2>2. CASE SendEnds(p) \/ Refresh(p, "drop")
    BY <1>10, <1>e, <1>r, <2>2 DEF DropLook
  <2> QED BY <1>10, <2>1, <2>2 DEF DropLook
<1>11. CASE DropTail(p)
  <2>1. UNCHANGED <<slots, got>> /\ (Goto(p, "dropFree") \/ DropReturns(p, pr[p].t))
    BY <1>11 DEF DropTail
  <2> QED BY <1>g, <1>t, <2>1 DEF Writing
<1>12. CASE DropFree(p)
  <2>1. /\ ReleaseHeader(pr[p].t % Cap) /\ got' = got /\ pr[p].pc = "dropFree"
        /\ \/ pr' = [pr EXCEPT ![p].t = pr[p].t + 1, ![p].left = pr[p].left - 1]
           \/ DropReturns(p, pr[p].t + 1)
    BY <1>12 DEF DropFree, At
  <2>2. HandleStep(p)
    <3>1. CASE pr' = [pr EXCEPT ![p].t = pr[p].t + 1, ![p].left = pr[p].left - 1]
      BY <1>f, <1>o, <2>1, <3>1 DEF Writing, Record
    <3> QED BY <1>t, <2>1, <3>1
  <2> QED BY <1>d, <2>1, <2>2
<1>13. CASE DropVerify(p)
  <2> DEFINE n == Extent(pr[p].h, pr[p].t)
  <2> HIDE DEF n
  <2>1. /\ \/ pr' = [pr EXCEPT ![p].pc = "reclaimFree", ![p].left = n, ![p].ext = n]
           \/ Refresh(p, "drop")
        /\ UNCHANGED <<slots, got>>
    BY <1>13 DEF DropVerify, n
  <2> QED BY <1>f, <1>o, <1>r, <2>1 DEF Writing, Record
<1>14. CASE DropReclaimFree(p)
  <2> DEFINE to == IF pr[p].left > 1 THEN "reclaimFree" ELSE "reclaimTail"
             i  == (pr[p].t + pr[p].ext - pr[p].left) % Cap
  <2>1. /\ pr' = [pr EXCEPT ![p].left = pr[p].left - 1, ![p].pc = to] /\ ReleaseHeader(i)
        /\ got' = got /\ to \in {"reclaimFree", "reclaimTail"}
    BY <1>14 DEF DropReclaimFree, At
  <2> HIDE DEF to, i
  <2>2. HandleStep(p)
    BY <1>f, <1>o, <2>1 DEF Writing, Record
  <2> QED BY <1>d, <2>1, <2>2
<1>15. CASE DropReclaimTail(p)
  BY <1>15, <1>r DEF DropReclaimTail
<1> QED BY <1>1, <1>2, <1>3, <1>4, <1>5, <1>6, <1>7, <1>8, <1>9, <1>10, <1>11, <1>12, <1>13,
      <1>14, <1>15 DEF Sending, ProducerStep

LEMMA SoleKept ==
  ASSUME NEW p, NEW s, Sole(p, s), got' = got, Filled(p, s) => Filled(p, s)',
         \A i \in 0 .. Cap - 1 : InSlot(i, p, s)' => InSlot(i, p, s),
         InHand(p, s)' => /\ InHand(p, s) /\ cons'.t = cons.t
                          /\ cons'.pc # "advance" \/ \A i \in 0 .. Cap - 1 : ~InSlot(i, p, s)'
  PROVE  Sole(p, s)'
BY DEF Sole, TailIdx, InGot

LEMMA OnceInit == Init => Once
<1> SUFFICES ASSUME Init PROVE Once
  OBVIOUS
<1>1. /\ \A i \in 0 .. Cap - 1 : slots[i] = FreeSlot
      /\ cons = Receiver /\ got = <<>> /\ Len(got) = 0
  BY DEF Init
<1>2. Single
  BY <1>1 DEF Single, FreeSlot, Cleared, Receiver, Holding
<1>3. \A p, s : Sole(p, s)
  BY <1>1 DEF Sole, InSlot, InHand, Is, FreeSlot, Cleared, Receiver, Holding
<1> QED BY <1>2, <1>3 DEF Once

LEMMA OnceOfSending ==
  ASSUME Typed, Reserved, scenario.sizes = {1}, Once, NEW p \in Producers, Sending(p)
  PROVE  Once'
<1>o. cons' = cons /\ \A q \in Producers : q # p => pr'[q] = pr[q]
  BY OthersKept
<1>1. CASE ~FillSlot(p)
  <2>1. /\ HandleStep(p) /\ got' = got
        /\ \A i \in 0 .. Cap - 1 : \/ slots'[i].frame = slots[i].frame
                                   \/ slots'[i].frame.total = 0
    BY <1>1, NothingWritten
  <2>2. Single'
    BY <1>o, <2>1 DEF Once, Single
  <2>3. ASSUME NEW r \in Producers \cup {NoOne}, NEW s \in Nat PROVE Sole(r, s)'
    <3>1. \A i \in 0 .. Cap - 1 : InSlot(i, r, s)' => InSlot(i, r, s)
      BY <2>1 DEF InSlot, Is
    <3>2. InHand(r, s)' => InHand(r, s)
      BY <1>o DEF InHand
    <3>3. Filled(r, s) => Filled(r, s)'
      BY <1>o, <2>1, FilledKept
    <3>4. Sole(r, s)
      BY DEF Once
    <3>5. InHand(r, s)' /\ cons'.pc = "advance" => \A i \in 0 .. Cap - 1 : ~InSlot(i, r, s)'
      BY <1>o, <3>1, <3>2, <3>4 DEF Sole
    <3> QED BY <1>o, <2>1, <3>1, <3>2, <3>3, <3>4, <3>5, SoleKept
  <2> QED BY <2>2, <2>3 DEF Once
<1>2. CASE FillSlot(p)
  <2>0. /\ pr \in [Producers -> Record] /\ slots \in Slots /\ pr[p].pc = "fill" /\ pr[p].pc \in Writing
        /\ WriteIdx(p) \in 0 .. Cap - 1 /\ Seq0(p) \in Nat /\ pr[p].seq \in Nat /\ pr[p].seq > 0
    <3>1. pr[p].pc = "fill" /\ pr[p].pc \in Writing
      BY <1>2 DEF FillSlot, At, Writing
    <3> QED BY <3>1, Fields, HandleTyped, RecordFields
  <2>1. /\ pr'[p].pc = "commit" /\ pr'[p].seq = pr[p].seq /\ got' = got
        /\ slots'[WriteIdx(p)].frame = [from |-> p, seq |-> Seq0(p), part |-> pr[p].done,
                                        total |-> pr[p].need]
        /\ \A i \in 0 .. Cap - 1 : i # WriteIdx(p) => slots'[i] = slots[i]
    BY <1>2, <2>0 DEF FillSlot, Goto, Record, Slots
  <2>2. pr[p].need = 1
    BY <2>0 DEF Reserved, Writing
  <2>3. ~Filled(p, Seq0(p)) /\ Filled(p, Seq0(p))' /\ HandleStep(p)
    <3>1. Seq0(p) + 1 = pr[p].seq /\ Seq0(p) < pr[p].seq
      BY <2>0 DEF Seq0
    <3>2. Seq0(p)' = Seq0(p)
      BY <2>1 DEF Seq0
    <3>3. ~Filled(p, Seq0(p))
      BY <2>0, <3>1 DEF Filled
    <3>4. Filled(p, Seq0(p))'
      BY <2>1, <3>1, <3>2 DEF Filled
    <3>5. HandleStep(p)
      BY <2>0, <2>1 DEF HandleStep
    <3> QED BY <3>3, <3>4, <3>5
  <2>4. Single'
    <3>1. \A i \in 0 .. Cap - 1 : slots'[i].frame.total \in {0, 1}
      BY <2>1, <2>2 DEF Once, Single
    <3> QED BY <1>o, <3>1 DEF Once, Single
  <2>5. ASSUME NEW r \in Producers \cup {NoOne}, NEW s \in Nat PROVE Sole(r, s)'
    <3>1. Sole(r, s)
      BY DEF Once
    <3>2. InHand(r, s)' <=> InHand(r, s)
      BY <1>o DEF InHand
    <3>3. Filled(r, s) => Filled(r, s)'
      BY <1>o, <2>3, FilledKept
    <3>4. CASE r = p /\ s = Seq0(p)
      <4>1. /\ ~InHand(r, s) /\ \A n \in 1 .. Len(got) : ~InGot(n, r, s)
            /\ \A i \in 0 .. Cap - 1 : ~InSlot(i, r, s)
        BY <2>3, <3>1, <3>4 DEF Sole
      <4>2. \A i \in 0 .. Cap - 1 : InSlot(i, r, s)' => i = WriteIdx(p)
        BY <2>1, <4>1 DEF InSlot
      <4>3. Filled(r, s)'
        <5>1. Seq0(p)' = Seq0(p)
          BY <2>1 DEF Seq0
        <5> QED BY <2>3, <3>4, <5>1
      <4> QED BY <2>1, <3>2, <4>1, <4>2, <4>3 DEF Sole, InGot
    <3>5. CASE ~ (r = p /\ s = Seq0(p))
      <4>1. \A i \in 0 .. Cap - 1 : InSlot(i, r, s)' => InSlot(i, r, s)
        BY <2>1, <3>5 DEF InSlot, Is
      <4>2. InHand(r, s)' /\ cons'.pc = "advance" => \A i \in 0 .. Cap - 1 : ~InSlot(i, r, s)'
        BY <1>o, <3>1, <3>2, <4>1 DEF Sole
      <4> QED BY <1>o, <2>1, <3>1, <3>2, <3>3, <4>1, <4>2, SoleKept
    <3> QED BY <3>4, <3>5
  <2> QED BY <2>4, <2>5 DEF Once
<1> QED BY <1>1, <1>2

\* The consumer looks, pins and releases: it holds what it held, or nothing.
LEMMA HandKept ==
  ASSUME Once, UNCHANGED <<pr, got>>,
         \A i \in 0 .. Cap - 1 : \/ slots'[i].frame = slots[i].frame
                                 \/ slots'[i].frame.total = 0,
         cons'.frame.total \in {0, 1}, cons'.part = 0,
         cons'.pc \in Holding \ {"pin"} => cons'.first = cons'.frame,
         cons'.pc \in Holding =>
           /\ cons.pc \in Holding /\ cons'.frame = cons.frame /\ cons'.t = cons.t
           /\ cons'.pc = "advance" => slots'[TailIdx].frame.total = 0
  PROVE  Once'
<1>1. Single'
  BY DEF Once, Single
<1>2. ASSUME NEW r \in Producers \cup {NoOne}, NEW s \in Nat PROVE Sole(r, s)'
  <2>1. \A i \in 0 .. Cap - 1 : InSlot(i, r, s)' => InSlot(i, r, s)
    BY DEF InSlot, Is
  <2>2. InHand(r, s)' => InHand(r, s) /\ cons'.t = cons.t
    BY DEF InHand
  <2>3. Sole(r, s)
    BY DEF Once
  <2>4. Filled(r, s)' <=> Filled(r, s)
    BY DEF Filled
  <2>5. InHand(r, s)' /\ cons'.pc = "advance" => \A i \in 0 .. Cap - 1 : ~InSlot(i, r, s)'
    <3>1. SUFFICES ASSUME InHand(r, s)', cons'.pc = "advance", NEW i \in 0 .. Cap - 1, InSlot(i, r, s)'
                   PROVE  FALSE
      OBVIOUS
    <3>2. i = TailIdx
      BY <2>1, <2>2, <2>3, <3>1 DEF Sole
    <3>3. slots'[i].frame.total = 0
      BY <3>1, <3>2 DEF InHand
    <3> QED BY <3>1, <3>3 DEF InSlot, Is
  <2> QED BY <2>1, <2>2, <2>3, <2>4, <2>5, SoleKept
<1> QED BY <1>1, <1>2 DEF Once

LEMMA OnceOfReceiving ==
  ASSUME Typed, Reserved, scenario.sizes = {1}, Once, ConsumerStep
  PROVE  Once'
<1>f. /\ slots \in Slots /\ TailIdx \in 0 .. Cap - 1 /\ got \in Seq((Producers \cup {NoOne}) \X Nat)
      /\ cons \in [pc : ConsumerPcs, h : Nat, t : Nat, seq : Nat, frame : Frames, first : Frames,
                   part : Nat, left : Nat, ext : Nat]
  BY PositionsHaveSlots DEF Typed, TypeOK, RegionOK, ReceiverOK, HistoryOK
<1>s. Single /\ cons.part = 0
  BY DEF Once, Single
\* A call ends, or goes on before its copy of the payload.
<1>r. ASSUME UNCHANGED <<pr, got>>,
             \A i \in 0 .. Cap - 1 : slots'[i].frame = slots[i].frame \/ slots'[i].frame.total = 0,
             \/ RecvEnds
             \/ cons'.frame.total \in {0, 1} /\ cons'.part = 0 /\ cons'.pc \notin Holding
      PROVE  Once'
  <2>1. cons'.frame.total \in {0, 1} /\ cons'.part = 0 /\ cons'.pc \notin Holding
    BY <1>r DEF RecvEnds, Receiver, Cleared, Holding
  <2> QED BY <1>r, <2>1, HandKept
<1>d. ASSUME NEW i, ReleaseHeader(i), NEW j \in 0 .. Cap - 1
      PROVE  /\ slots'[j].frame = slots[j].frame \/ slots'[j].frame.total = 0
             /\ j = i => slots'[j].frame.total = 0
  BY <1>f, <1>d DEF ReleaseHeader, FreeSlot, Cleared, Slots
<1>1. CASE RecvBegin \/ SecondLook \/ Gate
  <2>1. UNCHANGED <<slots, pr, got>>
    BY <1>1 DEF RecvBegin, SecondLook, Gate
  <2>2. \/ RecvEnds
        \/ cons' = [Receiver EXCEPT !.h = head, !.t = tail, !.pc = "gate"]
        \/ cons' = [cons EXCEPT !.pc = "copy", !.seq = slots[TailIdx].seq]
        \/ Move("verify")
    BY <1>1 DEF RecvBegin, SecondLook, Gate
  <2>3. RecvEnds \/ (cons'.frame.total \in {0, 1} /\ cons'.part = 0 /\ cons'.pc \notin Holding)
    <3>1. CASE cons' = [Receiver EXCEPT !.h = head, !.t = tail, !.pc = "gate"]
      BY <3>1 DEF Receiver, Cleared, Holding
    <3>2. CASE cons' = [cons EXCEPT !.pc = "copy", !.seq = slots[TailIdx].seq]
      BY <1>f, <1>s, <3>2 DEF Holding, Single
    <3>3. CASE Move("verify")
      BY <1>f, <1>s, <3>3 DEF Move, Holding, Single
    <3> QED BY <2>2, <3>1, <3>2, <3>3
  <2> QED BY <1>r, <2>1, <2>3
<1>2. CASE Verify
  <2> DEFINE n == Extent(cons.h, cons.t)
  <2> HIDE DEF n
  <2>1. /\ UNCHANGED <<slots, pr, got>>
        /\ RecvEnds \/ cons' = [cons EXCEPT !.pc = "reclaimFree", !.left = n, !.ext = n]
    BY <1>2 DEF Verify, n
  <2>2. RecvEnds \/ (cons'.frame.total \in {0, 1} /\ cons'.part = 0 /\ cons'.pc \notin Holding)
    <3>1. CASE cons' = [cons EXCEPT !.pc = "reclaimFree", !.left = n, !.ext = n]
      BY <1>f, <1>s, <3>1 DEF Holding, Single
    <3> QED BY <2>1, <3>1
  <2> QED BY <1>r, <2>1, <2>2
<1>3. CASE ReclaimFree
  <2> DEFINE to == IF cons.left > 1 THEN "reclaimFree" ELSE "reclaimTail"
             i  == (cons.t + cons.ext - cons.left) % Cap
  <2>1. /\ ReleaseHeader(i) /\ UNCHANGED <<pr, got>> /\ to \in {"reclaimFree", "reclaimTail"}
        /\ cons' = [cons EXCEPT !.left = cons.left - 1, !.pc = to]
    BY <1>3 DEF ReclaimFree, ConsAt
  <2> HIDE DEF to, i
  <2>2. cons'.frame.total \in {0, 1} /\ cons'.part = 0 /\ cons'.pc \notin Holding
    BY <1>f, <1>s, <2>1 DEF Holding, Single
  <2> QED BY <1>d, <1>r, <2>1, <2>2
<1>4. CASE ReclaimTail
  <2>1. /\ UNCHANGED <<slots, pr, got>>
        /\ RecvEnds \/ cons' = [cons EXCEPT !.t = cons.t + cons.ext, !.pc = "second"]
    BY <1>4 DEF ReclaimTail
  <2>2. RecvEnds \/ (cons'.frame.total \in {0, 1} /\ cons'.part = 0 /\ cons'.pc \notin Holding)
    <3>1. CASE cons' = [cons EXCEPT !.t = cons.t + cons.ext, !.pc = "second"]
      BY <1>f, <1>s, <3>1 DEF Holding, Single
    <3> QED BY <2>1, <3>1
  <2> QED BY <1>r, <2>1, <2>2
<1>5. CASE CopyPayload
  <2>1. /\ UNCHANGED <<slots, pr, got>> /\ cons.pc = "copy" /\ cons'.pc = "pin"
        /\ cons'.frame = slots[TailIdx].frame /\ cons'.t = cons.t /\ cons'.part = 0
    BY <1>5, <1>f, <1>s DEF CopyPayload, ConsAt
  <2>2. Single'
    BY <1>f, <2>1 DEF Once, Single, Holding
  <2>3. ASSUME NEW r \in Producers \cup {NoOne}, NEW s \in Nat PROVE Sole(r, s)'
    <3>1. Sole(r, s) /\ ~InHand(r, s)
      BY <2>1 DEF Once, InHand, Holding
    <3>2. InHand(r, s)' => InSlot(TailIdx, r, s)
      BY <2>1 DEF InHand, InSlot
    <3>3. \A i \in 0 .. Cap - 1 : InSlot(i, r, s)' <=> InSlot(i, r, s)
      BY <2>1 DEF InSlot
    <3>4. \A n \in 1 .. Len(got) : InGot(n, r, s)' <=> InGot(n, r, s)
      BY <2>1 DEF InGot
    <3>5. TailIdx' = TailIdx /\ (Filled(r, s)' <=> Filled(r, s))
      BY <2>1 DEF TailIdx, Filled
    <3> QED BY <1>f, <2>1, <3>1, <3>2, <3>3, <3>4, <3>5 DEF Sole
  <2> QED BY <2>2, <2>3 DEF Once
<1>6. CASE PinSlot
  <2>1. /\ UNCHANGED <<pr, got>> /\ cons.pc = "pin" /\ cons'.pc = "check" /\ cons'.t = cons.t
        /\ cons'.frame = cons.frame /\ cons'.first = cons.frame /\ cons'.part = 0
    BY <1>6, <1>f, <1>s DEF PinSlot, ConsAt
  <2>2. \A i \in 0 .. Cap - 1 : slots'[i].frame = slots[i].frame
    BY <1>6, <1>f DEF PinSlot, WriteHeader, Slots
  <2> QED BY <1>s, <2>1, <2>2, HandKept DEF Single, Holding
<1>7. CASE CheckPinned
  <2>1. UNCHANGED <<slots, pr, got>> /\ cons.pc = "check" /\ (Move("release") \/ RecvEnds)
    BY <1>7 DEF CheckPinned, ConsAt
  <2>2. CASE Move("release")
    <3>1. /\ cons'.pc = "release" /\ cons'.t = cons.t /\ cons'.part = 0
          /\ cons'.frame = cons.frame /\ cons'.first = cons.first
      BY <1>f, <1>s, <2>2 DEF Move
    <3> QED BY <1>s, <2>1, <3>1, HandKept DEF Single, Holding
  <2> QED BY <1>r, <2>1, <2>2
<1>8. CASE FreeTail
  <2>1. /\ UNCHANGED <<pr, got>> /\ cons.pc = "release" /\ (Move("advance") \/ RecvEnds)
        /\ ReleaseHeader(TailIdx)
    BY <1>8 DEF FreeTail, ConsAt
  <2>2. CASE Move("advance")
    <3>1. /\ cons'.pc = "advance" /\ cons'.t = cons.t /\ cons'.part = 0
          /\ cons'.frame = cons.frame /\ cons'.first = cons.first
      BY <1>f, <1>s, <2>2 DEF Move
    <3>2. slots'[TailIdx].frame.total = 0
      BY <1>d, <1>f, <2>1
    <3> QED BY <1>d, <1>s, <2>1, <3>1, <3>2, HandKept DEF Single, Holding
  <2> QED BY <1>d, <1>r, <2>1, <2>2
<1>9. CASE AdvanceTail
  <2>0. cons.pc = "advance" /\ cons.first = cons.frame /\ cons.part = 0 /\ cons.frame \in Frames
    BY <1>9, <1>f, <1>s DEF AdvanceTail, ConsAt, Single, Holding
  <2>1. CASE Verdict # "take"
    <3>1. UNCHANGED <<slots, pr, got>> /\ RecvEnds
      BY <1>9, <2>1 DEF AdvanceTail
    <3> QED BY <1>r, <3>1
  <2>2. CASE Verdict = "take"
    <3>1. cons.frame.total = 1
      <4>1. cons.frame.total # 0
        BY <2>0, <2>2 DEF Verdict
      <4> QED BY <1>s, <4>1 DEF Single
    <3>2. /\ UNCHANGED <<slots, pr>> /\ RecvEnds
          /\ got' = Append(got, <<cons.frame.from, cons.frame.seq>>)
      BY <1>9, <2>0, <2>2, <3>1 DEF AdvanceTail
    <3>3. cons'.pc = "idle" /\ cons'.part = 0 /\ cons'.frame.total = 0
      BY <3>2 DEF RecvEnds, Receiver, Cleared
    <3>4. Single'
      BY <3>2, <3>3 DEF Once, Single, Holding
    <3>5. PICK k : k = Len(got) + 1
      OBVIOUS
    <3>6. /\ Len(got') = k /\ Len(got) \in Nat /\ got'[k] = <<cons.frame.from, cons.frame.seq>>
          /\ \A n \in 1 .. Len(got) : got'[n] = got[n] /\ n # k
          /\ \A n \in 1 .. k : n \in 1 .. Len(got) \/ n = k
      <4>1. <<cons.frame.from, cons.frame.seq>> \in (Producers \cup {NoOne}) \X Nat
        BY <2>0 DEF Frames
      <4>2. /\ Len(got') = Len(got) + 1 /\ Len(got) \in Nat
            /\ got'[Len(got) + 1] = <<cons.frame.from, cons.frame.seq>>
            /\ \A n \in 1 .. Len(got) : got'[n] = got[n]
        BY <1>f, <3>2, <4>1
      <4> QED BY <3>5, <4>2
    <3>7. ASSUME NEW r \in Producers \cup {NoOne}, NEW s \in Nat PROVE Sole(r, s)'
      <4>1. Sole(r, s) /\ ~InHand(r, s)'
        BY <3>3 DEF Once, InHand, Holding
      <4>2. \A i \in 0 .. Cap - 1 : InSlot(i, r, s)' <=> InSlot(i, r, s)
        BY <3>2 DEF InSlot
      <4>3. \A n \in 1 .. Len(got) : InGot(n, r, s)' <=> InGot(n, r, s)
        BY <3>6 DEF InGot
      <4>4. InGot(k, r, s)' <=> InHand(r, s)
        BY <2>0, <3>1, <3>6 DEF InGot, InHand, Is, Holding
      <4>5. Filled(r, s)' <=> Filled(r, s)
        BY <3>2 DEF Filled
      <4>6. InHand(r, s) => \A i \in 0 .. Cap - 1 : ~InSlot(i, r, s)
        BY <2>0, <4>1 DEF Sole
      <4>7. \A n \in 1 .. k : InGot(n, r, s)' => ~InHand(r, s)' /\ \A i \in 0 .. Cap - 1 : ~InSlot(i, r, s)'
        BY <3>6, <4>1, <4>2, <4>3, <4>4, <4>6 DEF Sole
      <4>8. \A m, n \in 1 .. k : InGot(m, r, s)' /\ InGot(n, r, s)' => m = n
        BY <3>6, <4>1, <4>3, <4>4 DEF Sole
      <4>9. \/ \E i \in 0 .. Cap - 1 : InSlot(i, r, s)'
            \/ InHand(r, s)'
            \/ \E n \in 1 .. k : InGot(n, r, s)'
            => Filled(r, s)'
        BY <3>6, <4>1, <4>2, <4>3, <4>4, <4>5 DEF Sole
      <4>10. \A i, j \in 0 .. Cap - 1 : InSlot(i, r, s)' /\ InSlot(j, r, s)' => i = j
        BY <4>1, <4>2 DEF Sole
      <4> QED BY <3>6, <4>1, <4>7, <4>8, <4>9, <4>10 DEF Sole
    <3> QED BY <3>4, <3>7 DEF Once
  <2> QED BY <2>1, <2>2
<1> QED BY <1>1, <1>2, <1>3, <1>4, <1>5, <1>6, <1>7, <1>8, <1>9 DEF ConsumerStep

-----------------------------------------------------------------------------
(* The theorems                                                            *)

DInv == IInv /\ (Quiet => Delivery) /\ (scenario.sizes = {1} => Once)

LEMMA DInvInit == Init => DInv
BY OrderlyInit, DeliveryInit, OnceInit DEF DInv

LEMMA DInvNext == DInv /\ [Next]_vars => DInv'
<1> SUFFICES ASSUME DInv, [Next]_vars PROVE DInv'
  OBVIOUS
<1>1. IInv' /\ (Quiet => Delivery)'
  BY IInvNext, DeliveryNext DEF DInv
<1>2. ASSUME scenario'.sizes = {1} PROVE Once'
  <2>1. Typed /\ Reserved
    BY DEF DInv, IInv
  <2>2. scenario' = scenario
    <3>1. ASSUME NEW p \in Producers, Sending(p) PROVE scenario' = scenario
      BY <2>1, <3>1, OthersKept
    <3> QED BY <3>1 DEF Next, Sending, Die, ConsumerStep, RecvBegin, SecondLook, Gate, Verify,
          ReclaimFree, ReclaimTail, CopyPayload, PinSlot, CheckPinned, FreeTail, AdvanceTail, vars
  <2>3. scenario.sizes = {1} /\ Once
    BY <1>2, <2>2 DEF DInv
  <2>4. ASSUME NEW p \in Producers, Sending(p) PROVE Once'
    BY <2>1, <2>3, <2>4, OnceOfSending
  <2>5. CASE ConsumerStep
    BY <2>1, <2>3, <2>5, OnceOfReceiving
  <2>6. ASSUME UNCHANGED <<slots, pr, cons, got>> PROVE Once'
    <3>1. /\ \A p, s : (Filled(p, s)' <=> Filled(p, s)) /\ (InHand(p, s)' <=> InHand(p, s))
          /\ \A i, p, s : (InSlot(i, p, s)' <=> InSlot(i, p, s)) /\ (InGot(i, p, s)' <=> InGot(i, p, s))
          /\ TailIdx' = TailIdx
      BY <2>6 DEF Filled, InHand, InSlot, InGot, TailIdx
    <3>2. \A p, s : Sole(p, s) => Sole(p, s)'
      BY <2>6, <3>1 DEF Sole
    <3>3. Single'
      BY <2>3, <2>6 DEF Once, Single
    <3> QED BY <2>3, <3>2, <3>3 DEF Once
  <2> QED BY <2>4, <2>5, <2>6 DEF Next, Sending, Die, vars
<1> QED BY <1>1, <1>2 DEF DInv

\* Each message is received at most once: by its place among its producer's
\* where nothing is lost, and where the oldest is dropped because it is in one
\* place at a time.
LEMMA OnceFromInv == DInv => ReceivedOnceInOrder
<1> SUFFICES ASSUME DInv, Calm PROVE ReceivedOnceInOrder
  BY DEF ReceivedOnceInOrder
<1>1. /\ got \in Seq((Producers \cup {NoOne}) \X Nat) /\ sent \in Seq(Producers \X Nat)
      /\ Len(got) \in Nat
  BY DEF DInv, IInv, Typed, TypeOK, HistoryOK
<1>2. CASE Lossless
  <2>1. Taken
    BY <1>2 DEF DInv, Quiet, Delivery
  <2>2. \A i \in 1 .. Len(got) : \E j \in 1 .. Len(sent) : got[i] = sent[j]
    <3>1. SUFFICES ASSUME NEW i \in 1 .. Len(got) PROVE \E j \in 1 .. Len(sent) : got[i] = sent[j]
      OBVIOUS
    <3>2. InSent(got[i][1], got[i][2])
      BY <2>1, <3>1 DEF Taken
    <3>3. got[i] = <<got[i][1], got[i][2]>>
      BY <1>1, <3>1
    <3> QED BY <3>2, <3>3 DEF InSent
  <2>3. \A i, j \in 1 .. Len(got) : i < j /\ got[i][1] = got[j][1] => got[i][2] < got[j][2]
    BY <2>1 DEF Taken
  <2>4. ASSUME NEW i \in 1 .. Len(got), NEW j \in 1 .. Len(got), i < j, got[i] = got[j] PROVE FALSE
    <3>1. got[i][2] < got[j][2] /\ got[i][2] = got[j][2] /\ got[i][2] \in Nat
      <4>1. got[i] \in (Producers \cup {NoOne}) \X Nat
        BY <1>1
      <4> QED BY <2>3, <2>4, <4>1
    <3> QED BY <3>1
  <2>5. \A i, j \in 1 .. Len(got) : i # j => got[i] # got[j]
    <3>1. \A i, j \in 1 .. Len(got) : i # j => i < j \/ j < i
      OBVIOUS
    <3> QED BY <2>4, <3>1
  <2> QED BY <2>2, <2>3, <2>5 DEF ReceivedOnceInOrder
<1>3. CASE ~Lossless
  <2>1. Once
    BY <1>3 DEF DInv, Calm
  <2>2. ASSUME NEW i \in 1 .. Len(got), NEW j \in 1 .. Len(got), got[i] = got[j] PROVE i = j
    <3>1. PICK p, s : p = got[i][1] /\ s = got[i][2]
      OBVIOUS
    <3>2. p \in Producers \cup {NoOne} /\ s \in Nat
      BY <1>1, <3>1
    <3>3. InGot(i, p, s) /\ InGot(j, p, s)
      BY <2>2, <3>1 DEF InGot
    <3> QED BY <2>1, <3>2, <3>3 DEF Once, Sole
  <2> QED BY <1>3, <2>2 DEF ReceivedOnceInOrder
<1> QED BY <1>2, <1>3

LEMMA KeptFromInv == DInv => CommittedKept
<1> SUFFICES ASSUME DInv, Quiet PROVE CommittedKept
  BY DEF CommittedKept, Quiet
<1>1. Typed /\ Reserved /\ Orderly /\ Window /\ Kept
  BY DEF DInv, IInv, Delivery
<1>2. ASSUME NEW j \in 1 .. Len(sent), ~ \E i \in 1 .. Len(got) : got[i] = sent[j]
      PROVE  \/ cons.frame.from = sent[j][1] /\ cons.frame.seq = sent[j][2]
             \/ \E i \in 0 .. Cap - 1 :
                  slots[i].frame.from = sent[j][1] /\ slots[i].frame.seq = sent[j][2]
  <2>1. PICK q \in tail .. head - 1 :
          /\ ~Own(q) /\ LastChunk(Content(q))
          /\ Content(q).from = sent[j][1] /\ Content(q).seq = sent[j][2]
    BY <1>1, <1>2 DEF Kept
  <2>2. FrameAt(q).from = sent[j][1] /\ FrameAt(q).seq = sent[j][2]
    BY <1>1, <2>1, ContentFacts
  <2>3. q % Cap \in 0 .. Cap - 1
    BY <1>1, Facts
  <2> QED BY <2>2, <2>3 DEF FrameAt
<1> QED BY <1>2 DEF CommittedKept

\* What recv returns are messages whose last slot was committed, no message
\* twice and those of one producer in the order it sent them, whatever the
\* handles interleave; and no message twice where the oldest are dropped.
THEOREM ReceivedOnce == Spec => []ReceivedOnceInOrder
BY DInvInit, DInvNext, OnceFromInv, PTL DEF Spec

\* A committed message stays in the ring until the consumer has it, whatever
\* dies and is reclaimed around it.
THEOREM NothingLost == Spec => []CommittedKept
BY DInvInit, DInvNext, KeptFromInv, PTL DEF Spec
============================================================================
