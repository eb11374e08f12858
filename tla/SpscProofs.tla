---------------------------- MODULE SpscProofs -----------------------------
(***************************************************************************)
(* Proofs about SpscChannel for every capacity, every set of message       *)
(* sizes and every bound on the sends; the second part proves that a       *)
(* lossless channel whose grace poll outlasts every batch implements       *)
(* MessageFifo.                                                            *)
(***************************************************************************)
EXTENDS SpscChannel, RingArithmetic, SequenceTheorems

\* What the three slot writes leave behind: the slot they name, and no other.
LEMMA HeaderWritten ==
  ASSUME slots \in Slots, NEW i \in 0 .. Cap - 1, NEW state \in SlotState, NEW seq \in Nat,
         WriteHeader(i, state, seq)
  PROVE  /\ slots' \in Slots
         /\ slots'[i].state = state /\ slots'[i].seq = seq /\ slots'[i].frame = slots[i].frame
         /\ \A j \in 0 .. Cap - 1 : j # i => slots'[j] = slots[j]
<1>1. slots[i].frame \in Frames
  BY DEF Slots
<1> QED BY <1>1 DEF WriteHeader, Slots

LEMMA PayloadWritten ==
  ASSUME slots \in Slots, NEW i \in 0 .. Cap - 1, NEW f \in Frames, WritePayload(i, f)
  PROVE  /\ slots' \in Slots
         /\ slots'[i].state = slots[i].state /\ slots'[i].seq = slots[i].seq /\ slots'[i].frame = f
         /\ \A j \in 0 .. Cap - 1 : j # i => slots'[j] = slots[j]
<1>1. slots[i].state \in SlotState /\ slots[i].seq \in Nat
  BY DEF Slots
<1> QED BY <1>1 DEF WritePayload, Slots

LEMMA SlotReleased ==
  ASSUME slots \in Slots, NEW i \in 0 .. Cap - 1, ReleaseHeader(i)
  PROVE  /\ slots' \in Slots
         /\ slots'[i].state = "FREE"
         /\ \A j \in 0 .. Cap - 1 : j # i => slots'[j] = slots[j]
<1>1. FreeSlot \in [state : SlotState, seq : Nat, frame : Frames] /\ FreeSlot.state = "FREE"
  BY DEF FreeSlot, Cleared, Frames, SlotState
<1> QED BY <1>1 DEF ReleaseHeader, Slots

\* Typing needs one fact beside TypeOK: a message in hand has a number.
Typed == TypeOK /\ (ppc \in Writing => nextSeq > 0)

LEMMA TypedInit == Init => Typed
<1> SUFFICES ASSUME Init PROVE Typed
  OBVIOUS
<1>0. ConfigOK
  BY DEF Init, ConfigOK
<1>1. RegionOK
  <2>1. FreeSlot \in [state : SlotState, seq : Nat, frame : Frames]
    BY DEF FreeSlot, Cleared, Frames, SlotState
  <2> QED BY <2>1 DEF Init, RegionOK, Slots
<1>2. ProducerOK
  <2>1. 0 \in 0 .. Cap - 1
    BY CapAssumption
  <2>2. pclosed \in BOOLEAN
    BY DEF Init
  <2> QED BY <2>1, <2>2 DEF Init, ProducerOK
<1>3. ConsumerOK
  BY DEF Init, ConsumerOK, Cleared, Frames
<1>4. HistoryOK
  BY DEF Init, HistoryOK
<1> QED BY <1>0, <1>1, <1>2, <1>3, <1>4 DEF Init, Typed, TypeOK, Writing

LEMMA TypedNext == Typed /\ [Next]_vars => Typed'
<1> SUFFICES ASSUME Typed, [Next]_vars PROVE Typed'
  OBVIOUS
<1> USE DEF Typed, TypeOK, Writing
<1>0. ConfigOK'
  BY DEF Next, CallerStep, ProducerStep, ConsumerStep, vars, config, ConfigOK
<1> USE <1>0
<1>1. TailIdx \in 0 .. Cap - 1 /\ DropIdx \in 0 .. Cap - 1 /\ NextIdx(headIdx) \in 0 .. Cap - 1
  BY CapAssumption, LapAndSlot DEF TailIdx, DropIdx, NextIdx, ProducerOK, ConsumerOK
<1>2. ppc \in Writing => Seq0 \in Nat
  BY DEF Seq0, ProducerOK
<1>3. ASSUME NEW n \in Sizes, SendBegin(n) PROVE Typed'
  <2>1. n \in Nat
    BY SizesAssumption
  <2> QED
    BY <1>3, <2>1 DEF SendBegin, StartWriting, Refuse, SendEnds, region, consumer,
      RegionOK, ProducerOK, ConsumerOK, HistoryOK
<1>4. CASE SendClosed
  BY <1>4 DEF SendClosed, SendEnds, region, consumer, RegionOK, ProducerOK, ConsumerOK, HistoryOK
<1>5. CASE WaitExpire
  BY <1>5 DEF WaitExpire, SendEnds, region, consumer, RegionOK, ProducerOK, ConsumerOK, HistoryOK
<1>6. CASE CloseProducer
  BY <1>6 DEF CloseProducer, region, consumer, RegionOK, ProducerOK, ConsumerOK, HistoryOK
<1>7. CASE WaitPoll
  BY <1>7 DEF WaitPoll, StartWriting, region, consumer, RegionOK, ProducerOK, ConsumerOK, HistoryOK
<1>8. CASE DropPeek
  BY <1>8 DEF DropPeek, SendEnds, region, consumer, RegionOK, ProducerOK, ConsumerOK, HistoryOK
<1>9. CASE DropLook
  <2>1. slots[DropIdx].frame.total \in Nat
    BY <1>1 DEF RegionOK, Slots, Frames
  <2> QED
    BY <1>9, <2>1 DEF DropLook, SendEnds, region, consumer, RegionOK, ProducerOK, ConsumerOK, HistoryOK
<1>10. CASE DropFree
  <2>1. slots' \in Slots
    BY <1>1, <1>10, SlotReleased DEF DropFree, RegionOK
  <2> QED
    BY <1>10, <2>1 DEF DropFree, consumer, RegionOK, ProducerOK, ConsumerOK, HistoryOK
<1>11. CASE DropTail
  <2>1. tail' \in Nat
    BY <1>11 DEF DropTail, FetchMaxTail, Larger, RegionOK, ProducerOK
  <2> QED
    BY <1>11, <2>1 DEF DropTail, StartWriting, Refuse, SendEnds, consumer,
      RegionOK, ProducerOK, ConsumerOK, HistoryOK
<1>12. CASE MarkWriting
  <2>1. slots' \in Slots
    BY <1>2, <1>12, HeaderWritten DEF MarkWriting, RegionOK, ProducerOK, SlotState
  <2> QED
    BY <1>12, <2>1 DEF MarkWriting, consumer, RegionOK, ProducerOK, ConsumerOK, HistoryOK
<1>13. CASE CheckFree
  BY <1>13 DEF CheckFree, SendEnds, region, consumer, RegionOK, ProducerOK, ConsumerOK, HistoryOK
<1>14. CASE FillSlot
  <2>1. [seq |-> Seq0, part |-> done, total |-> need] \in Frames
    BY <1>2, <1>14 DEF FillSlot, Frames, ProducerOK
  <2>2. slots' \in Slots
    BY <1>14, <2>1, PayloadWritten DEF FillSlot, RegionOK, ProducerOK
  <2> QED
    BY <1>14, <2>2 DEF FillSlot, consumer, RegionOK, ProducerOK, ConsumerOK, HistoryOK
<1>15. CASE CommitSlot
  <2>1. slots' \in Slots
    BY <1>2, <1>15, HeaderWritten DEF CommitSlot, RegionOK, ProducerOK, SlotState
  <2>2. sent' \in Seq(Nat)
    <3>1. Seq0 \in Nat /\ sent \in Seq(Nat)
      BY <1>2, <1>15 DEF CommitSlot, HistoryOK
    <3>2. Append(sent, Seq0) \in Seq(Nat)
      BY <3>1
    <3> QED BY <1>15, <3>1, <3>2 DEF CommitSlot
  <2> QED
    BY <1>1, <1>15, <2>1, <2>2 DEF CommitSlot, consumer, RegionOK, ProducerOK, ConsumerOK, HistoryOK
<1>16. CASE PublishHead
  BY <1>16 DEF PublishHead, SendEnds, consumer, RegionOK, ProducerOK, ConsumerOK, HistoryOK
<1>17. CASE RecvBegin \/ TryBegin
  <2>1. cpc' \in {"idle", "gate", "probe"} /\ cres' \in {cres, "Closed"}
    BY <1>17 DEF RecvBegin, TryBegin, Refreshed, RecvEnds
  <2>2. cTail' = tail /\ part' = 0
        /\ UNCHANGED <<region, producer, cclosed, expected, hdrSeq, frame, total, sent, got>>
    BY <1>17 DEF RecvBegin, TryBegin, Refreshed
  <2> QED
    BY <2>1, <2>2 DEF region, producer, RegionOK, ProducerOK, ConsumerOK, HistoryOK
<1>18. CASE Gate
  <2>1. slots[TailIdx].seq \in Nat
    BY <1>1 DEF RegionOK, Slots
  <2> QED
    BY <1>18, <2>1 DEF Gate, region, producer, RegionOK, ProducerOK, ConsumerOK, HistoryOK
<1>19. CASE GateFails
  BY <1>19 DEF GateFails, RecvEnds, region, producer, RegionOK, ProducerOK, ConsumerOK, HistoryOK
<1>20. CASE CopyPayload
  <2>1. slots[TailIdx].frame \in Frames
    BY <1>1 DEF RegionOK, Slots
  <2> QED
    BY <1>20, <2>1 DEF CopyPayload, region, producer, RegionOK, ProducerOK, ConsumerOK, HistoryOK
<1>21. CASE PinSlot
  <2>1. slots' \in Slots
    BY <1>1, <1>21, HeaderWritten DEF PinSlot, RegionOK, ConsumerOK, SlotState
  <2>2. frame.total \in Nat
    BY DEF ConsumerOK, Frames
  <2> QED
    BY <1>21, <2>1, <2>2 DEF PinSlot, RecvEnds, producer, RegionOK, ProducerOK, ConsumerOK, HistoryOK
<1>22. CASE FreeTail
  <2>1. slots' \in Slots
    BY <1>1, <1>22, SlotReleased DEF FreeTail, RegionOK
  <2> QED
    BY <1>22, <2>1 DEF FreeTail, RecvEnds, producer, RegionOK, ProducerOK, ConsumerOK, HistoryOK
<1>23. CASE TryProbe
  BY <1>23 DEF TryProbe, RecvEnds, region, producer, RegionOK, ProducerOK, ConsumerOK, HistoryOK
<1>24. CASE CheckPinned
  BY <1>24 DEF CheckPinned, RecvEnds, region, producer, RegionOK, ProducerOK, ConsumerOK, HistoryOK
<1>25. CASE AdvanceTail
  <2>1. tail' \in Nat
    BY <1>25 DEF AdvanceTail, FetchMaxTail, Larger, RegionOK, ConsumerOK
  <2>2. got' \in Seq(Nat)
    <3>1. frame.seq \in Nat /\ got \in Seq(Nat)
      BY DEF HistoryOK, ConsumerOK, Frames
    <3>2. Append(got, frame.seq) \in Seq(Nat)
      BY <3>1
    <3> QED BY <1>25, <3>1, <3>2 DEF AdvanceTail
  <2> QED
    BY <1>25, <2>1, <2>2 DEF AdvanceTail, RecvEnds, producer, RegionOK, ProducerOK, ConsumerOK, HistoryOK
<1>26. CASE CloseConsumer
  BY <1>26 DEF CloseConsumer, region, producer, RegionOK, ProducerOK, ConsumerOK, HistoryOK
<1>27. CASE UNCHANGED vars
  BY <1>27 DEF vars, region, producer, consumer, RegionOK, ProducerOK, ConsumerOK, HistoryOK
<1> QED
  BY <1>3, <1>4, <1>5, <1>6, <1>7, <1>8, <1>9, <1>10, <1>11, <1>12, <1>13, <1>14,
     <1>15, <1>16, <1>17, <1>18, <1>19, <1>20, <1>21, <1>22, <1>23, <1>24, <1>25, <1>26, <1>27
  DEF Next, CallerStep, ProducerStep, ConsumerStep

\* Every variable keeps its type under every backpressure strategy.
THEOREM Typing == Spec => []TypeOK
<1>1. Typed => TypeOK
  BY DEF Typed
<1> QED BY TypedInit, TypedNext, <1>1, PTL DEF Spec

-----------------------------------------------------------------------------
(* The ring invariant                                                      *)

\* What the window facts are about: positions and the slots they fall on.
LEMMA Positions ==
  ASSUME Typed, CursorInv
  PROVE  /\ Written \in Nat
         /\ \A q \in Nat : q % Cap \in 0 .. Cap - 1
         /\ \A p, q \in tail .. tail + Cap - 1 : p # q => p % Cap # q % Cap
         /\ (tail + Cap) % Cap = tail % Cap
         /\ NextIdx(headIdx) = (Written + 1) % Cap
<1> USE CapAssumption
<1>1. Written \in Nat /\ tail \in Nat /\ headIdx = Written % Cap
  BY DEF Typed, TypeOK, RegionOK, ProducerOK, Written, CursorInv
<1>2. \A q \in Nat : q % Cap \in 0 .. Cap - 1
  BY LapAndSlot
<1>3. ASSUME NEW p \in tail .. tail + Cap - 1, NEW q \in tail .. tail + Cap - 1, p # q
      PROVE  p % Cap # q % Cap
  <2>1. p \in Nat /\ q \in Nat /\ p < q + Cap /\ q < p + Cap
    BY <1>1, <1>3
  <2>2. CASE p < q
    BY <2>1, <2>2, WindowDistinct
  <2>3. CASE q < p
    BY <2>1, <2>3, WindowDistinct
  <2> QED BY <1>3, <2>1, <2>2, <2>3
<1>4. (tail + Cap) % Cap = tail % Cap
  BY <1>1, NextLap
<1>5. NextIdx(headIdx) = (Written + 1) % Cap
  BY <1>1, NextSlot DEF NextIdx
<1> QED BY <1>1, <1>2, <1>3, <1>4, <1>5

LEMMA RingInit == Init => RingInv
<1> SUFFICES ASSUME Init PROVE RingInv
  OBVIOUS
<1>1. Written = 0 /\ 0 % Cap = 0
  BY CapAssumption, LapAndSlot, SlotOf DEF Init, Written
<1>2. CursorInv
  BY <1>1, CapAssumption DEF Init, CursorInv, Writing
<1>3. FreeInv
  <2>1. \A q \in Nat : At(q).state = "FREE"
    BY CapAssumption, LapAndSlot DEF Init, At, FreeSlot
  <2> QED BY <1>1, <2>1, CapAssumption DEF Init, FreeInv
<1>4. ReaderInv
  BY DEF Init, ReaderInv
<1> QED BY <1>2, <1>3, <1>4 DEF RingInv

\* Room for n slots, seen through any tail the consumer has already passed.
LEMMA RoomBound ==
  ASSUME Typed, CursorInv, ppc \in {"idle", "wait"}, NEW n \in Nat \ {0}, HasRoom(tail, n)
  PROVE  head + n <= tail + Cap
<1>1. head \in Nat /\ tail \in Nat /\ done = 0 /\ tail <= head
  BY DEF Typed, TypeOK, RegionOK, CursorInv, Written
<1> QED BY <1>1, CapAssumption DEF HasRoom, CursorDepth, Smaller

\* The slot a send is about to write is free.
LEMMA FreeAtClaim ==
  ASSUME Typed, RingInv, ppc \in {"claim", "mark"}
  PROVE  slots[headIdx].state = "FREE"
<1>1. Written \in Written .. tail + Cap - 1 /\ headIdx = Written % Cap
  BY CapAssumption DEF RingInv, CursorInv, Written, Writing, Typed, TypeOK, RegionOK, ProducerOK
<1> QED BY <1>1 DEF RingInv, FreeInv, At

\* The producer's actions that write no slot.
LEMMA RingProducerLocal ==
  ASSUME Typed, RingInv, Lossless,
         \/ \E n \in Sizes : SendBegin(n)
         \/ SendClosed \/ WaitExpire \/ CloseProducer \/ WaitPoll \/ CheckFree \/ PublishHead
  PROVE  RingInv'
<1> USE DEF RingInv
<1>1. UNCHANGED <<tail, slots, headIdx, consumer>>
  BY DEF SendBegin, SendClosed, WaitExpire, CloseProducer, WaitPoll, CheckFree, PublishHead, region
<1>2. Written' = Written /\ CursorInv' /\ (ppc \in {"fill", "commit"} <=> ppc' \in {"fill", "commit"})
  <2> USE CapAssumption DEF Typed, TypeOK, RegionOK, ProducerOK
  <2>1. ASSUME NEW n \in Sizes, SendBegin(n)
        PROVE  Written' = Written /\ CursorInv' /\ (ppc \in {"fill", "commit"} <=> ppc' \in {"fill", "commit"})
    <3>1. n \in Nat \ {0}
      BY SizesAssumption
    <3>2. CASE n <= Cap /\ HasRoom(tail, n) /\ StartWriting(n)
      <4>1. head + n <= tail + Cap
        BY <2>1, <3>1, <3>2, RoomBound DEF SendBegin
      <4> QED BY <1>1, <2>1, <3>1, <3>2, <4>1 DEF SendBegin, StartWriting, CursorInv, Written, Writing, region
    <3>3. CASE n <= Cap /\ ~HasRoom(tail, n) /\ Refuse(n)
      BY <1>1, <2>1, <3>1, <3>3 DEF SendBegin, Refuse, Lossless, SendEnds, CursorInv, Written, Writing, region
    <3>4. CASE n > Cap /\ SendEnds("MessageTooLarge") /\ UNCHANGED <<nextSeq, need, done, dropping>>
      BY <1>1, <2>1, <3>1, <3>4 DEF SendBegin, SendEnds, CursorInv, Written, Writing, region
    <3> QED BY <2>1, <3>2, <3>3, <3>4 DEF SendBegin
  <2>2. CASE SendClosed \/ WaitExpire \/ CloseProducer
    BY <1>1, <2>2 DEF SendClosed, WaitExpire, CloseProducer, SendEnds, CursorInv, Written, Writing, region
  <2>3. CASE WaitPoll
    <3>1. CASE HasRoom(tail, need)
      <4>1. need \in Nat \ {0} /\ head + need <= tail + Cap
        BY <2>3, <3>1, RoomBound DEF WaitPoll, CursorInv
      <4> QED BY <1>1, <2>3, <3>1, <4>1 DEF WaitPoll, StartWriting, CursorInv, Written, Writing, region
    <3>2. CASE ~HasRoom(tail, need)
      BY <1>1, <2>3, <3>2 DEF WaitPoll, CursorInv, Written, Writing, region
    <3> QED BY <3>1, <3>2
  <2>4. CASE PublishHead
    BY <1>1, <2>4 DEF PublishHead, SendEnds, CursorInv, Written, Writing
  <2>5. CASE CheckFree
    <3>1. slots[headIdx].state = "FREE"
      BY <2>5, FreeAtClaim DEF CheckFree
    <3> QED BY <1>1, <2>5, <3>1 DEF CheckFree, CursorInv, Written, Writing, region
  <2> QED BY <2>1, <2>2, <2>3, <2>4, <2>5
<1>3. FreeInv' /\ ReaderInv'
  BY <1>1, <1>2 DEF FreeInv, ReaderInv, At, consumer
<1> QED BY <1>2, <1>3

\* The producer's slot writes.  The slot it writes is a free one of the
\* window, so no position the consumer can be reading is disturbed.
LEMMA RingProducerWrites ==
  ASSUME Typed, RingInv, MarkWriting \/ FillSlot \/ CommitSlot
  PROVE  RingInv'
<1> USE DEF RingInv
<1>1. /\ Written \in Nat /\ tail \in Nat /\ Cap \in Nat \ {0} /\ headIdx = Written % Cap
      /\ Written < tail + Cap /\ tail <= Written
      /\ UNCHANGED <<head, tail, pTail, need, consumer>>
  <2>1. UNCHANGED <<head, tail, pTail, need, consumer>>
    BY DEF MarkWriting, FillSlot, CommitSlot
  <2>2. Written \in Nat /\ tail \in Nat
    BY Positions DEF Typed, TypeOK, RegionOK
  <2>3. headIdx = Written % Cap /\ Written < tail + Cap /\ tail <= Written
    BY CapAssumption DEF MarkWriting, FillSlot, CommitSlot, Typed, TypeOK, RegionOK, ProducerOK,
      CursorInv, Written, Writing
  <2> QED BY CapAssumption, <2>1, <2>2, <2>3
<1>2. \A q \in tail .. tail + Cap - 1 : q # Written => At(q)' = At(q)
  <2>1. slots \in Slots /\ headIdx \in 0 .. Cap - 1 /\ (ppc \in Writing => Seq0 \in Nat)
    BY DEF Typed, TypeOK, RegionOK, ProducerOK, Seq0, Writing
  <2>2. \A j \in 0 .. Cap - 1 : j # headIdx => slots'[j] = slots[j]
    <3>1. CASE MarkWriting
      BY <2>1, <3>1, HeaderWritten DEF MarkWriting, SlotState, Writing
    <3>2. CASE FillSlot
      <4>1. [seq |-> Seq0, part |-> done, total |-> need] \in Frames
        BY <2>1, <3>2 DEF FillSlot, Writing, Frames, Typed, TypeOK, ProducerOK
      <4> QED BY <2>1, <3>2, <4>1, PayloadWritten DEF FillSlot
    <3>3. CASE CommitSlot
      BY <2>1, <3>3, HeaderWritten DEF CommitSlot, SlotState, Writing
    <3> QED BY <3>1, <3>2, <3>3
  <2>3. ASSUME NEW q \in tail .. tail + Cap - 1, q # Written PROVE At(q)' = At(q)
    <3>1. Written \in tail .. tail + Cap - 1 /\ q \in Nat
      BY <1>1
    <3>2. q % Cap \in 0 .. Cap - 1
      BY <3>1, Positions
    <3>3. q % Cap # headIdx
      BY <1>1, <2>3, <3>1, Positions
    <3> QED BY <2>2, <3>2, <3>3 DEF At
  <2> QED BY <2>3
<1>3. CASE MarkWriting
  <2>1. ppc' = "fill" /\ At(Written)'.state = "WRITING" /\ UNCHANGED <<headIdx, done>>
    <3>1. Seq0 \in Nat /\ slots \in Slots /\ headIdx \in 0 .. Cap - 1
      BY <1>3 DEF MarkWriting, Typed, TypeOK, RegionOK, ProducerOK, Seq0, Writing
    <3>2. slots'[headIdx].state = "WRITING"
      BY <1>3, <3>1, HeaderWritten DEF MarkWriting, SlotState
    <3> QED BY <1>1, <1>3, <3>2 DEF MarkWriting, At, Written
  <2>2. CursorInv'
    BY <1>1, <1>3, <2>1 DEF MarkWriting, CursorInv, Written, Writing
  <2>3. FreeInv'
    BY <1>1, <1>2, <1>3, <2>1 DEF MarkWriting, FreeInv, Written
  <2>4. ReaderInv'
    BY <1>1, <1>2, <2>1 DEF ReaderInv, consumer, Written
  <2> QED BY <2>2, <2>3, <2>4
<1>4. CASE FillSlot
  <2>1. ppc' = "commit" /\ At(Written)'.state = At(Written).state /\ UNCHANGED <<headIdx, done>>
    <3>1. Seq0 \in Nat /\ slots \in Slots /\ headIdx \in 0 .. Cap - 1
      BY <1>4 DEF FillSlot, Typed, TypeOK, RegionOK, ProducerOK, Seq0, Writing
    <3>2. [seq |-> Seq0, part |-> done, total |-> need] \in Frames
      BY <3>1 DEF Frames, Typed, TypeOK, ProducerOK
    <3>3. slots'[headIdx].state = slots[headIdx].state
      BY <1>4, <3>1, <3>2, PayloadWritten DEF FillSlot
    <3> QED BY <1>1, <1>4, <3>3 DEF FillSlot, At, Written
  <2>2. CursorInv'
    BY <1>1, <1>4, <2>1 DEF FillSlot, CursorInv, Written, Writing
  <2>3. FreeInv'
    BY <1>1, <1>2, <1>4, <2>1 DEF FillSlot, FreeInv, Written
  <2>4. ReaderInv'
    BY <1>1, <1>2, <2>1 DEF ReaderInv, consumer, Written
  <2> QED BY <2>2, <2>3, <2>4
<1>5. CASE CommitSlot
  <2>1. Written' = Written + 1 /\ headIdx' = Written' % Cap
    BY <1>1, <1>5, Positions DEF CommitSlot, Written, Typed, TypeOK, RegionOK, ProducerOK
  <2>2. CursorInv'
    BY <1>1, <1>5, <2>1, CapAssumption DEF CommitSlot, CursorInv, Written, Writing, Typed, TypeOK, RegionOK, ProducerOK
  <2>3. FreeInv'
    BY <1>1, <1>2, <1>5, <2>1 DEF CommitSlot, FreeInv
  <2>4. ReaderInv'
    BY <1>1, <1>2, <2>1 DEF ReaderInv, consumer
  <2> QED BY <2>2, <2>3, <2>4
<1> QED BY <1>3, <1>4, <1>5

\* The consumer's actions that write no slot and move no cursor.
LEMMA RingConsumerLocal ==
  ASSUME Typed, RingInv,
         \/ RecvBegin \/ TryBegin \/ TryProbe \/ Gate \/ GateFails \/ CopyPayload
         \/ CheckPinned \/ CloseConsumer
  PROVE  RingInv'
<1> USE DEF RingInv
<1>1. UNCHANGED <<head, tail, slots, producer>> /\ Written' = Written
  BY DEF RecvBegin, TryBegin, TryProbe, Refreshed, Gate, GateFails, CopyPayload, CheckPinned, CloseConsumer, region, Written, producer
<1>2. CursorInv' /\ FreeInv'
  BY <1>1 DEF CursorInv, FreeInv, At, producer
<1>3. ReaderInv'
  <2>1. CASE RecvBegin \/ TryBegin
    BY <1>1, <2>1 DEF RecvBegin, TryBegin, Refreshed, RecvEnds, ReaderInv, At
  <2>7. CASE TryProbe
    BY <1>1, <2>7 DEF TryProbe, RecvEnds, ReaderInv, At
  <2>2. CASE Gate
    <3>1. cTail = tail /\ TailIdx = tail % Cap /\ At(tail).state = "COMMITTED"
      BY <2>2 DEF Gate, ReaderInv, TailIdx, At
    <3>2. tail < Written
      <4>1. SUFFICES ASSUME tail = Written PROVE FALSE
        BY Positions DEF CursorInv, Typed, TypeOK, RegionOK
      <4>2. Written \in Written .. tail + Cap - 1
        BY <4>1, CapAssumption, Positions
      <4> QED BY <3>1, <4>1, <4>2 DEF FreeInv
    <3> QED BY <1>1, <2>2, <3>1, <3>2 DEF Gate, ReaderInv, At
  <2>3. CASE GateFails
    BY <1>1, <2>3 DEF GateFails, RecvEnds, ReaderInv, At
  <2>4. CASE CopyPayload
    BY <1>1, <2>4 DEF CopyPayload, ReaderInv, At
  <2>5. CASE CloseConsumer
    BY <1>1, <2>5 DEF CloseConsumer, ReaderInv, At
  <2>6. CASE CheckPinned
    BY <1>1, <2>6 DEF CheckPinned, RecvEnds, ReaderInv, At
  <2> QED BY <2>1, <2>2, <2>3, <2>4, <2>5, <2>6, <2>7
<1> QED BY <1>2, <1>3

\* The consumer's slot writes touch the slot at the tail alone.
LEMMA RingConsumerWrites ==
  ASSUME Typed, RingInv, PinSlot \/ FreeTail
  PROVE  RingInv'
<1> USE DEF RingInv
<1>1. /\ UNCHANGED <<head, tail, producer, cTail>> /\ Written' = Written
      /\ cTail = tail /\ tail < Written /\ TailIdx = tail % Cap /\ TailIdx \in 0 .. Cap - 1
      /\ Written \in Nat /\ tail \in Nat /\ Cap \in Nat \ {0} /\ Written <= tail + Cap
  BY CapAssumption, Positions DEF PinSlot, FreeTail, ReaderInv, TailIdx, Written, producer,
    Typed, TypeOK, RegionOK, CursorInv
<1>2. \A q \in tail + 1 .. tail + Cap - 1 : At(q)' = At(q)
  <2>1. \A j \in 0 .. Cap - 1 : j # TailIdx => slots'[j] = slots[j]
    BY <1>1, HeaderWritten, SlotReleased
    DEF PinSlot, FreeTail, SlotState, Typed, TypeOK, RegionOK, ConsumerOK
  <2> QED BY <1>1, <2>1, Positions DEF At
<1>3. CursorInv'
  BY <1>1 DEF CursorInv, producer
<1>4. FreeInv'
  BY <1>1, <1>2 DEF FreeInv, producer
<1>5. ReaderInv'
  <2>1. CASE PinSlot
    <3>1. slots'[TailIdx].state = "PINNED"
      BY <1>1, <2>1, HeaderWritten DEF PinSlot, SlotState, Typed, TypeOK, RegionOK, ConsumerOK
    <3> QED BY <1>1, <2>1, <3>1 DEF PinSlot, RecvEnds, ReaderInv, At
  <2>2. CASE FreeTail
    <3>1. slots'[TailIdx].state = "FREE"
      BY <1>1, <2>2, SlotReleased DEF FreeTail, Typed, TypeOK, RegionOK
    <3> QED BY <1>1, <2>2, <3>1 DEF FreeTail, RecvEnds, ReaderInv, At
  <2> QED BY <2>1, <2>2
<1> QED BY <1>3, <1>4, <1>5

\* Passing the tail over a released slot opens that slot one lap further on.
LEMMA RingAdvance ==
  ASSUME Typed, RingInv, AdvanceTail
  PROVE  RingInv'
<1> USE DEF RingInv
<1>1. /\ UNCHANGED <<head, slots, producer>> /\ Written' = Written
      /\ cTail = tail /\ tail' = tail + 1 /\ cTail' = tail + 1 /\ tail < Written
      /\ Written \in Nat /\ tail \in Nat /\ Cap \in Nat \ {0}
      /\ At(tail).state = "FREE"
  <2>1. UNCHANGED <<head, slots, producer>> /\ Written' = Written
    BY DEF AdvanceTail, producer, Written
  <2>2. cTail = tail /\ tail < Written /\ At(tail).state = "FREE"
    BY DEF AdvanceTail, ReaderInv
  <2>3. Written \in Nat /\ tail \in Nat
    BY Positions DEF Typed, TypeOK, RegionOK
  <2>4. tail' = tail + 1 /\ cTail' = tail + 1
    BY <2>2, <2>3 DEF AdvanceTail, FetchMaxTail, Larger
  <2> QED BY CapAssumption, <2>1, <2>2, <2>3, <2>4
<1>2. CursorInv'
  BY <1>1 DEF CursorInv, producer, Typed, TypeOK, RegionOK, ProducerOK
<1>3. FreeInv'
  <2>1. SUFFICES ASSUME NEW q \in Written .. tail + Cap
                 PROVE  At(q).state = IF q = Written /\ ppc \in {"fill", "commit"}
                                        THEN "WRITING" ELSE "FREE"
    BY <1>1 DEF FreeInv, At, producer
  <2>2. CASE q < tail + Cap
    BY <1>1, <2>2 DEF FreeInv
  <2>3. CASE q = tail + Cap
    <3>1. At(q).state = "FREE"
      BY <1>1, <2>3, Positions DEF At
    <3>2. ~(q = Written /\ ppc \in {"fill", "commit"})
      <4>1. SUFFICES ASSUME ppc \in {"fill", "commit"} PROVE Written < tail + Cap
        BY <1>1, <2>3
      <4> QED BY <1>1, <4>1 DEF CursorInv, Written, Writing, Typed, TypeOK, RegionOK, ProducerOK
    <3> QED BY <3>1, <3>2
  <2> QED BY <1>1, <2>2, <2>3
<1>4. ReaderInv'
  BY <1>1 DEF AdvanceTail, RecvEnds, ReaderInv
<1> QED BY <1>2, <1>3, <1>4

\* What holds of the ring as long as nothing is force-dropped.
RingOK == Lossless => RingInv

LEMMA RingNext == Typed /\ RingOK /\ [Next]_vars => RingOK'
<1> SUFFICES ASSUME Typed, RingOK, [Next]_vars, Lossless' PROVE RingInv'
  BY DEF RingOK
<1>1. Lossless /\ RingInv
  BY DEF Next, CallerStep, ProducerStep, ConsumerStep, vars, config, Lossless, RingOK
<1>2. CASE UNCHANGED vars
  BY <1>1, <1>2 DEF vars, region, producer, consumer, RingInv, CursorInv, FreeInv, ReaderInv, At, Written
<1>3. ~(DropPeek \/ DropLook \/ DropFree \/ DropTail)
  BY <1>1 DEF DropPeek, DropLook, DropFree, DropTail, RingInv, CursorInv
<1> QED
  BY <1>1, <1>2, <1>3, RingProducerLocal, RingProducerWrites, RingConsumerLocal,
     RingConsumerWrites, RingAdvance
  DEF Next, CallerStep, ProducerStep, ConsumerStep

\* The slots always agree with the cursors, unless a producer force-drops.
THEOREM RingSafe == Spec => []RingOK
<1>1. Init => RingOK
  BY RingInit DEF RingOK
<1> QED BY TypedInit, TypedNext, <1>1, RingNext, PTL DEF Spec

\* The send guard is sound: a send it admits finds every slot released.
THEOREM SendFindsFree == Spec => []ClaimFindsFree
<1>1. Typed /\ RingOK => ClaimFindsFree
  BY FreeAtClaim DEF RingOK, ClaimFindsFree
<1>2. Spec => []Typed
  BY TypedInit, TypedNext, PTL DEF Spec
<1> QED BY <1>1, <1>2, RingSafe, PTL

\* refresh_cursors never meets cursors it calls inconsistent.
THEOREM CursorsAgree == Spec => []CursorsConsistent
<1>1. RingOK => CursorsConsistent
  BY DEF RingOK, RingInv, CursorInv, CursorsConsistent, Written
<1> QED BY RingSafe, <1>1, PTL

\* recv reads a slot without a lock and nobody rewrites it meanwhile.
THEOREM ReaderAlone == Spec => []ReaderUndisturbed
<1>1. RingOK => ReaderUndisturbed
  BY DEF RingOK, RingInv, ReaderInv, ReaderUndisturbed, TailIdx, At
<1> QED BY RingSafe, <1>1, PTL

\* One step moves one slot at most, to the state after the one it has.
LEMMA LifecycleStep ==
  ASSUME Typed, RingInv, Lossless, [Next]_vars
  PROVE  \A i \in 0 .. Cap - 1 : slots'[i].state \in {slots[i].state, Successor[slots[i].state]}
<1>1. Successor["FREE"] = "WRITING" /\ Successor["WRITING"] = "COMMITTED"
      /\ Successor["COMMITTED"] = "PINNED" /\ Successor["PINNED"] = "FREE"
  BY DEF Successor, SlotState
<1>2. slots \in Slots /\ headIdx \in 0 .. Cap - 1 /\ TailIdx \in 0 .. Cap - 1
      /\ hdrSeq \in Nat /\ (ppc \in Writing => Seq0 \in Nat)
  BY CapAssumption, LapAndSlot DEF Typed, TypeOK, RegionOK, ProducerOK, ConsumerOK, TailIdx, Seq0, Writing
<1>3. CASE MarkWriting
  <2>1. slots[headIdx].state = "FREE"
    BY <1>3, FreeAtClaim DEF MarkWriting
  <2> QED BY <1>1, <1>2, <1>3, <2>1, HeaderWritten DEF MarkWriting, SlotState, Writing
<1>4. CASE FillSlot
  <2>1. [seq |-> Seq0, part |-> done, total |-> need] \in Frames
    BY <1>2, <1>4 DEF FillSlot, Writing, Frames, Typed, TypeOK, ProducerOK
  <2> QED BY <1>2, <1>4, <2>1, PayloadWritten DEF FillSlot
<1>5. CASE CommitSlot
  <2>1. slots[headIdx].state = "WRITING"
    <3>1. Written \in Written .. tail + Cap - 1 /\ headIdx = Written % Cap
      BY <1>5, CapAssumption DEF CommitSlot, RingInv, CursorInv, Written, Writing,
        Typed, TypeOK, RegionOK, ProducerOK
    <3> QED BY <1>5, <3>1 DEF CommitSlot, RingInv, FreeInv, At
  <2> QED BY <1>1, <1>2, <1>5, <2>1, HeaderWritten DEF CommitSlot, SlotState, Writing
<1>6. CASE PinSlot
  <2>1. slots[TailIdx].state = "COMMITTED"
    BY <1>6 DEF PinSlot, RingInv, ReaderInv, TailIdx, At
  <2> QED BY <1>1, <1>2, <1>6, <2>1, HeaderWritten DEF PinSlot, SlotState
<1>7. CASE FreeTail
  <2>1. slots[TailIdx].state = "PINNED"
    BY <1>7 DEF FreeTail, RingInv, ReaderInv, TailIdx, At
  <2> QED BY <1>1, <1>2, <1>7, <2>1, SlotReleased DEF FreeTail
<1>8. ~(DropPeek \/ DropLook \/ DropFree \/ DropTail)
  BY DEF DropPeek, DropLook, DropFree, DropTail, RingInv, CursorInv
<1>9. CASE UNCHANGED slots
  BY <1>9
<1>10. \/ MarkWriting \/ FillSlot \/ CommitSlot \/ PinSlot \/ FreeTail
       \/ UNCHANGED slots
  BY <1>8 DEF Next, CallerStep, ProducerStep, ConsumerStep, vars, region, SendBegin, SendClosed, WaitExpire,
    CloseProducer, WaitPoll, CheckFree, PublishHead, RecvBegin, TryBegin, TryProbe, Refreshed, Gate, GateFails, CopyPayload,
    CheckPinned, AdvanceTail, CloseConsumer
<1> QED BY <1>3, <1>4, <1>5, <1>6, <1>7, <1>9, <1>10

\* No slot ever skips a state of its life cycle.
THEOREM SlotsCycle == Spec => SlotLifecycle
<1>1. Typed /\ RingOK /\ [Next]_vars
        => [Lossless => \A i \in 0 .. Cap - 1 :
              slots'[i].state \in {slots[i].state, Successor[slots[i].state]}]_slots
  BY LifecycleStep DEF RingOK
<1>2. Spec => []Typed
  BY TypedInit, TypedNext, PTL DEF Spec
<1> QED BY <1>1, <1>2, RingSafe, PTL DEF Spec, SlotLifecycle

-----------------------------------------------------------------------------
(* The channel implements MessageFifo                                      *)

\* The types behind the window facts.
LEMMA WindowTypes ==
  ASSUME Typed, RingInv
  PROVE  /\ tail \in Nat /\ head \in Nat /\ Written \in Nat
         /\ tail <= Written /\ Written <= tail + Cap /\ Written = head + done
         /\ \A q \in Nat : At(q).seq \in Nat /\ At(q).frame \in Frames
         /\ \A q \in Nat : Content(q) \in Frames
<1>1. tail \in Nat /\ head \in Nat /\ Written \in Nat
      /\ tail <= Written /\ Written <= tail + Cap /\ Written = head + done
  BY DEF Typed, TypeOK, RegionOK, ProducerOK, RingInv, CursorInv, Written
<1>2. ASSUME NEW q \in Nat
      PROVE  At(q).seq \in Nat /\ At(q).frame \in Frames
  <2>1. q % Cap \in 0 .. Cap - 1
    BY CapAssumption, LapAndSlot
  <2> QED BY <2>1 DEF At, Typed, TypeOK, RegionOK, Slots
<1>3. ASSUME NEW q \in Nat PROVE Content(q) \in Frames
  BY <1>2 DEF Content, Typed, TypeOK, ConsumerOK
<1> QED BY <1>1, <1>2, <1>3

LEMMA FrameTypes == \A f \in Frames : f.seq \in Nat /\ f.part \in Nat /\ f.total \in Nat
BY DEF Frames

LEMMA FrameEqual ==
  ASSUME NEW f \in Frames, NEW g \in Frames, f.seq = g.seq, f.part = g.part, f.total = g.total
  PROVE  f = g
BY DEF Frames

-----------------------------------------------------------------------------
(* The producer                                                            *)

\* A step that leaves the window and the consumer alone keeps the chain.
LEMMA WindowKept ==
  ASSUME Typed, RingInv, ChainInv,
         UNCHANGED <<tail, consumer>>, Written' = Written,
         \A q \in tail .. Written - 1 : At(q)' = At(q)
  PROVE  /\ ChainInv'
         /\ \A q \in tail .. Written - 1 : Content(q)' = Content(q)
<1>1. \A q \in tail .. Written - 1 : Content(q)' = Content(q)
  BY DEF Content, consumer
<1>2. tail \in Nat /\ Written \in Nat
  BY WindowTypes
<1>3. \A q \in tail .. Written - 2 :
        q \in tail .. Written - 1 /\ q + 1 \in tail .. Written - 1
  BY <1>2
<1>4. \A q \in tail .. Written - 1 :
        /\ Content(q)'.part < Content(q)'.total
        /\ ~(q = tail /\ cpc = "advance") => At(q)'.seq = Content(q)'.seq
        /\ At(q)'.state = "COMMITTED" \/ (q = tail /\ cpc \in Holding)
  BY <1>1 DEF ChainInv
<1>5. \A q \in tail .. Written - 2 : Follows(Content(q), Content(q + 1))'
  BY <1>1, <1>3 DEF ChainInv, Follows, Last
<1>6. \A q, r \in tail .. Written - 1 : q <= r =>
        /\ Content(q)'.seq <= Content(r)'.seq
        /\ Content(r)'.seq + q <= Content(q)'.seq + r
  BY <1>1 DEF ChainInv
<1>7. ChainInv'
  BY <1>4, <1>5, <1>6 DEF ChainInv, consumer
<1> QED BY <1>1, <1>7

\* The producer's steps before it commits a slot, and they do leave the window
\* alone.
QuietSend ==
  \/ \E n \in Sizes : SendBegin(n)
  \/ SendClosed \/ WaitExpire \/ CloseProducer \/ WaitPoll \/ CheckFree
  \/ MarkWriting \/ FillSlot

LEMMA SenderKeepsWindow ==
  ASSUME Typed, RingInv, Lossless,
         QuietSend
  PROVE  /\ UNCHANGED <<head, tail, done, consumer, sent, got>>
         /\ Written' = Written
         /\ \A q \in tail .. Written - 1 : At(q)' = At(q)
<1> USE DEF QuietSend
<1>1. UNCHANGED <<head, tail, consumer, sent, got>>
  BY DEF SendBegin, SendClosed, WaitExpire, CloseProducer, WaitPoll, CheckFree, MarkWriting,
    FillSlot, region
<1>2. done' = done
  <2>1. ASSUME NEW n \in Sizes, SendBegin(n) PROVE done' = done
    <3>1. done = 0
      BY <2>1 DEF SendBegin, RingInv, CursorInv
    <3> QED BY <2>1, <3>1 DEF SendBegin, StartWriting, Refuse
  <2>2. CASE WaitPoll
    <3>1. done = 0
      BY <2>2 DEF WaitPoll, RingInv, CursorInv
    <3> QED BY <2>2, <3>1 DEF WaitPoll, StartWriting
  <2> QED BY <2>1, <2>2
       DEF SendClosed, WaitExpire, CloseProducer, CheckFree, MarkWriting, FillSlot
<1>3. \A q \in tail .. Written - 1 : At(q)' = At(q)
  <2>1. CASE MarkWriting \/ FillSlot
    <3>1. headIdx = Written % Cap /\ Written \in tail .. tail + Cap - 1
      BY <2>1, CapAssumption DEF MarkWriting, FillSlot, RingInv, CursorInv, Written, Writing,
        Typed, TypeOK, RegionOK, ProducerOK
    <3>2. \A j \in 0 .. Cap - 1 : j # headIdx => slots'[j] = slots[j]
      <4>1. slots \in Slots /\ headIdx \in 0 .. Cap - 1 /\ Seq0 \in Nat
        BY <2>1 DEF MarkWriting, FillSlot, Typed, TypeOK, RegionOK, ProducerOK, Seq0, Writing
      <4>2. [seq |-> Seq0, part |-> done, total |-> need] \in Frames
        BY <4>1 DEF Frames, Typed, TypeOK, ProducerOK
      <4>3. CASE MarkWriting
        BY <4>1, <4>3, HeaderWritten DEF MarkWriting, SlotState
      <4>4. CASE FillSlot
        BY <4>1, <4>2, <4>4, PayloadWritten DEF FillSlot
      <4> QED BY <2>1, <4>3, <4>4
    <3>3. ASSUME NEW q \in tail .. Written - 1
          PROVE  q % Cap \in 0 .. Cap - 1 /\ q % Cap # headIdx
      <4>1. q \in Nat /\ q \in tail .. tail + Cap - 1 /\ q # Written
        BY <3>1, WindowTypes, CapAssumption
      <4> QED BY <3>1, <4>1, Positions DEF RingInv
    <3> QED BY <3>2, <3>3 DEF At
  <2>2. CASE ~(MarkWriting \/ FillSlot)
    BY <2>2 DEF SendBegin, SendClosed, WaitExpire, CloseProducer, WaitPoll, CheckFree, region, At
  <2> QED BY <2>1, <2>2
<1> QED BY <1>1, <1>2, <1>3 DEF Written

\* What these steps change: the message in hand, its number and the slot being
\* filled, never the number the next slot belongs to.
LEMMA SenderChanges ==
  ASSUME Typed, RingInv, HistoryInv, Lossless,
         QuietSend
  PROVE  /\ ppc # "publish" /\ ppc' # "publish"
         /\ Writes' = Writes /\ (done > 0 => need' = need)
         /\ Len(sent) = IF ppc' \in Writing THEN nextSeq' - 1 ELSE nextSeq'
         /\ nextSeq' <= MaxSends /\ (ppc' = "wait" => nextSeq' < MaxSends)
         /\ ppc' = "commit" => At(Written)'.frame = [seq |-> Seq0, part |-> done, total |-> need]
<1> USE MaxSendsAssumption DEF QuietSend, Writes, Writing, HistoryInv, Seq0
<1>0. nextSeq \in Nat /\ nextSeq' \in Nat /\ done \in Nat
  <2>1. nextSeq \in Nat /\ done \in Nat
    BY DEF Typed, TypeOK, ProducerOK
  <2>2. nextSeq' = nextSeq \/ nextSeq' = nextSeq + 1
    BY DEF SendBegin, SendClosed, WaitExpire, CloseProducer, WaitPoll, CheckFree, MarkWriting,
      FillSlot, StartWriting, Refuse
  <2> QED BY <2>1, <2>2
<1>1. ASSUME NEW n \in Sizes, SendBegin(n)
      PROVE  \/ ppc' \in {"idle", "wait"} /\ nextSeq' = nextSeq
             \/ ppc' = "claim" /\ nextSeq' = nextSeq + 1
  BY <1>1 DEF SendBegin, StartWriting, Refuse, SendEnds, Lossless
<1>2. CASE \E n \in Sizes : SendBegin(n)
  <2>1. ppc = "idle" /\ done = 0 /\ nextSeq < MaxSends
    BY <1>2 DEF SendBegin, RingInv, CursorInv
  <2>2. \/ ppc' \in {"idle", "wait"} /\ nextSeq' = nextSeq
        \/ ppc' = "claim" /\ nextSeq' = nextSeq + 1
    BY <1>1, <1>2
  <2>3. Len(sent) = nextSeq /\ nextSeq <= MaxSends
    BY <2>1
  <2> HIDE DEF QuietSend, HistoryInv
  <2>4. CASE ppc' \in {"idle", "wait"} /\ nextSeq' = nextSeq
    BY <1>0, <2>1, <2>3, <2>4
  <2>5. CASE ppc' = "claim" /\ nextSeq' = nextSeq + 1
    BY <1>0, <2>1, <2>3, <2>5
  <2> QED BY <2>2, <2>4, <2>5
<1>3. CASE SendClosed \/ WaitExpire \/ CloseProducer
  BY <1>0, <1>3 DEF SendClosed, WaitExpire, CloseProducer, SendEnds
<1>4. CASE WaitPoll
  <2>1. done = 0 /\ ppc = "wait"
    BY <1>4 DEF WaitPoll, RingInv, CursorInv
  <2> QED BY <1>0, <1>4, <2>1 DEF WaitPoll, StartWriting
<1>5. CASE CheckFree
  <2>1. slots[headIdx].state = "FREE"
    BY <1>5, FreeAtClaim DEF CheckFree
  <2> QED BY <1>0, <1>5, <2>1 DEF CheckFree
<1>6. CASE MarkWriting
  BY <1>0, <1>6 DEF MarkWriting
<1>7. CASE FillSlot
  <2>1. slots \in Slots /\ headIdx \in 0 .. Cap - 1 /\ Seq0 \in Nat
    BY <1>7 DEF FillSlot, Typed, TypeOK, RegionOK, ProducerOK
  <2>2. [seq |-> Seq0, part |-> done, total |-> need] \in Frames
    BY <2>1 DEF Frames, Typed, TypeOK, ProducerOK
  <2>3. slots'[headIdx].frame = [seq |-> Seq0, part |-> done, total |-> need]
    BY <1>7, <2>1, <2>2, PayloadWritten DEF FillSlot
  <2>4. Written' = Written /\ headIdx = Written % Cap
    BY <1>7 DEF FillSlot, Written, RingInv, CursorInv
  <2>5. At(Written)'.frame = [seq |-> Seq0, part |-> done, total |-> need]
    BY <2>3, <2>4 DEF At
  <2> QED BY <1>0, <1>7, <2>5 DEF FillSlot
<1> QED BY <1>2, <1>3, <1>4, <1>5, <1>6, <1>7

LEMMA HealthyQuiet ==
  ASSUME Typed, RingInv, HealthyInv, Lossless,
         QuietSend
  PROVE  HealthyInv'
<1> USE DEF HealthyInv
<1>1. /\ UNCHANGED <<head, tail, done, consumer, sent, got>> /\ Written' = Written
      /\ \A q \in tail .. Written - 1 : At(q)' = At(q)
  BY SenderKeepsWindow
<1>2. /\ ppc # "publish" /\ ppc' # "publish"
      /\ Writes' = Writes /\ (done > 0 => need' = need)
      /\ Len(sent) = IF ppc' \in Writing THEN nextSeq' - 1 ELSE nextSeq'
      /\ nextSeq' <= MaxSends /\ (ppc' = "wait" => nextSeq' < MaxSends)
      /\ ppc' = "commit" => At(Written)'.frame = [seq |-> Seq0, part |-> done, total |-> need]
  <2>1. HistoryInv
    OBVIOUS
  <2> QED BY <2>1, SenderChanges
<1>3. ChainInv' /\ \A q \in tail .. Written - 1 : Content(q)' = Content(q)
  BY <1>1, WindowKept
<1>4. tail \in Nat /\ head \in Nat /\ Written \in Nat /\ done \in Nat /\ head <= Written
  BY WindowTypes DEF Typed, TypeOK, ProducerOK
<1>5. UNCHANGED <<cpc, cclosed, cTail, expected, hdrSeq, frame, total, part, cres>> /\ Has' = Has
  BY <1>1 DEF consumer, Has
<1>6. ReadEndInv'
  <2>1. tail < Written => tail \in tail .. Written - 1
    BY <1>4
  <2>2. cpc \in {"pin", "check", "release"} => tail < Written
    BY DEF RingInv, ReaderInv
  <2> QED BY <1>1, <1>3, <1>5, <2>1, <2>2 DEF ReadEndInv
<1>7. WriteEndInv'
  <2>1. ppc' = "commit" =>
          At(Written)'.frame = [seq |-> Seq0', part |-> done', total |-> need']
    <3>1. SUFFICES ASSUME ppc' = "commit" PROVE Seq0' = Seq0 /\ need' = need
      BY <1>1, <1>2
    <3> QED BY <3>1 DEF QuietSend, SendBegin, SendClosed, WaitExpire, CloseProducer, WaitPoll, CheckFree,
          MarkWriting, FillSlot, StartWriting, Refuse, SendEnds, Seq0
  <2>2. tail < Written => Written - 1 \in tail .. Written - 1
    BY <1>4
  <2>3. tail < head => head - 1 \in tail .. Written - 1
    BY <1>4
  <2>4. tail < Written =>
          IF done > 0
            THEN Content(Written - 1)' = [seq |-> Writes', part |-> done - 1, total |-> need']
            ELSE Content(Written - 1)'.seq + 1 = Writes' /\ Last(Content(Written - 1)')
    BY <1>1, <1>2, <1>3, <2>2 DEF WriteEndInv, Last
  <2>5. tail < head => Last(Content(head - 1)')
    BY <1>1, <1>3, <2>3 DEF WriteEndInv, Last
  <2> QED BY <1>1, <1>2, <2>1, <2>4, <2>5 DEF WriteEndInv
<1>8. EmptyInv'
  BY <1>1, <1>2, <1>5 DEF EmptyInv
<1>9. HistoryInv'
  BY <1>1, <1>2, <1>5 DEF HistoryInv
<1> QED BY <1>3, <1>6, <1>7, <1>8, <1>9

\* Committing a slot appends its frame to the chain.
LEMMA CommitFacts ==
  ASSUME Typed, RingInv, HealthyInv, CommitSlot, NEW w \in Nat, w = Written
  PROVE  /\ tail \in Nat /\ w < tail + Cap /\ tail <= w /\ head <= w /\ head \in Nat
         /\ done \in Nat /\ need \in Nat /\ done < need
         /\ nextSeq \in Nat /\ Seq0 \in Nat /\ Seq0 = nextSeq - 1 /\ Writes = Seq0
         /\ ppc = "commit" /\ Written' = w + 1 /\ done' = done + 1
         /\ UNCHANGED <<head, tail, consumer, nextSeq, need, got>>
         /\ \A q \in tail .. w - 1 : Content(q)' = Content(q) /\ At(q)' = At(q)
         /\ At(w)'.state = "COMMITTED" /\ At(w)'.seq = Seq0
         /\ Content(w)' = [seq |-> Seq0, part |-> done, total |-> need]
         /\ ~(w = tail /\ cpc = "advance")
<1>1. /\ tail \in Nat /\ tail <= w /\ head \in Nat /\ head <= w /\ w = head + done
      /\ done \in Nat /\ need \in Nat /\ nextSeq \in Nat /\ Seq0 \in Nat /\ Seq0 = nextSeq - 1
      /\ Writes = Seq0 /\ ppc = "commit"
      /\ headIdx = w % Cap /\ done < need /\ w < tail + Cap
      /\ headIdx \in 0 .. Cap - 1 /\ slots \in Slots
  BY WindowTypes, CapAssumption DEF CommitSlot, Typed, TypeOK, RegionOK, ProducerOK, RingInv,
    CursorInv, Writing, Written, Writes, Seq0
<1>2. UNCHANGED <<head, tail, consumer, nextSeq, need, got>> /\ done' = done + 1
  BY DEF CommitSlot
<1>3. Written' = w + 1
  BY <1>1, <1>2 DEF Written
<1>4. /\ slots'[headIdx].state = "COMMITTED" /\ slots'[headIdx].seq = Seq0
      /\ slots'[headIdx].frame = slots[headIdx].frame
      /\ \A j \in 0 .. Cap - 1 : j # headIdx => slots'[j] = slots[j]
  BY <1>1, HeaderWritten DEF CommitSlot, SlotState
<1>5. ASSUME NEW q \in tail .. w - 1 PROVE At(q)' = At(q)
  <2>1. q \in Nat /\ q \in tail .. tail + Cap - 1 /\ w \in tail .. tail + Cap - 1 /\ q # w
    BY <1>1, CapAssumption
  <2>2. q % Cap \in 0 .. Cap - 1 /\ q % Cap # headIdx
    BY <1>1, <2>1, Positions DEF RingInv
  <2> QED BY <1>4, <2>2 DEF At
<1>6. \A q \in tail .. w - 1 : Content(q)' = Content(q)
  BY <1>2, <1>5 DEF Content, consumer
<1>7. ~(w = tail /\ cpc = "advance")
  BY <1>1 DEF RingInv, ReaderInv
<1>8. /\ At(w)'.state = "COMMITTED" /\ At(w)'.seq = Seq0
      /\ At(w)'.frame = [seq |-> Seq0, part |-> done, total |-> need]
  BY <1>1, <1>4 DEF At, HealthyInv, WriteEndInv
<1>9. Content(w)' = [seq |-> Seq0, part |-> done, total |-> need]
  BY <1>2, <1>7, <1>8 DEF Content, consumer
<1> QED BY <1>1, <1>2, <1>3, <1>5, <1>6, <1>7, <1>8, <1>9

LEMMA CommitChain ==
  ASSUME Typed, RingInv, HealthyInv, CommitSlot
  PROVE  ChainInv'
<1>1. PICK w \in Nat : w = Written
  BY WindowTypes
<1>2. /\ tail \in Nat /\ w < tail + Cap /\ tail <= w
      /\ done \in Nat /\ need \in Nat /\ done < need
      /\ Seq0 \in Nat /\ Writes = Seq0 /\ Written' = w + 1
      /\ UNCHANGED <<tail, consumer>>
      /\ \A q \in tail .. w - 1 : Content(q)' = Content(q) /\ At(q)' = At(q)
      /\ At(w)'.state = "COMMITTED" /\ At(w)'.seq = Seq0
      /\ Content(w)' = [seq |-> Seq0, part |-> done, total |-> need]
      /\ ~(w = tail /\ cpc = "advance")
  BY <1>1, CommitFacts
<1>3. ChainInv /\ WriteEndInv
  BY DEF HealthyInv
<1>4. \A q \in tail .. w - 1 : Content(q) \in Frames /\ Content(q).seq \in Nat
  BY <1>2, WindowTypes, FrameTypes
<1>5. cpc' = cpc /\ tail' = tail
  BY <1>2 DEF consumer
<1>6. ASSUME NEW q \in tail .. w
      PROVE  /\ Content(q)'.part < Content(q)'.total
             /\ ~(q = tail /\ cpc = "advance") => At(q)'.seq = Content(q)'.seq
             /\ At(q)'.state = "COMMITTED" \/ (q = tail /\ cpc \in Holding)
  <2>1. CASE q = w
    BY <1>2, <2>1
  <2>2. CASE q # w
    <3>1. q \in tail .. w - 1 /\ q \in tail .. Written - 1
      BY <1>1, <1>2, <2>2
    <3> QED BY <1>2, <1>3, <3>1 DEF ChainInv
  <2> QED BY <2>1, <2>2
<1>7. tail < w => /\ Content(w - 1).seq <= Seq0 /\ Seq0 <= Content(w - 1).seq + 1
                  /\ Follows(Content(w - 1), Content(w)')
  <2>1. SUFFICES ASSUME tail < w
                 PROVE  /\ Content(w - 1).seq <= Seq0 /\ Seq0 <= Content(w - 1).seq + 1
                        /\ Follows(Content(w - 1), Content(w)')
    OBVIOUS
  <2>2. IF done > 0
          THEN Content(w - 1) = [seq |-> Seq0, part |-> done - 1, total |-> need]
          ELSE Content(w - 1).seq + 1 = Seq0 /\ Last(Content(w - 1))
    BY <1>1, <1>2, <1>3, <2>1 DEF WriteEndInv
  <2>3. Content(w - 1).seq \in Nat
    BY <1>2, <1>4, <2>1
  <2>4. CASE done > 0
    BY <1>2, <2>2, <2>4 DEF Follows, Last
  <2>5. CASE done = 0
    BY <1>2, <2>2, <2>3, <2>5 DEF Follows
  <2> QED BY <1>2, <2>4, <2>5
<1>8. ASSUME NEW q \in tail .. w - 1
      PROVE  Follows(Content(q)', Content(q + 1)')
  <2>1. CASE q = w - 1
    BY <1>2, <1>7, <2>1
  <2>2. CASE q # w - 1
    <3>1. q \in tail .. w - 1 /\ q + 1 \in tail .. w - 1 /\ q \in tail .. Written - 2
      BY <1>1, <1>2, <2>2
    <3>2. Content(q)' = Content(q) /\ Content(q + 1)' = Content(q + 1)
      BY <1>2, <3>1
    <3> QED BY <1>3, <3>1, <3>2 DEF ChainInv
  <2> QED BY <2>1, <2>2
<1>9. ASSUME NEW q \in tail .. w, NEW r \in tail .. w, q <= r
      PROVE  /\ Content(q)'.seq <= Content(r)'.seq
             /\ Content(r)'.seq + q <= Content(q)'.seq + r
  <2>1. CASE r # w
    <3>1. q \in tail .. Written - 1 /\ r \in tail .. Written - 1
      BY <1>1, <1>2, <1>9, <2>1
    <3> QED BY <1>1, <1>2, <1>3, <1>9, <3>1 DEF ChainInv
  <2>2. CASE r = w /\ q # w
    <3>1. q \in tail .. w - 1 /\ w - 1 \in tail .. w - 1 /\ q <= w - 1 /\ tail < w
      BY <1>2, <1>9, <2>2
    <3>2. /\ Content(q).seq <= Content(w - 1).seq
          /\ Content(w - 1).seq + q <= Content(q).seq + (w - 1)
      BY <1>1, <1>3, <3>1 DEF ChainInv
    <3>3. Content(q).seq \in Nat /\ Content(w - 1).seq \in Nat /\ q \in Nat
      BY <1>2, <1>4, <3>1
    <3>4. Content(q)' = Content(q) /\ Content(r)'.seq = Seq0
      BY <1>2, <2>2, <3>1
    <3> QED BY <1>2, <1>7, <2>2, <3>1, <3>2, <3>3, <3>4
  <2>3. CASE r = w /\ q = w
    BY <1>2, <2>3
  <2> QED BY <2>1, <2>2, <2>3
<1> QED BY <1>2, <1>5, <1>6, <1>8, <1>9 DEF ChainInv

LEMMA HealthyCommit ==
  ASSUME Typed, RingInv, HealthyInv, CommitSlot
  PROVE  HealthyInv'
<1>1. PICK w \in Nat : w = Written
  BY WindowTypes
<1>2. /\ tail \in Nat /\ w < tail + Cap /\ tail <= w /\ head <= w /\ head \in Nat
      /\ done \in Nat /\ need \in Nat /\ done < need
      /\ nextSeq \in Nat /\ Seq0 \in Nat /\ Seq0 = nextSeq - 1 /\ Writes = Seq0
      /\ ppc = "commit" /\ Written' = w + 1 /\ done' = done + 1
      /\ UNCHANGED <<head, tail, consumer, nextSeq, need, got>>
      /\ \A q \in tail .. w - 1 : Content(q)' = Content(q) /\ At(q)' = At(q)
      /\ Content(w)' = [seq |-> Seq0, part |-> done, total |-> need]
  BY <1>1, CommitFacts
<1>3. ChainInv /\ ReadEndInv /\ WriteEndInv /\ EmptyInv /\ HistoryInv
  BY DEF HealthyInv
<1>4. UNCHANGED <<cpc, cclosed, cTail, expected, hdrSeq, frame, total, part, cres>> /\ Has' = Has
  BY <1>2 DEF consumer, Has
<1>5. ReadEndInv'
  <2>1. CASE tail < w
    <3>1. tail \in tail .. w - 1
      BY <1>2, <2>1
    <3> QED BY <1>1, <1>2, <1>3, <1>4, <2>1, <3>1 DEF ReadEndInv
  <2>2. CASE tail = w
    <3>1. expected = Seq0 /\ Has = done /\ (done > 0 => total = need)
      BY <1>1, <1>2, <1>3, <2>2 DEF EmptyInv
    <3>2. cpc \in {"idle", "probe", "retry", "gate"}
      BY <1>1, <1>2, <2>2 DEF RingInv, ReaderInv, Typed, TypeOK, ConsumerOK
    <3>3. Content(tail)' = [seq |-> Seq0, part |-> done, total |-> need]
      BY <1>2, <2>2
    <3> QED BY <1>2, <1>3, <1>4, <3>1, <3>2, <3>3 DEF ReadEndInv, Holding
  <2> QED BY <1>2, <2>1, <2>2
<1>6. ppc' \in {"claim", "publish"} /\ Writes' = Seq0
  BY <1>2 DEF CommitSlot, Writes, Writing, Seq0
<1>7. WriteEndInv'
  <2>1. Written' - 1 = w /\ done' - 1 = done /\ done' > 0
    BY <1>2
  <2>2. Content(Written - 1)' = [seq |-> Writes', part |-> done' - 1, total |-> need']
    BY <1>2, <1>6, <2>1 DEF Content
  <2>3. tail < head => Last(Content(head - 1))'
    <3>1. SUFFICES ASSUME tail < head PROVE Last(Content(head - 1)')
      BY <1>2
    <3>2. head - 1 \in tail .. w - 1
      BY <1>2, <3>1
    <3> QED BY <1>2, <1>3, <3>1, <3>2 DEF WriteEndInv, Last
  <2> QED BY <1>2, <1>6, <2>1, <2>2, <2>3 DEF WriteEndInv
<1>8. EmptyInv'
  BY <1>2 DEF EmptyInv
<1>9. HistoryInv'
  <2>1. Len(sent) = nextSeq - 1 /\ sent \in Seq(Nat)
    BY <1>2, <1>3 DEF HistoryInv, Writing, Typed, TypeOK, HistoryOK
  <2>2. \/ ppc' = "claim" /\ sent' = sent
        \/ ppc' = "publish" /\ sent' = Append(sent, Seq0)
    BY <1>2 DEF CommitSlot
  <2>3. CASE ppc' = "claim" /\ sent' = sent
    BY <1>2, <1>3, <1>4, <2>1, <2>3 DEF HistoryInv, Writing
  <2>4. CASE ppc' = "publish" /\ sent' = Append(sent, Seq0)
    <3>1. /\ Len(sent') = nextSeq
          /\ \A i \in 1 .. Len(sent) : sent'[i] = sent[i]
          /\ sent'[Len(sent) + 1] = Seq0
      BY <1>2, <2>1, <2>4, AppendProperties
    <3>2. \A i \in 1 .. Len(sent') : sent'[i] = i - 1
      <4>1. ASSUME NEW i \in 1 .. Len(sent') PROVE sent'[i] = i - 1
        <5>1. i \in 1 .. Len(sent) \/ i = Len(sent) + 1
          BY <1>2, <2>1, <3>1
        <5> QED BY <1>2, <1>3, <2>1, <3>1, <5>1 DEF HistoryInv
      <4> QED BY <4>1
    <3> QED BY <1>2, <1>3, <1>4, <2>4, <3>1, <3>2 DEF HistoryInv, Writing
  <2> QED BY <2>2, <2>3, <2>4
<1>10. ChainInv'
  BY CommitChain
<1> QED BY <1>5, <1>7, <1>8, <1>9, <1>10 DEF HealthyInv

LEMMA HealthyPublish ==
  ASSUME Typed, RingInv, HealthyInv, PublishHead
  PROVE  HealthyInv'
<1>1. /\ tail \in Nat /\ head \in Nat /\ Written \in Nat /\ tail <= Written
      /\ done \in Nat /\ need \in Nat /\ nextSeq \in Nat /\ Seq0 = nextSeq - 1 /\ Writes = Seq0
      /\ done = need /\ done > 0 /\ ppc = "publish" /\ Written = head + done
  BY WindowTypes DEF PublishHead, Typed, TypeOK, ProducerOK, RingInv, CursorInv, Writing, Writes,
    Seq0, HealthyInv, WriteEndInv
<1>2. /\ UNCHANGED <<tail, slots, nextSeq, need, consumer, sent, got>>
      /\ ppc' = "idle" /\ done' = 0 /\ head' = Written /\ Written' = Written
  BY <1>1 DEF PublishHead, SendEnds, Written
<1>3. ChainInv /\ ReadEndInv /\ WriteEndInv /\ EmptyInv /\ HistoryInv
  BY DEF HealthyInv
<1>4. UNCHANGED <<cpc, cclosed, cTail, expected, hdrSeq, frame, total, part, cres>> /\ Has' = Has
  BY <1>2 DEF consumer, Has
<1>5. (\A q \in tail .. Written - 1 : At(q)' = At(q)) /\ UNCHANGED <<tail, consumer>>
  BY <1>2 DEF At
<1>6. ChainInv' /\ \A q \in tail .. Written - 1 : Content(q)' = Content(q)
  BY <1>2, <1>3, <1>5, WindowKept
<1>7. ReadEndInv'
  <2>1. tail < Written => tail \in tail .. Written - 1
    BY <1>1
  <2>2. cpc \in {"pin", "check", "release"} => tail < Written
    BY DEF RingInv, ReaderInv
  <2> QED BY <1>1, <1>2, <1>3, <1>4, <1>5, <1>6, <2>1, <2>2 DEF ReadEndInv
<1>8. Writes' = nextSeq
  BY <1>2 DEF Writes, Writing
<1>9. WriteEndInv'
  <2>1. SUFFICES ASSUME tail < Written
                 PROVE  Content(Written - 1)'.seq + 1 = nextSeq /\ Last(Content(Written - 1)')
    BY <1>2, <1>8 DEF WriteEndInv
  <2>2. Content(Written - 1) = [seq |-> Seq0, part |-> done - 1, total |-> need]
    BY <1>1, <1>3, <2>1 DEF WriteEndInv
  <2>3. Content(Written - 1)' = Content(Written - 1)
    <3>1. Written - 1 \in tail .. Written - 1
      BY <1>1, <2>1
    <3> QED BY <1>2, <1>6, <3>1
  <2> QED BY <1>1, <2>2, <2>3 DEF Last
<1>10. EmptyInv'
  BY <1>1, <1>2, <1>3, <1>4, <1>8 DEF EmptyInv
<1>11. HistoryInv'
  BY <1>1, <1>2, <1>3, <1>4 DEF HistoryInv, Writing
<1> QED BY <1>6, <1>7, <1>9, <1>10, <1>11 DEF HealthyInv

-----------------------------------------------------------------------------
(* The consumer                                                            *)

QuietRecv ==
  \/ RecvBegin \/ TryBegin \/ TryProbe \/ Gate \/ GateFails \/ CopyPayload \/ CheckPinned
  \/ CloseConsumer

\* A gate that finds the slot at the tail unreadable stands at the start of a
\* message and on an open handle.
LEMMA GateFailsEarly ==
  ASSUME Typed, RingInv, HealthyInv, GraceEnds = FALSE, GateFails
  PROVE  ~cclosed /\ part = 0
<1>1. cpc = "gate" /\ cTail = tail /\ At(tail).state # "COMMITTED"
  BY DEF GateFails, RingInv, ReaderInv, TailIdx, At
<1>2. ~(tail < Written)
  <2>1. SUFFICES ASSUME tail < Written PROVE FALSE
    OBVIOUS
  <2>2. tail \in tail .. Written - 1
    BY <2>1, WindowTypes
  <2> QED BY <1>1, <2>2 DEF HealthyInv, ChainInv, Holding
<1>3. ~(tail < head)
  BY <1>2, WindowTypes DEF Typed, TypeOK, ProducerOK
<1>4. ~cclosed
  BY <1>1, <1>3 DEF HealthyInv, ReadEndInv, Typed, TypeOK, ConsumerOK
<1> QED BY <1>4 DEF GateFails

\* The steps that write no slot and move no cursor leave the window alone.
LEMMA RecvChanges ==
  ASSUME Typed, RingInv, HealthyInv, GraceEnds = FALSE, QuietRecv
  PROVE  /\ UNCHANGED <<region, producer, expected, total, sent, got>> /\ Written' = Written
         /\ cpc # "advance" /\ cpc' # "advance" /\ Has' = Has
         /\ cpc' \in Holding <=> cpc \in Holding
         /\ cpc' \in {"probe", "retry"} => part' = 0
         /\ cpc' \in {"copy", "pin"} \cup Holding => hdrSeq' = expected
         /\ cpc' \in {"pin", "check", "release"} => frame' = At(tail).frame
         /\ cpc' \in Holding => total = frame'.total
         /\ cclosed' /\ cpc' # "idle" => tail < head
<1> USE DEF Holding, Has
<1>1. ReadEndInv
  BY DEF HealthyInv
<1>2. UNCHANGED <<region, producer, expected, total, sent, got>> /\ Written' = Written
  BY DEF QuietRecv, RecvBegin, TryBegin, TryProbe, Refreshed, Gate, GateFails, CopyPayload,
    CheckPinned, CloseConsumer, region, producer, Written
<1>3. CASE RecvBegin \/ TryBegin
  <2>1. cpc \in {"idle", "retry"} /\ cpc' \in {"gate", "probe", "idle"} /\ part' = 0
    BY <1>3 DEF RecvBegin, TryBegin, Refreshed, RecvEnds
  <2>2. cclosed' /\ cpc' # "idle" => tail < head
    <3>1. head \in Nat /\ tail \in Nat /\ ~(tail < head) => CursorDepth(head, tail) = 0
      BY CapAssumption DEF CursorDepth, Smaller
    <3>2. cclosed' = cclosed /\ (cclosed /\ CursorDepth(head, tail) = 0 => cpc' = "idle")
      BY <1>3 DEF RecvBegin, TryBegin, Refreshed, RecvEnds
    <3> QED BY <3>1, <3>2, WindowTypes
  <2>3. Has' = Has
    BY <1>1, <2>1 DEF ReadEndInv
  <2> QED BY <1>2, <2>1, <2>2, <2>3
<1>4. CASE TryProbe
  BY <1>1, <1>2, <1>4 DEF TryProbe, RecvEnds, ReadEndInv
<1>5. CASE Gate
  <2>1. cTail = tail /\ TailIdx = tail % Cap /\ At(tail).state = "COMMITTED"
    BY <1>5 DEF Gate, RingInv, ReaderInv, TailIdx, At
  <2>2. tail < Written
    <3>1. RingInv'
      BY <1>5, RingConsumerLocal
    <3>2. cpc' = "copy" /\ tail' = tail
      BY <1>5 DEF Gate, region
    <3> QED BY <1>2, <3>1, <3>2 DEF RingInv, ReaderInv
  <2>3. tail \in tail .. Written - 1
    BY <2>2, WindowTypes
  <2>4. hdrSeq' = expected
    BY <1>1, <1>5, <2>1, <2>2, <2>3 DEF Gate, HealthyInv, ChainInv, ReadEndInv, At
  <2> QED BY <1>1, <1>2, <1>5, <2>4 DEF Gate, ReadEndInv
<1>6. CASE GateFails
  <2>1. ~cclosed /\ part = 0
    BY <1>6, GateFailsEarly
  <2> QED BY <1>2, <1>6, <2>1 DEF GateFails, RecvEnds
<1>7. CASE CopyPayload
  <2>1. cTail = tail
    BY <1>7 DEF CopyPayload, RingInv, ReaderInv
  <2> QED BY <1>1, <1>2, <1>7, <2>1 DEF CopyPayload, ReadEndInv, TailIdx, At
<1>8. CASE CheckPinned
  <2>1. slots[TailIdx].state = "PINNED"
    BY <1>8 DEF CheckPinned, RingInv, ReaderInv, TailIdx, At
  <2> QED BY <1>1, <1>2, <1>8, <2>1 DEF CheckPinned, ReadEndInv
<1>9. CASE CloseConsumer
  BY <1>1, <1>2, <1>9 DEF CloseConsumer, ReadEndInv
<1> QED BY <1>3, <1>4, <1>5, <1>6, <1>7, <1>8, <1>9 DEF QuietRecv

LEMMA HealthyRecvQuiet ==
  ASSUME Typed, RingInv, HealthyInv, GraceEnds = FALSE, QuietRecv
  PROVE  HealthyInv'
<1>1. /\ UNCHANGED <<region, producer, expected, total, sent, got>> /\ Written' = Written
      /\ cpc # "advance" /\ cpc' # "advance" /\ Has' = Has
      /\ cpc' \in Holding <=> cpc \in Holding
      /\ cpc' \in {"probe", "retry"} => part' = 0
      /\ cpc' \in {"copy", "pin"} \cup Holding => hdrSeq' = expected
      /\ cpc' \in {"pin", "check", "release"} => frame' = At(tail).frame
      /\ cpc' \in Holding => total = frame'.total
      /\ cclosed' /\ cpc' # "idle" => tail < head
  BY RecvChanges
<1>2. ChainInv /\ ReadEndInv /\ WriteEndInv /\ EmptyInv /\ HistoryInv
  BY DEF HealthyInv
<1>3. UNCHANGED <<head, tail, slots, ppc, nextSeq, need, done>>
  BY <1>1 DEF region, producer
<1>4. \A q \in Nat : At(q)' = At(q) /\ Content(q)' = Content(q)
  BY <1>1, <1>3 DEF At, Content
<1>5. tail \in Nat /\ Written \in Nat /\ head \in Nat
  BY WindowTypes
<1>6. ChainInv'
  <2>1. \A q \in tail .. Written - 1 : q \in Nat /\ q + 1 \in Nat
    BY <1>5
  <2>2. \A q \in tail .. Written - 2 : q \in tail .. Written - 1
    BY <1>5
  <2>3. ASSUME NEW q \in tail .. Written - 1
        PROVE  /\ Content(q)'.part < Content(q)'.total
               /\ At(q)'.seq = Content(q)'.seq
               /\ At(q)'.state = "COMMITTED" \/ (q = tail /\ cpc' \in Holding)
    <3>1. At(q)' = At(q) /\ Content(q)' = Content(q)
      BY <1>4, <2>1
    <3> QED BY <1>1, <1>2, <3>1 DEF ChainInv
  <2>4. \A q \in tail .. Written - 2 : Follows(Content(q)', Content(q + 1)')
    BY <1>2, <1>4, <2>1, <2>2 DEF ChainInv
  <2>5. \A q, r \in tail .. Written - 1 : q <= r =>
          /\ Content(q)'.seq <= Content(r)'.seq
          /\ Content(r)'.seq + q <= Content(q)'.seq + r
    BY <1>2, <1>4, <2>1 DEF ChainInv
  <2> QED BY <1>1, <1>3, <2>3, <2>4, <2>5 DEF ChainInv
<1>7. ReadEndInv'
  BY <1>1, <1>2, <1>3, <1>4, <1>5 DEF ReadEndInv
<1>8. WriteEndInv'
  <2>1. tail < Written => Written - 1 \in Nat
    BY <1>5
  <2>2. tail < head => head - 1 \in Nat
    BY <1>5
  <2>3. Writes' = Writes /\ Seq0' = Seq0
    BY <1>3 DEF Writes, Seq0
  <2> QED BY <1>1, <1>2, <1>3, <1>4, <1>5, <2>1, <2>2, <2>3 DEF WriteEndInv, Last
<1>9. EmptyInv'
  BY <1>1, <1>2, <1>3 DEF EmptyInv, Writes, Seq0
<1>10. HistoryInv'
  BY <1>1, <1>2, <1>3 DEF HistoryInv
<1> QED BY <1>6, <1>7, <1>8, <1>9, <1>10 DEF HealthyInv

\* Whatever the consumer copied is the chunk it wants, so every check passes.
LEMMA Taken ==
  ASSUME Typed, RingInv, HealthyInv, cpc \in {"pin", "check", "release", "advance"}
  PROVE  /\ tail \in Nat /\ tail < Written /\ cTail = tail /\ TailIdx = tail % Cap
         /\ TailIdx \in 0 .. Cap - 1 /\ Content(tail) = frame /\ frame \in Frames
         /\ frame.seq = expected /\ frame.part = part /\ part < frame.total /\ Has = part
         /\ hdrSeq = expected /\ Verdict = "take" /\ (cpc # "pin" => total = frame.total)
         /\ part > 0 => frame.total = total
<1>1. tail < Written /\ cTail = tail /\ tail \in Nat /\ part \in Nat /\ frame \in Frames
      /\ TailIdx = tail % Cap /\ TailIdx \in 0 .. Cap - 1
  BY WindowTypes, Positions DEF RingInv, ReaderInv, TailIdx, Typed, TypeOK, ConsumerOK
<1>2. tail \in tail .. Written - 1
  BY <1>1, WindowTypes
<1>3. ReadEndInv /\ Has = part
  BY DEF HealthyInv, Has
<1>4. Content(tail) = frame
  BY <1>3 DEF ReadEndInv, Content
<1>5. frame.seq = expected /\ frame.part = part /\ part < frame.total
  BY <1>1, <1>2, <1>3, <1>4 DEF ReadEndInv, HealthyInv, ChainInv
<1>6. hdrSeq = expected /\ (cpc # "pin" => total = frame.total) /\ (part > 0 => frame.total = total)
  BY <1>1, <1>3, <1>4 DEF ReadEndInv, Holding
<1>7. Verdict = "take"
  <2>1. CASE part = 0
    BY <1>1, <1>5, <1>6, <2>1, FrameTypes DEF Verdict, FirstVerdict
  <2>2. CASE part > 0
    <3>1. frame = [seq |-> expected, part |-> part, total |-> total]
      BY <1>1, <1>5, <1>6, <2>2 DEF Frames
    <3> QED BY <1>6, <2>2, <3>1 DEF Verdict, NextVerdict
  <2> QED BY <1>1, <2>1, <2>2
<1> QED BY <1>1, <1>3, <1>4, <1>5, <1>6, <1>7

\* Pinning and releasing the slot at the tail keep the frame it stands for.
LEMMA HeldSlot ==
  ASSUME Typed, RingInv, HealthyInv, PinSlot \/ FreeTail
  PROVE  /\ UNCHANGED <<head, tail, producer, cclosed, expected, hdrSeq, frame, part, sent, got>>
         /\ Written' = Written /\ cpc' \in Holding /\ total' = frame.total /\ Has' = Has
         /\ \A q \in tail .. Written - 1 : Content(q)' = Content(q)
         /\ \A q \in tail + 1 .. Written - 1 : At(q)' = At(q)
         /\ cpc' = "advance" \/ (At(tail)'.seq = expected /\ At(tail)'.frame = frame)
<1>1. cpc \in {"pin", "release"}
  BY DEF PinSlot, FreeTail
<1>2. /\ tail \in Nat /\ tail < Written /\ TailIdx = tail % Cap /\ TailIdx \in 0 .. Cap - 1
      /\ Content(tail) = frame /\ hdrSeq = expected /\ Verdict = "take" /\ part \in Nat
      /\ (cpc # "pin" => total = frame.total) /\ (part > 0 => frame.total = total)
  BY <1>1, Taken DEF Typed, TypeOK, ConsumerOK
<1>3. UNCHANGED <<head, tail, producer, cclosed, expected, hdrSeq, frame, part, sent, got>>
  BY DEF PinSlot, FreeTail
<1>4. Written' = Written
  BY <1>3 DEF Written, producer
<1>5. /\ \A j \in 0 .. Cap - 1 : j # TailIdx => slots'[j] = slots[j]
      /\ PinSlot => slots'[TailIdx].seq = hdrSeq /\ slots'[TailIdx].frame = slots[TailIdx].frame
  BY <1>2, HeaderWritten, SlotReleased
  DEF PinSlot, FreeTail, SlotState, Typed, TypeOK, RegionOK, ConsumerOK
<1>6. ASSUME NEW q \in tail + 1 .. Written - 1 PROVE At(q)' = At(q)
  <2>1. q \in Nat /\ q # tail /\ q \in tail .. tail + Cap - 1 /\ tail \in tail .. tail + Cap - 1
    BY <1>2, WindowTypes, CapAssumption
  <2>2. q % Cap \in 0 .. Cap - 1 /\ q % Cap # TailIdx
    BY <1>2, <2>1, Positions DEF RingInv
  <2> QED BY <1>5, <2>2 DEF At
<1>7. /\ cpc' = IF PinSlot THEN "check" ELSE "advance"
      /\ total' = frame.total
  <2>1. CASE PinSlot
    BY <1>1, <1>2, <2>1 DEF PinSlot
  <2>2. CASE FreeTail
    BY <1>2, <2>2 DEF PinSlot, FreeTail
  <2> QED BY <2>1, <2>2
<1>8. cpc' = "advance" \/ (At(tail)'.seq = expected /\ At(tail)'.frame = frame)
  <2>1. CASE PinSlot
    <3>1. At(tail)'.seq = hdrSeq /\ At(tail)'.frame = At(tail).frame
      BY <1>2, <1>3, <1>5, <2>1 DEF At
    <3>2. At(tail).frame = frame
      BY <1>2, <2>1 DEF PinSlot, Content
    <3> QED BY <1>2, <3>1, <3>2
  <2> QED BY <1>7, <2>1
<1>9. ASSUME NEW q \in tail .. Written - 1 PROVE Content(q)' = Content(q)
  <2>1. CASE q = tail
    BY <1>2, <1>3, <1>8, <2>1 DEF Content
  <2>2. CASE q # tail
    <3>1. q \in tail + 1 .. Written - 1
      BY <1>2, <2>2, WindowTypes
    <3> QED BY <1>3, <1>6, <2>2, <3>1 DEF Content
  <2> QED BY <2>1, <2>2
<1>10. Has' = Has
  BY <1>1, <1>3, <1>7 DEF Has
<1> QED BY <1>3, <1>4, <1>6, <1>7, <1>8, <1>9, <1>10 DEF Holding

LEMMA HealthyHeld ==
  ASSUME Typed, RingInv, HealthyInv, PinSlot \/ FreeTail
  PROVE  HealthyInv'
<1>1. /\ UNCHANGED <<head, tail, producer, cclosed, expected, hdrSeq, frame, part, sent, got>>
      /\ Written' = Written /\ cpc' \in Holding /\ total' = frame.total /\ Has' = Has
      /\ \A q \in tail .. Written - 1 : Content(q)' = Content(q)
      /\ \A q \in tail + 1 .. Written - 1 : At(q)' = At(q)
      /\ cpc' = "advance" \/ (At(tail)'.seq = expected /\ At(tail)'.frame = frame)
  BY HeldSlot
<1>2. /\ tail \in Nat /\ tail < Written /\ Written \in Nat /\ head \in Nat /\ Content(tail) = frame
      /\ frame.seq = expected /\ frame.part = part /\ hdrSeq = expected /\ Has = part
      /\ cpc # "idle" /\ cpc # "advance"
  BY Taken, WindowTypes DEF PinSlot, FreeTail
<1>3. ChainInv /\ ReadEndInv /\ WriteEndInv /\ HistoryInv
  BY DEF HealthyInv
<1>4. UNCHANGED <<ppc, nextSeq, need, done>> /\ tail \in tail .. Written - 1
  BY <1>1, <1>2 DEF producer
<1>5. ChainInv'
  <2>1. ASSUME NEW q \in tail .. Written - 1
        PROVE  /\ Content(q)'.part < Content(q)'.total
               /\ ~(q = tail /\ cpc' = "advance") => At(q)'.seq = Content(q)'.seq
               /\ At(q)'.state = "COMMITTED" \/ (q = tail /\ cpc' \in Holding)
    <3>1. CASE q = tail
      BY <1>1, <1>2, <1>3, <3>1 DEF ChainInv
    <3>2. CASE q # tail
      <4>1. q \in tail + 1 .. Written - 1
        BY <1>2, <3>2
      <4> QED BY <1>1, <1>3, <3>2, <4>1 DEF ChainInv
    <3> QED BY <3>1, <3>2
  <2>2. \A q \in tail .. Written - 2 : Follows(Content(q)', Content(q + 1)')
    <3>1. \A q \in tail .. Written - 2 :
            q \in tail .. Written - 1 /\ q + 1 \in tail .. Written - 1
      BY <1>2
    <3> QED BY <1>1, <1>3, <3>1 DEF ChainInv
  <2>3. \A q, r \in tail .. Written - 1 : q <= r =>
          /\ Content(q)'.seq <= Content(r)'.seq
          /\ Content(r)'.seq + q <= Content(q)'.seq + r
    BY <1>1, <1>3 DEF ChainInv
  <2> QED BY <1>1, <2>1, <2>2, <2>3 DEF ChainInv
<1>6. ReadEndInv'
  BY <1>1, <1>2, <1>3, <1>4 DEF ReadEndInv, Holding
<1>7. WriteEndInv'
  <2>1. Written - 1 \in tail .. Written - 1
    BY <1>2
  <2>2. tail < head => head - 1 \in tail .. Written - 1
    BY WindowTypes DEF Typed, TypeOK, ProducerOK
  <2>3. ppc = "commit" => At(Written)' = At(Written)
    <3>1. SUFFICES ASSUME ppc = "commit" PROVE At(Written)' = At(Written)
      OBVIOUS
    <3>2. Written \in tail .. tail + Cap - 1 /\ tail \in tail .. tail + Cap - 1 /\ Written # tail
      BY <1>2, <3>1, CapAssumption DEF RingInv, CursorInv, Writing, Written, Typed, TypeOK, RegionOK,
        ProducerOK
    <3>3. Written % Cap # tail % Cap /\ Written % Cap \in 0 .. Cap - 1
      BY <1>2, <3>2, Positions DEF RingInv
    <3>4. TailIdx = tail % Cap /\ TailIdx \in 0 .. Cap - 1
      BY Taken DEF PinSlot, FreeTail
    <3>5. slots'[Written % Cap] = slots[Written % Cap]
      BY <3>3, <3>4, HeaderWritten, SlotReleased
      DEF PinSlot, FreeTail, SlotState, Typed, TypeOK, RegionOK, ConsumerOK
    <3> QED BY <1>1, <3>5 DEF At
  <2>4. Writes' = Writes /\ Seq0' = Seq0
    BY <1>4 DEF Writes, Seq0
  <2> QED BY <1>1, <1>2, <1>3, <1>4, <2>1, <2>2, <2>3, <2>4 DEF WriteEndInv, Last
<1>8. EmptyInv'
  BY <1>1, <1>2 DEF EmptyInv
<1>9. HistoryInv'
  BY <1>1, <1>3, <1>4 DEF HistoryInv
<1> QED BY <1>5, <1>6, <1>7, <1>8, <1>9 DEF HealthyInv

\* The tail moves off one chunk, the last of its message or not.
LEMMA AdvanceFacts ==
  ASSUME Typed, RingInv, HealthyInv, AdvanceTail
  PROVE  /\ tail \in Nat /\ tail < Written /\ Written \in Nat /\ head \in Nat /\ done \in Nat
         /\ part \in Nat /\ expected \in Nat /\ nextSeq \in Nat /\ need \in Nat
         /\ Content(tail) = frame /\ frame.seq = expected /\ frame.part = part
         /\ part < frame.total /\ total = frame.total /\ frame \in Frames /\ total \in Nat
         /\ UNCHANGED <<head, slots, producer, cclosed, total, sent>>
         /\ tail' = tail + 1 /\ Written' = Written /\ cpc' \in {"gate", "idle"}
         /\ \A q \in tail + 1 .. Written - 1 :
              Content(q)' = Content(q) /\ At(q)' = At(q) /\ Content(q) \in Frames
         /\ \/ /\ ~Last(frame) /\ cpc' = "gate" /\ Has' = part + 1
               /\ UNCHANGED <<expected, got>>
            \/ /\ Last(frame) /\ cpc' = "idle" /\ Has' = 0
               /\ expected' = expected + 1 /\ got' = Append(got, expected)
<1>1. /\ tail \in Nat /\ tail < Written /\ cTail = tail /\ frame \in Frames
      /\ Content(tail) = frame /\ frame.seq = expected /\ frame.part = part
      /\ part < frame.total /\ total = frame.total /\ Verdict = "take"
  BY Taken DEF AdvanceTail
<1>2. /\ Written \in Nat /\ head \in Nat /\ done \in Nat /\ need \in Nat
      /\ part \in Nat /\ expected \in Nat /\ nextSeq \in Nat /\ total \in Nat
  BY WindowTypes DEF Typed, TypeOK, ProducerOK, ConsumerOK
<1>3. UNCHANGED <<head, slots, producer, cclosed, total, sent>> /\ Written' = Written
  BY DEF AdvanceTail, producer, Written
<1>4. tail' = tail + 1
  BY <1>1 DEF AdvanceTail, FetchMaxTail, Larger
<1>5. \/ ~LastPart /\ cpc' = "gate" /\ part' = part + 1 /\ UNCHANGED <<expected, got>>
      \/ LastPart /\ cpc' = "idle" /\ expected' = expected + 1 /\ got' = Append(got, frame.seq)
  BY <1>1 DEF AdvanceTail, RecvEnds
<1>6. LastPart = Last(frame)
  BY <1>1, <1>2 DEF LastPart, Last
<1>7. ASSUME NEW q \in tail + 1 .. Written - 1
      PROVE  Content(q)' = Content(q) /\ At(q)' = At(q) /\ Content(q) \in Frames
  <2>1. q \in Nat /\ q # tail
    BY <1>1
  <2>2. At(q)' = At(q) /\ cpc' # "advance"
    BY <1>3, <1>5 DEF At
  <2> QED BY <2>1, <2>2, WindowTypes DEF Content
<1>8. \/ ~Last(frame) /\ cpc' = "gate" /\ Has' = part + 1 /\ UNCHANGED <<expected, got>>
      \/ /\ Last(frame) /\ cpc' = "idle" /\ Has' = 0
         /\ expected' = expected + 1 /\ got' = Append(got, expected)
  BY <1>1, <1>5, <1>6 DEF Has
<1> QED BY <1>1, <1>2, <1>3, <1>4, <1>7, <1>8

\* What the chunk the tail leaves says of the rest of the window.
LEMMA AdvanceWindow ==
  ASSUME Typed, RingInv, HealthyInv, AdvanceTail
  PROVE  /\ tail + 1 < Written => Follows(frame, Content(tail + 1))
         /\ tail + 1 = Written =>
              IF done > 0 THEN frame = [seq |-> Writes, part |-> done - 1, total |-> need]
                          ELSE frame.seq + 1 = Writes /\ Last(frame)
         /\ tail + 1 = head => Last(frame)
<1>1. tail \in Nat /\ tail < Written /\ Written \in Nat /\ head \in Nat /\ Content(tail) = frame
  BY AdvanceFacts
<1>2. ChainInv /\ WriteEndInv
  BY DEF HealthyInv
<1>3. tail + 1 < Written => Follows(frame, Content(tail + 1))
  <2>1. tail + 1 < Written => tail \in tail .. Written - 2
    BY <1>1
  <2> QED BY <1>1, <1>2, <2>1 DEF ChainInv
<1>4. tail + 1 = Written =>
        IF done > 0 THEN frame = [seq |-> Writes, part |-> done - 1, total |-> need]
                    ELSE frame.seq + 1 = Writes /\ Last(frame)
  <2>1. tail + 1 = Written => Written - 1 = tail
    BY <1>1
  <2> QED BY <1>1, <1>2, <2>1 DEF WriteEndInv
<1>5. tail + 1 = head => Last(frame)
  <2>1. tail + 1 = head => head - 1 = tail /\ tail < head
    BY <1>1
  <2> QED BY <1>1, <1>2, <2>1 DEF WriteEndInv
<1> QED BY <1>3, <1>4, <1>5

LEMMA AdvanceChain ==
  ASSUME Typed, RingInv, HealthyInv, AdvanceTail
  PROVE  ChainInv'
<1>1. /\ tail \in Nat /\ Written \in Nat /\ tail' = tail + 1 /\ Written' = Written
      /\ cpc' # "advance"
      /\ \A q \in tail + 1 .. Written - 1 : Content(q)' = Content(q) /\ At(q)' = At(q)
  BY AdvanceFacts
<1>2. ChainInv
  BY DEF HealthyInv
<1>3. \A q \in tail + 1 .. Written - 1 : q \in tail .. Written - 1 /\ q # tail
  BY <1>1
<1>4. \A q \in tail + 1 .. Written - 2 :
        q \in tail .. Written - 2 /\ q \in tail + 1 .. Written - 1 /\ q + 1 \in tail + 1 .. Written - 1
  BY <1>1
<1>5. \A q \in tail + 1 .. Written - 1 :
        /\ Content(q)'.part < Content(q)'.total
        /\ At(q)'.seq = Content(q)'.seq
        /\ At(q)'.state = "COMMITTED"
  BY <1>1, <1>2, <1>3 DEF ChainInv
<1>6. \A q \in tail + 1 .. Written - 2 : Follows(Content(q)', Content(q + 1)')
  BY <1>1, <1>2, <1>4 DEF ChainInv
<1>7. \A q, r \in tail + 1 .. Written - 1 : q <= r =>
        /\ Content(q)'.seq <= Content(r)'.seq
        /\ Content(r)'.seq + q <= Content(q)'.seq + r
  BY <1>1, <1>2, <1>3 DEF ChainInv
<1> QED BY <1>1, <1>5, <1>6, <1>7 DEF ChainInv

LEMMA HealthyAdvance ==
  ASSUME Typed, RingInv, HealthyInv, AdvanceTail
  PROVE  HealthyInv'
<1>1. /\ tail \in Nat /\ tail < Written /\ Written \in Nat /\ head \in Nat /\ done \in Nat
      /\ part \in Nat /\ expected \in Nat /\ nextSeq \in Nat /\ need \in Nat
      /\ Content(tail) = frame /\ frame.seq = expected /\ frame.part = part
      /\ part < frame.total /\ total = frame.total /\ frame \in Frames /\ total \in Nat
      /\ UNCHANGED <<head, slots, producer, cclosed, total, sent>>
      /\ tail' = tail + 1 /\ Written' = Written /\ cpc' \in {"gate", "idle"}
      /\ \A q \in tail + 1 .. Written - 1 :
           Content(q)' = Content(q) /\ At(q)' = At(q) /\ Content(q) \in Frames
      /\ \/ /\ ~Last(frame) /\ cpc' = "gate" /\ Has' = part + 1
            /\ UNCHANGED <<expected, got>>
         \/ /\ Last(frame) /\ cpc' = "idle" /\ Has' = 0
            /\ expected' = expected + 1 /\ got' = Append(got, expected)
  BY AdvanceFacts
<1>2. /\ tail + 1 < Written => Follows(frame, Content(tail + 1))
      /\ tail + 1 = Written =>
           IF done > 0 THEN frame = [seq |-> Writes, part |-> done - 1, total |-> need]
                       ELSE frame.seq + 1 = Writes /\ Last(frame)
      /\ tail + 1 = head => Last(frame)
  BY AdvanceWindow
<1>3. ReadEndInv /\ WriteEndInv /\ HistoryInv
  BY DEF HealthyInv
<1>4. UNCHANGED <<ppc, nextSeq, need, done>> /\ Writes' = Writes /\ Seq0' = Seq0 /\ cpc # "idle"
  BY <1>1 DEF producer, Writes, Seq0, AdvanceTail
<1>5. tail + 1 < Written => tail + 1 \in tail + 1 .. Written - 1
  BY <1>1
<1>6. ReadEndInv'
  <2>1. tail + 1 < Written =>
          /\ Content(tail + 1).seq = expected' /\ Content(tail + 1).part = Has'
          /\ Has' > 0 => Content(tail + 1).total = total
    BY <1>1, <1>2 DEF Follows
  <2>2. cclosed' /\ cpc' # "idle" => tail + 1 < head
    BY <1>1, <1>2, <1>3, <1>4 DEF ReadEndInv
  <2> QED BY <1>1, <1>5, <2>1, <2>2 DEF ReadEndInv, Holding
<1>7. WriteEndInv'
  <2>1. tail + 1 < Written => Written - 1 \in tail + 1 .. Written - 1
    BY <1>1
  <2>2. tail + 1 < head => head - 1 \in tail + 1 .. Written - 1
    BY <1>1, WindowTypes
  <2>3. ppc = "commit" => At(Written)' = At(Written)
    BY <1>1 DEF At
  <2> QED BY <1>1, <1>3, <1>4, <2>1, <2>2, <2>3 DEF WriteEndInv, Last
<1>8. EmptyInv'
  <2>1. SUFFICES ASSUME tail + 1 = Written
                 PROVE  IF ppc = "publish"
                          THEN expected' = Writes + 1 /\ Has' = 0
                          ELSE expected' = Writes /\ Has' = done /\ (done > 0 => total = need)
    BY <1>1, <1>4 DEF EmptyInv
  <2>2. /\ ppc \in Writing => done < need
        /\ ppc = "publish" => done = need /\ done > 0
        /\ ppc \notin Writing \cup {"publish"} => done = 0
    BY <1>3 DEF RingInv, CursorInv, WriteEndInv, Writing, Typed, TypeOK, ProducerOK
  <2>3. CASE done > 0
    <3>1. expected = Writes /\ part = done - 1 /\ total = need /\ frame.total = need
      BY <1>1, <1>2, <2>1, <2>3
    <3>2. Last(frame) <=> done = need
      BY <1>1, <3>1 DEF Last
    <3> QED BY <1>1, <2>2, <2>3, <3>1, <3>2 DEF Writing
  <2>4. CASE done = 0
    BY <1>1, <1>2, <2>1, <2>2, <2>4
  <2> QED BY <1>1, <2>3, <2>4
<1>9. HistoryInv'
  <2>1. got \in Seq(Nat) /\ Len(got) = expected /\ Len(got) \in Nat
    BY <1>1, <1>3 DEF HistoryInv, Typed, TypeOK, HistoryOK
  <2>2. CASE UNCHANGED <<expected, got>>
    BY <1>1, <1>3, <1>4, <2>2 DEF HistoryInv
  <2>3. CASE expected' = expected + 1 /\ got' = Append(got, expected)
    <3>1. /\ Len(got') = expected'
          /\ \A i \in 1 .. Len(got) : got'[i] = got[i]
          /\ got'[Len(got) + 1] = expected
      BY <1>1, <2>1, <2>3, AppendProperties
    <3>2. ASSUME NEW i \in 1 .. Len(got') PROVE got'[i] = i - 1
      <4>1. i \in 1 .. Len(got) \/ i = Len(got) + 1
        BY <1>1, <2>1, <2>3, <3>1
      <4> QED BY <1>1, <1>3, <2>1, <3>1, <4>1 DEF HistoryInv
    <3> QED BY <1>1, <1>3, <1>4, <3>1, <3>2 DEF HistoryInv
  <2> QED BY <1>1, <2>2, <2>3
<1>10. ChainInv'
  BY AdvanceChain
<1> QED BY <1>6, <1>7, <1>8, <1>9, <1>10 DEF HealthyInv

-----------------------------------------------------------------------------
(* Every step                                                              *)

LEMMA HealthyInit == Init => HealthyInv
<1> SUFFICES ASSUME Init PROVE HealthyInv
  OBVIOUS
<1>1. tail = 0 /\ head = 0 /\ Written = 0 /\ cpc = "idle" /\ ppc = "idle" /\ done = 0
  BY DEF Init, Written
<1>2. ChainInv
  BY <1>1 DEF ChainInv
<1>3. ReadEndInv
  BY <1>1 DEF ReadEndInv, Holding
<1>4. WriteEndInv
  BY <1>1 DEF WriteEndInv
<1>5. EmptyInv
  BY <1>1 DEF Init, EmptyInv, Writes, Writing, Has
<1>6. HistoryInv
  BY MaxSendsAssumption DEF Init, HistoryInv, Writing
<1> QED BY <1>2, <1>3, <1>4, <1>5, <1>6 DEF HealthyInv

LEMMA StepCases ==
  ASSUME RingInv, [Next]_vars
  PROVE  \/ QuietSend \/ CommitSlot \/ PublishHead
         \/ QuietRecv \/ PinSlot \/ FreeTail \/ AdvanceTail
         \/ UNCHANGED vars
<1>1. ~(DropPeek \/ DropLook \/ DropFree \/ DropTail)
  BY DEF DropPeek, DropLook, DropFree, DropTail, RingInv, CursorInv
<1> QED BY <1>1 DEF Next, CallerStep, ProducerStep, ConsumerStep, QuietSend, QuietRecv

LEMMA HealthyNext ==
  ASSUME GraceEnds = FALSE, Typed, Lossless, RingInv, HealthyInv, [Next]_vars
  PROVE  HealthyInv'
<1>1. CASE UNCHANGED vars
  BY <1>1 DEF vars, region, producer, consumer, HealthyInv, ChainInv, ReadEndInv, WriteEndInv,
    EmptyInv, HistoryInv, Content, At, Last, Follows, Writes, Has, Seq0, Written
<1> QED BY <1>1, StepCases, HealthyQuiet, HealthyCommit, HealthyPublish, HealthyRecvQuiet,
           HealthyHeld, HealthyAdvance

\* A channel that drops nothing and whose grace poll outlasts every batch
\* holds consecutive messages, from the one the consumer expects to the one
\* the producer is writing.
THEOREM HealthySafe ==
  ASSUME GraceEnds = FALSE, "DropOldest" \notin Strategies
  PROVE  Spec => [](Typed /\ RingInv /\ HealthyInv)
<1>1. Typed => Lossless
  BY DEF Typed, TypeOK, ConfigOK, Lossless
<1>2. Typed /\ RingOK /\ HealthyInv /\ [Next]_vars => HealthyInv'
  BY <1>1, HealthyNext DEF RingOK
<1>3. Spec => []Typed
  BY TypedInit, TypedNext, PTL DEF Spec
<1>4. Typed /\ RingOK /\ HealthyInv => Typed /\ RingInv /\ HealthyInv
  BY <1>1 DEF RingOK
<1> QED BY <1>2, <1>3, <1>4, HealthyInit, RingSafe, PTL DEF Spec

-----------------------------------------------------------------------------
(* The properties                                                          *)

\* Whatever the cursors count is readable: the COMMITTED gate theorem.
THEOREM GateSound ==
  ASSUME GraceEnds = FALSE, "DropOldest" \notin Strategies
  PROVE  Spec => []CountedIsReadable
<1>1. Typed /\ RingInv /\ HealthyInv => CountedIsReadable
  <2>1. SUFFICES ASSUME Typed, RingInv, HealthyInv, NEW q \in tail .. head - 1
                 PROVE  \/ slots[q % Cap].state = "COMMITTED"
                        \/ q = tail /\ cpc \in {"check", "release", "advance"}
    BY DEF CountedIsReadable
  <2>2. q \in tail .. Written - 1
    BY <2>1, WindowTypes DEF Typed, TypeOK, ProducerOK
  <2> QED BY <2>1, <2>2 DEF HealthyInv, ChainInv, Holding, At
<1> QED BY <1>1, HealthySafe, PTL

\* A receive between two healthy handles reports no gap, no corruption and no
\* unpinned slot.
THEOREM RecvSound ==
  ASSUME GraceEnds = FALSE, "DropOldest" \notin Strategies
  PROVE  Spec => []RecvNeverFaults
<1>1. Init => RecvNeverFaults
  BY DEF Init, RecvNeverFaults
<1>2. Typed /\ RingInv /\ HealthyInv /\ RecvNeverFaults /\ [Next]_vars => RecvNeverFaults'
  <2>1. SUFFICES ASSUME Typed, RingInv, HealthyInv, RecvNeverFaults, [Next]_vars
                 PROVE  RecvNeverFaults'
    OBVIOUS
  <2>2. CASE QuietSend \/ CommitSlot \/ PublishHead \/ UNCHANGED vars
    BY <2>1, <2>2 DEF QuietSend, SendBegin, SendClosed, WaitExpire, CloseProducer, WaitPoll,
      CheckFree, MarkWriting, FillSlot, CommitSlot, PublishHead, vars, consumer, RecvNeverFaults
  <2>3. CASE QuietRecv
    <3>1. ~(CheckPinned /\ slots[TailIdx].state # "PINNED")
      BY <2>1 DEF CheckPinned, RingInv, ReaderInv, TailIdx, At
    <3> QED BY <2>1, <2>3, <3>1 DEF QuietRecv, RecvBegin, TryBegin, TryProbe, Refreshed, Gate,
          GateFails, CopyPayload, CheckPinned, CloseConsumer, RecvEnds, RecvNeverFaults
  <2>4. CASE PinSlot \/ FreeTail \/ AdvanceTail
    <3>1. Verdict = "take"
      BY <2>1, <2>4, Taken DEF PinSlot, FreeTail, AdvanceTail
    <3> QED BY <2>1, <2>4, <3>1 DEF PinSlot, FreeTail, AdvanceTail, RecvEnds, RecvNeverFaults
  <2> QED BY <2>1, <2>2, <2>3, <2>4, StepCases
<1> QED BY <1>1, <1>2, HealthySafe, PTL DEF Spec

\* The consumer never runs ahead of what was committed.
LEMMA Behind ==
  ASSUME Typed, RingInv, HealthyInv
  PROVE  /\ Len(got) = expected /\ Len(sent) \in Nat /\ expected \in Nat /\ expected <= Len(sent)
         /\ sent \in Seq(Nat) /\ got \in Seq(Nat)
<1>1. /\ expected \in Nat /\ nextSeq \in Nat /\ tail \in Nat /\ Written \in Nat /\ tail <= Written
      /\ sent \in Seq(Nat) /\ got \in Seq(Nat) /\ (ppc \in Writing => nextSeq > 0)
  BY WindowTypes DEF Typed, TypeOK, ProducerOK, ConsumerOK, HistoryOK
<1>2. Len(sent) \in Nat /\ Len(sent) = (IF ppc \in Writing THEN nextSeq - 1 ELSE nextSeq)
      /\ Len(got) = expected
  BY <1>1 DEF HealthyInv, HistoryInv
<1>3. CASE tail = Written
  BY <1>1, <1>2, <1>3 DEF HealthyInv, EmptyInv, Writes, Writing, Seq0
<1>4. CASE tail < Written
  <2>1. tail \in tail .. Written - 1 /\ Written - 1 \in tail .. Written - 1 /\ tail <= Written - 1
    BY <1>1, <1>4
  <2>2. expected <= Content(Written - 1).seq
    BY <1>4, <2>1 DEF HealthyInv, ReadEndInv, ChainInv
  <2>3. Content(Written - 1).seq \in Nat
    BY <1>1, <2>1, WindowTypes, FrameTypes
  <2>4. Content(Written - 1).seq = Writes \/ Content(Written - 1).seq + 1 = Writes
    BY <1>4 DEF HealthyInv, WriteEndInv
  <2>5. Writes <= Len(sent) /\ Writes \in Int
    BY <1>1, <1>2 DEF Writes, Writing, Seq0
  <2> QED BY <1>1, <1>2, <2>2, <2>3, <2>4, <2>5
<1> QED BY <1>1, <1>2, <1>3, <1>4

\* What is received was sent, once and in order.
THEOREM ReceivedSound ==
  ASSUME GraceEnds = FALSE, "DropOldest" \notin Strategies
  PROVE  Spec => []ReceivedWasSent
<1>1. Typed /\ RingInv /\ HealthyInv => ReceivedWasSent
  <2>1. SUFFICES ASSUME Typed, RingInv, HealthyInv PROVE ReceivedWasSent
    OBVIOUS
  <2>2. /\ \A i \in 1 .. Len(sent) : sent[i] = i - 1
        /\ \A i \in 1 .. Len(got) : got[i] = i - 1
    BY <2>1 DEF HealthyInv, HistoryInv
  <2>3. \A i \in 1 .. Len(got) : i \in 1 .. Len(sent)
    BY <2>1, Behind
  <2>4. \A i \in 1 .. Len(got) : got[i] = sent[i]
    BY <2>2, <2>3
  <2>5. \A i \in 1 .. Len(got) - 1 : got[i] < got[i + 1]
    <3>1. ASSUME NEW i \in 1 .. Len(got) - 1 PROVE got[i] < got[i + 1]
      <4>1. i \in 1 .. Len(got) /\ i + 1 \in 1 .. Len(got) /\ i \in Int
        BY <2>1, Behind
      <4> QED BY <2>2, <4>1
    <3> QED BY <3>1
  <2> QED BY <2>3, <2>4, <2>5 DEF ReceivedWasSent
<1> QED BY <1>1, HealthySafe, PTL

-----------------------------------------------------------------------------
(* The refinement                                                          *)

\* A commit adds its message at the end of what was sent and not received.
LEMMA QueueAppend ==
  ASSUME NEW s \in Seq(Nat), NEW n \in Nat, n <= Len(s), NEW m \in Nat
  PROVE  SubSeq(Append(s, m), n + 1, Len(s) + 1) = Append(SubSeq(s, n + 1, Len(s)), m)
<1> DEFINE t == Append(s, m)
           a == SubSeq(t, n + 1, Len(s) + 1)
           b == SubSeq(s, n + 1, Len(s))
<1>1. /\ Len(s) \in Nat /\ t \in Seq(Nat) /\ Len(t) = Len(s) + 1 /\ t[Len(s) + 1] = m
      /\ \A i \in 1 .. Len(s) : t[i] = s[i]
  BY AppendProperties, LenProperties
<1>2. /\ a \in Seq(Nat) /\ Len(a) = Len(s) + 1 - n
      /\ \A i \in 1 .. Len(s) + 1 - n : a[i] = t[n + i]
  <2>1. \A i \in n + 1 .. Len(s) + 1 : t[i] \in Nat
    BY <1>1, ElementOfSeq
  <2> HIDE DEF t
  <2>2. /\ a \in Seq(Nat)
        /\ Len(a) = IF n + 1 <= Len(s) + 1 THEN (Len(s) + 1) - (n + 1) + 1 ELSE 0
        /\ \A i \in 1 .. (Len(s) + 1) - (n + 1) + 1 : a[i] = t[(n + 1) + i - 1]
    BY <1>1, <2>1, SubSeqProperties
  <2> QED BY <1>1, <2>2
<1>3. /\ b \in Seq(Nat) /\ Len(b) = Len(s) - n
      /\ \A i \in 1 .. Len(s) - n : b[i] = s[n + i]
  <2>1. \A i \in n + 1 .. Len(s) : s[i] \in Nat
    BY <1>1, ElementOfSeq
  <2>2. /\ b \in Seq(Nat)
        /\ Len(b) = IF n + 1 <= Len(s) THEN Len(s) - (n + 1) + 1 ELSE 0
        /\ \A i \in 1 .. Len(s) - (n + 1) + 1 : b[i] = s[(n + 1) + i - 1]
    BY <1>1, <2>1, SubSeqProperties
  <2> QED BY <1>1, <2>2
<1> HIDE DEF t, a, b
<1>4. /\ Append(b, m) \in Seq(Nat) /\ Len(Append(b, m)) = Len(b) + 1
      /\ \A i \in 1 .. Len(b) : Append(b, m)[i] = b[i]
      /\ Append(b, m)[Len(b) + 1] = m
  BY <1>3, AppendProperties
<1>5. Len(a) = Len(Append(b, m))
  BY <1>1, <1>2, <1>3, <1>4
<1>6. ASSUME NEW i \in 1 .. Len(a) PROVE a[i] = Append(b, m)[i]
  <2>1. CASE i = Len(a)
    <3>1. i = Len(b) + 1 /\ n + i = Len(s) + 1 /\ i \in 1 .. Len(s) + 1 - n
      BY <1>1, <1>2, <1>3, <2>1
    <3>2. a[i] = m
      BY <1>1, <1>2, <3>1
    <3> QED BY <1>4, <3>1, <3>2
  <2>2. CASE i # Len(a)
    <3>1. i \in 1 .. Len(b) /\ n + i \in 1 .. Len(s) /\ i \in 1 .. Len(s) + 1 - n
      BY <1>1, <1>2, <1>3, <2>2
    <3> QED BY <1>1, <1>2, <1>3, <1>4, <3>1
  <2> QED BY <2>1, <2>2
<1>7. a = Append(b, m)
  BY <1>2, <1>4, <1>5, <1>6, SeqEqual
<1> QED BY <1>7 DEF a, b, t

\* A delivery takes the first of them.
LEMMA QueueTake ==
  ASSUME NEW s \in Seq(Nat), NEW n \in Nat, n < Len(s)
  PROVE  /\ SubSeq(s, n + 1, Len(s)) # <<>>
         /\ Head(SubSeq(s, n + 1, Len(s))) = s[n + 1]
         /\ Tail(SubSeq(s, n + 1, Len(s))) = SubSeq(s, (n + 1) + 1, Len(s))
<1>1. n + 1 \in 1 .. Len(s) /\ Len(s) \in n + 1 .. Len(s) /\ Len(s) \in Nat
  BY LenProperties
<1>2. /\ Head(SubSeq(s, n + 1, Len(s))) = s[n + 1]
      /\ Tail(SubSeq(s, n + 1, Len(s))) = SubSeq(s, (n + 1) + 1, Len(s))
  BY <1>1, HeadTailOfSubSeq
<1>3. Len(SubSeq(s, n + 1, Len(s))) = Len(s) - n
  <2>1. \A i \in n + 1 .. Len(s) : s[i] \in Nat
    BY <1>1, ElementOfSeq
  <2>2. Len(SubSeq(s, n + 1, Len(s)))
          = IF n + 1 <= Len(s) THEN Len(s) - (n + 1) + 1 ELSE 0
    BY <1>1, <2>1, SubSeqProperties
  <2> QED BY <1>1, <2>2
<1>4. SubSeq(s, n + 1, Len(s)) # <<>>
  <2>1. Len(<<>>) = 0
    OBVIOUS
  <2>2. Len(s) - n # 0
    BY <1>1
  <2> QED BY <1>3, <2>1, <2>2
<1> QED BY <1>2, <1>4

\* The channel holds fewer messages than slots when it accepts one more.
LEMMA RoomInQueue ==
  ASSUME Typed, RingInv, HealthyInv, CommitSlot
  PROVE  Seq0 < expected + Cap /\ Seq0 \in 0 .. MaxSends - 1 /\ Len(sent) = Seq0
<1>1. PICK w \in Nat : w = Written
  BY WindowTypes
<1>2. /\ tail \in Nat /\ w < tail + Cap /\ tail <= w /\ done \in Nat
      /\ nextSeq \in Nat /\ Seq0 \in Nat /\ Seq0 = nextSeq - 1 /\ Writes = Seq0 /\ ppc = "commit"
  BY <1>1, CommitFacts
<1>3. Len(sent) = Seq0 /\ Seq0 \in 0 .. MaxSends - 1 /\ expected \in Nat
  BY <1>2, MaxSendsAssumption
  DEF HealthyInv, HistoryInv, Writing, Typed, TypeOK, ConsumerOK
<1>4. CASE tail = w
  BY <1>1, <1>2, <1>3, <1>4, CapAssumption DEF HealthyInv, EmptyInv
<1>5. CASE tail < w
  <2>1. tail \in tail .. Written - 1 /\ w - 1 \in tail .. Written - 1 /\ tail <= w - 1
    BY <1>1, <1>2, <1>5
  <2>2. /\ Content(tail).seq = expected
        /\ Content(w - 1).seq + tail <= Content(tail).seq + (w - 1)
    BY <1>1, <1>5, <2>1 DEF HealthyInv, ReadEndInv, ChainInv
  <2>3. Content(w - 1).seq \in Nat
    BY <1>2, <2>1, WindowTypes, FrameTypes
  <2>4. Seq0 <= Content(w - 1).seq + 1
    BY <1>1, <1>2, <1>5, <2>3 DEF HealthyInv, WriteEndInv
  <2> QED BY <1>2, <1>3, <2>2, <2>3, <2>4, CapAssumption
<1> QED BY <1>2, <1>3, <1>4, <1>5

LEMMA QueueInit == Init => Fifo!Init
<1> SUFFICES ASSUME Init PROVE Fifo!Init
  OBVIOUS
<1>1. sent = <<>> /\ got = <<>>
  BY DEF Init
<1>2. SubSeq(sent, Len(got) + 1, Len(sent)) = <<>>
  <2>1. Len(<<>>) = 0
    OBVIOUS
  <2> QED BY <1>1, <2>1, SubSeqEmpty
<1> QED BY <1>1, <1>2 DEF Fifo!Init

NotAhead == expected <= Len(sent)

\* The commit of a message's last slot is Enqueue, the advance past it is
\* Dequeue, and every other step stutters.
LEMMA QueueStep ==
  ASSUME GraceEnds = FALSE, Typed, Lossless, RingInv, HealthyInv, [Next]_vars, NotAhead'
  PROVE  [Fifo!Next]_Fifo!vars
<1> DEFINE queue == SubSeq(sent, Len(got) + 1, Len(sent))
<1>1. /\ Len(got) = expected /\ Len(sent) \in Nat /\ expected \in Nat /\ expected <= Len(sent)
      /\ sent \in Seq(Nat) /\ got \in Seq(Nat)
  BY Behind
<1>2. CASE UNCHANGED <<sent, got>>
  BY <1>2 DEF Fifo!vars
<1>3. CASE CommitSlot /\ sent' # sent
  <2>1. sent' = Append(sent, Seq0) /\ got' = got
    BY <1>3 DEF CommitSlot
  <2>2. Seq0 < expected + Cap /\ Seq0 \in 0 .. MaxSends - 1 /\ Len(sent) = Seq0
    BY <1>3, RoomInQueue
  <2>3. Len(sent') = Len(sent) + 1
    BY <1>1, <2>1, <2>2, AppendProperties
  <2>4. queue' = Append(queue, Seq0)
    BY <1>1, <2>1, <2>2, <2>3, QueueAppend
  <2>5. Len(queue) < Cap
    <3>1. \A i \in Len(got) + 1 .. Len(sent) : sent[i] \in Nat
      BY <1>1, ElementOfSeq
    <3>2. Len(queue) = IF Len(got) + 1 <= Len(sent) THEN Len(sent) - (Len(got) + 1) + 1 ELSE 0
      BY <1>1, <3>1, SubSeqProperties
    <3> QED BY <1>1, <2>2, <3>2, CapAssumption
  <2>6. Fifo!Enqueue(Seq0)
    BY <2>1, <2>4, <2>5 DEF Fifo!Enqueue
  <2> QED BY <2>2, <2>6 DEF Fifo!Next
<1>4. CASE AdvanceTail /\ got' # got
  <2>1. got' = Append(got, expected) /\ sent' = sent /\ expected' = expected + 1
    BY <1>4, AdvanceFacts
  <2>2. Len(got') = expected + 1
    BY <1>1, <2>1, AppendProperties
  <2>3. expected < Len(sent)
    <3>1. expected' <= Len(sent')
      BY DEF NotAhead
    <3> QED BY <1>1, <2>1, <3>1
  <2>4. sent[expected + 1] = expected
    <3>1. expected + 1 \in 1 .. Len(sent)
      BY <1>1, <2>3
    <3> QED BY <1>1, <3>1 DEF HealthyInv, HistoryInv
  <2>5. queue # <<>> /\ Head(queue) = expected /\ queue' = Tail(queue)
    BY <1>1, <2>1, <2>2, <2>3, <2>4, QueueTake
  <2>6. Fifo!Dequeue
    BY <2>1, <2>5 DEF Fifo!Dequeue
  <2> QED BY <2>6 DEF Fifo!Next
<1>5. \/ UNCHANGED <<sent, got>>
      \/ CommitSlot /\ sent' # sent
      \/ AdvanceTail /\ got' # got
  <2>1. QuietSend => UNCHANGED <<sent, got>>
    BY SenderKeepsWindow
  <2>2. QuietRecv => UNCHANGED <<sent, got>>
    BY RecvChanges
  <2>3. PublishHead \/ PinSlot \/ FreeTail \/ UNCHANGED vars => UNCHANGED <<sent, got>>
    BY DEF PublishHead, PinSlot, FreeTail, vars
  <2>4. CommitSlot => got' = got
    BY DEF CommitSlot
  <2>5. AdvanceTail => sent' = sent
    BY DEF AdvanceTail
  <2> QED BY <2>1, <2>2, <2>3, <2>4, <2>5, StepCases
<1> QED BY <1>2, <1>3, <1>4, <1>5

\* The single-producer channel is a bounded FIFO queue.
THEOREM FifoRefined ==
  ASSUME GraceEnds = FALSE, "DropOldest" \notin Strategies
  PROVE  Spec => FifoImplemented
<1>1. Typed => Lossless
  BY DEF Typed, TypeOK, ConfigOK, Lossless
<1>2. Typed /\ RingInv /\ HealthyInv => NotAhead
  BY Behind DEF NotAhead
<1>3. Typed /\ RingInv /\ HealthyInv /\ [Next]_vars /\ NotAhead' => [Fifo!Next]_Fifo!vars
  BY <1>1, QueueStep
<1> QED BY <1>2, <1>3, QueueInit, HealthySafe, PTL DEF Spec, FifoImplemented, Fifo!Spec
=============================================================================
