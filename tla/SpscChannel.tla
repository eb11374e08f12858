---------------------------- MODULE SpscChannel ----------------------------
(***************************************************************************)
(* PersistentShmChannel of crates/dsline-shm in single-producer mode, with *)
(* one sending handle and one receiving handle attached to one region.     *)
(* The receiving handle created the region and the sending handle opened   *)
(* it while it was empty, so both start with every private field at zero.  *)
(*                                                                         *)
(* A step is one access to the shared region together with the handle's    *)
(* private computation up to its next access.  The region is the two ring  *)
(* cursors and the slots; everything else is private to a handle.  No view *)
(* is pinned and no process dies here, so the pin floor is PIN_FLOOR_NONE, *)
(* recovery_bias is 0 and every WRITING slot has a live writer.            *)
(***************************************************************************)
EXTENDS Naturals, Sequences

CONSTANTS
  Cap,           \* config.capacity, the number of slots
  Sizes,         \* slots a message may need (send_plan's needed_slots)
  MaxSends,      \* bound: sends that obtain a sequence number
  Strategies,    \* what the sending handle's config.backpressure may be
  GraceEnds      \* the COMMITTED grace poll may run out inside a message

ASSUME CapAssumption == Cap \in Nat \ {0}
ASSUME SizesAssumption == Sizes \subseteq Nat \ {0}
ASSUME MaxSendsAssumption == MaxSends \in Nat
ASSUME StrategiesAssumption ==
  Strategies \subseteq {"Raise", "Block", "DropNewest", "DropOldest"}
ASSUME GraceAssumption == GraceEnds \in BOOLEAN

VARIABLES
  \* The sending handle's configuration, fixed when it opens the region
  strategy,  \* config.backpressure
  timed,     \* config.timeout is Some (only Block reads it)
  \* The region
  head,      \* shared head cursor: slots published since creation
  tail,      \* shared tail cursor: slots consumed since creation
  slots,     \* ring index -> header state, header sequence, stored frame
  \* The producer handle
  ppc,       \* where its send stands
  pclosed,   \* its closed flag
  headIdx,   \* self.head, the index of the next slot it writes
  pTail,     \* self.tail_cursor
  nextSeq,   \* self.next_seq
  need,      \* plan.needed_slots of the message in hand
  done,      \* slots of it already committed
  dropping,  \* slots of the dropped message still to release
  pres,      \* how its last send ended
  \* The consumer handle
  cpc,       \* where its recv stands
  cclosed,   \* its closed flag
  cTail,     \* self.tail_cursor
  expected,  \* self.expected_recv_seq
  hdrSeq,    \* sequence number the COMMITTED header showed
  frame,     \* the frame it copied out of the slot
  total,     \* chunks in the message in hand
  part,      \* chunks of it already consumed
  cres,      \* how its last recv ended
  \* History
  sent,      \* messages whose last slot was committed, in order
  got        \* messages recv returned, in order

config   == <<strategy, timed>>
region   == <<head, tail, slots>>
producer == <<ppc, pclosed, headIdx, pTail, nextSeq, need, done, dropping, pres>>
consumer == <<cpc, cclosed, cTail, expected, hdrSeq, frame, total, part, cres>>
vars     == <<config, region, producer, consumer, sent, got>>

SlotState == {"FREE", "WRITING", "COMMITTED", "PINNED"}

\* A message is known by its sequence number; a frame carries that number and
\* its place among the chunks.  clear_payload leaves bytes no frame decodes
\* from, shown by a chunk count of 0.
Frames   == [seq : Nat, part : Nat, total : Nat]
Cleared  == [seq |-> 0, part |-> 0, total |-> 0]
FreeSlot == [state |-> "FREE", seq |-> 0, frame |-> Cleared]
Slots    == [0 .. Cap - 1 -> [state : SlotState, seq : Nat, frame : Frames]]

\* The three ways a slot is written: its header, its payload, or both when it
\* is released.
WriteHeader(i, state, seq) ==
  slots' = [slots EXCEPT ![i] = [state |-> state, seq |-> seq, frame |-> slots[i].frame]]
WritePayload(i, f) ==
  slots' = [slots EXCEPT ![i] = [state |-> slots[i].state, seq |-> slots[i].seq, frame |-> f]]
ReleaseHeader(i) ==
  slots' = [slots EXCEPT ![i] = FreeSlot]

Larger(a, b) == IF a >= b THEN a ELSE b
Smaller(a, b) == IF a <= b THEN a ELSE b

\* Mutant: the index runs off the end of the ring.
NextIdxNoWrap(i) == i + 1
NextIdx(i) == (i + 1) % Cap

\* Mutant: the tail published is the one before the slot just released.
FetchMaxTailStale(t) == tail' = Larger(tail, t - 1)
FetchMaxTail(t) == tail' = Larger(tail, t)

\* refresh_cursors: the depth the cursors show (0 when the tail is ahead).
CursorDepth(h, t) == IF h >= t THEN Smaller(h - t, Cap) ELSE 0

\* Mutants: the guard admits one slot too many; it refuses an exact fit; it
\* asks for one slot whatever the message needs.
HasRoomOneMore(t, n) == Cap - CursorDepth(head, t) + 1 >= n
HasRoomStrict(t, n) == Cap - CursorDepth(head, t) > n
HasRoomForOne(t, n) == Cap - CursorDepth(head, t) >= 1

\* guard_len with no pin and no bias, for the tail the producer has loaded.
HasRoom(t, n) == Cap - CursorDepth(head, t) >= n

Init ==
  /\ strategy \in Strategies /\ timed \in BOOLEAN /\ (timed => strategy = "Block")
  /\ head = 0 /\ tail = 0
  /\ slots = [i \in 0 .. Cap - 1 |-> FreeSlot]
  /\ ppc = "idle" /\ pclosed = FALSE /\ headIdx = 0 /\ pTail = 0
  /\ nextSeq = 0 /\ need = 0 /\ done = 0 /\ dropping = 0 /\ pres = "none"
  /\ cpc = "idle" /\ cclosed = FALSE /\ cTail = 0 /\ expected = 0
  /\ hdrSeq = 0 /\ frame = Cleared /\ total = 0 /\ part = 0 /\ cres = "none"
  /\ sent = <<>> /\ got = <<>>

-----------------------------------------------------------------------------
(* The producer: send                                                      *)

SendEnds(result) ==
  /\ ppc' = "idle"
  /\ pres' = result

\* The send owns its slots: it takes the next sequence number, before any
\* slot is written, and starts on the first slot.
StartWriting(n) ==
  /\ ppc' = "claim"
  /\ nextSeq' = nextSeq + 1
  /\ need' = n
  /\ done' = 0
  /\ UNCHANGED <<pres, dropping>>

\* prepare_send_slots when the guard refuses.
Refuse(n) ==
  /\ need' = n
  /\ UNCHANGED <<nextSeq, done, dropping>>
  /\ \/ strategy = "Raise" /\ SendEnds("BufferFull")
     \/ strategy = "Block" /\ ~timed /\ SendEnds("BufferFull")
     \/ strategy = "Block" /\ timed /\ ppc' = "wait" /\ UNCHANGED pres
     \/ strategy = "DropNewest" /\ SendEnds("Dropped")
     \/ strategy = "DropOldest" /\ ppc' = "peek" /\ UNCHANGED pres

\* The head cursor is written by this handle alone, so loading it and the
\* tail is one access: the load of the tail.
SendBegin(n) ==
  /\ ppc = "idle" /\ ~pclosed /\ nextSeq < MaxSends
  /\ pTail' = tail
  /\ \/ n > Cap /\ SendEnds("MessageTooLarge") /\ UNCHANGED <<nextSeq, need, done, dropping>>
     \/ n <= Cap /\ HasRoom(tail, n) /\ StartWriting(n)
     \/ n <= Cap /\ ~HasRoom(tail, n) /\ Refuse(n)
  /\ UNCHANGED <<region, pclosed, headIdx, consumer, sent, got>>

SendClosed ==
  /\ ppc = "idle" /\ pclosed
  /\ SendEnds("Closed")
  /\ UNCHANGED <<region, pclosed, headIdx, pTail, nextSeq, need, done, dropping, consumer, sent, got>>

\* wait_for_space_until: one turn of its loop, before the deadline ...
WaitPoll ==
  /\ ppc = "wait"
  /\ pTail' = tail
  /\ IF HasRoom(tail, need)
       THEN StartWriting(need)
       ELSE UNCHANGED <<ppc, nextSeq, need, done, dropping, pres>>
  /\ UNCHANGED <<region, pclosed, headIdx, consumer, sent, got>>

\* ... and the deadline itself, which the clock may put anywhere.
WaitExpire ==
  /\ ppc = "wait"
  /\ SendEnds("BufferFull")
  /\ UNCHANGED <<region, pclosed, headIdx, pTail, nextSeq, need, done, dropping, consumer, sent, got>>

-----------------------------------------------------------------------------
(* The producer: drop_oldest_message, the body of DropOldest's loop        *)

DropIdx == pTail % Cap

\* peek_committed: the header ...  The depth is not 0 here, for the guard just
\* refused on it.
DropPeek ==
  /\ ppc = "peek"
  /\ \/ slots[DropIdx].state # "COMMITTED" /\ SendEnds("BufferEmpty")
     \/ slots[DropIdx].state = "COMMITTED" /\ ppc' = "look" /\ UNCHANGED pres
  /\ UNCHANGED <<region, pclosed, headIdx, pTail, nextSeq, need, done, dropping, consumer, sent, got>>

\* ... then the payload, which says how many slots the message takes.
DropLook ==
  LET f == slots[DropIdx].frame IN
  /\ ppc = "look"
  /\ \/ /\ f.total = 0 \/ f.part # 0
        /\ SendEnds("CorruptedMessage") /\ UNCHANGED dropping
     \/ /\ f.total # 0 /\ f.part = 0
        /\ ppc' = "dropFree" /\ dropping' = f.total /\ UNCHANGED pres
  /\ UNCHANGED <<region, pclosed, headIdx, pTail, nextSeq, need, done, consumer, sent, got>>

\* force_release_no_flush: whatever state the slot is in by now.
DropFree ==
  /\ ppc = "dropFree"
  /\ ReleaseHeader(DropIdx)
  /\ ppc' = "dropTail"
  /\ UNCHANGED <<head, tail, pclosed, headIdx, pTail, nextSeq, need, done, dropping, pres, consumer, sent, got>>

DropTail ==
  /\ ppc = "dropTail"
  /\ FetchMaxTail(pTail + 1)
  /\ pTail' = pTail + 1
  /\ \/ /\ dropping > 1
        /\ ppc' = "dropFree" /\ dropping' = dropping - 1
        /\ UNCHANGED <<nextSeq, need, done, pres>>
     \/ dropping <= 1 /\ HasRoom(pTail + 1, need) /\ StartWriting(need)
     \/ dropping <= 1 /\ ~HasRoom(pTail + 1, need) /\ Refuse(need)
  /\ UNCHANGED <<head, slots, pclosed, headIdx, consumer, sent, got>>

-----------------------------------------------------------------------------
(* The producer: write_committed_no_flush for each slot, then the head     *)

Seq0Late == nextSeq   \* mutant: numbered after next_seq moved on
Seq0 == nextSeq - 1   \* the sequence number of the message in hand

\* The FREE check.  A slot that is not free ends the send: the sequence
\* number is spent and the slots already committed stay.
CheckFree ==
  /\ ppc = "claim"
  /\ \/ slots[headIdx].state = "FREE" /\ ppc' = "mark" /\ UNCHANGED pres
     \/ slots[headIdx].state # "FREE" /\ SendEnds("BufferFull")
  /\ UNCHANGED <<region, pclosed, headIdx, pTail, nextSeq, need, done, dropping, consumer, sent, got>>

\* Phases 1 to 3: the WRITING header, the payload, the COMMITTED header.
MarkWriting ==
  /\ ppc = "mark"
  /\ WriteHeader(headIdx, "WRITING", Seq0)
  /\ ppc' = "fill"
  /\ UNCHANGED <<head, tail, pclosed, headIdx, pTail, nextSeq, need, done, dropping, pres, consumer, sent, got>>

FillSlot ==
  /\ ppc = "fill"
  /\ WritePayload(headIdx, [seq |-> Seq0, part |-> done, total |-> need])
  /\ ppc' = "commit"
  /\ UNCHANGED <<head, tail, pclosed, headIdx, pTail, nextSeq, need, done, dropping, pres, consumer, sent, got>>

CommitSlot ==
  /\ ppc = "commit"
  /\ WriteHeader(headIdx, "COMMITTED", Seq0)
  /\ headIdx' = NextIdx(headIdx)
  /\ done' = done + 1
  /\ \/ done + 1 < need /\ ppc' = "claim" /\ UNCHANGED sent
     \/ done + 1 >= need /\ ppc' = "publish" /\ sent' = Append(sent, Seq0)
  /\ UNCHANGED <<head, tail, pclosed, pTail, nextSeq, need, dropping, pres, consumer, got>>

PublishHead ==
  /\ ppc = "publish"
  /\ head' = head + need
  /\ done' = 0
  /\ SendEnds("Ok")
  /\ UNCHANGED <<tail, slots, pclosed, headIdx, pTail, nextSeq, need, dropping, consumer, sent, got>>

CloseProducer ==
  /\ ppc = "idle" /\ ~pclosed
  /\ pclosed' = TRUE
  /\ UNCHANGED <<region, ppc, headIdx, pTail, nextSeq, need, done, dropping, pres, consumer, sent, got>>

-----------------------------------------------------------------------------
(* The consumer: recv_with_seq and recv_chunked_message                    *)

TailIdx == cTail % Cap

RecvEnds(result) ==
  /\ cpc' = "idle"
  /\ cres' = result

\* ensure_tail_readable: refresh, then the closed-and-drained decision.  The
\* head only feeds that decision.
Refreshed(next) ==
  /\ cTail' = tail
  /\ part' = 0
  /\ IF cclosed /\ CursorDepth(head, tail) = 0
       THEN RecvEnds("Closed")
       ELSE cpc' = next /\ UNCHANGED cres
  /\ UNCHANGED <<region, producer, cclosed, expected, hdrSeq, frame, total, sent, got>>

RecvBegin == cpc \in {"idle", "retry"} /\ Refreshed("gate")

\* try_recv: one look at the tail, and recv when there is something to read.
\* Its reclaim finds no dead writer.
TryBegin == cpc = "idle" /\ Refreshed("probe")

TryProbe ==
  /\ cpc = "probe"
  /\ \/ slots[TailIdx].state = "COMMITTED" /\ cpc' = "retry" /\ UNCHANGED cres
     \/ slots[TailIdx].state # "COMMITTED" /\ RecvEnds("None")
  /\ UNCHANGED <<region, producer, cclosed, cTail, expected, hdrSeq, frame, total, part, sent, got>>

\* Mutant: any occupied slot passes for readable.
GateOnOccupied ==
  /\ cpc = "gate"
  /\ slots[TailIdx].state # "FREE"
  /\ hdrSeq' = slots[TailIdx].seq
  /\ cpc' = "copy"
  /\ UNCHANGED <<region, producer, cclosed, cTail, expected, frame, total, part, cres, sent, got>>

\* poll_tail_committed finds COMMITTED, whatever the head cursor says.
Gate ==
  /\ cpc = "gate"
  /\ slots[TailIdx].state = "COMMITTED"
  /\ hdrSeq' = slots[TailIdx].seq
  /\ cpc' = "copy"
  /\ UNCHANGED <<region, producer, cclosed, cTail, expected, frame, total, part, cres, sent, got>>

\* The poll gives up: at once on a closed handle, otherwise after its bound.
\* Nothing is reclaimed: every writer lives.
GateFails ==
  /\ cpc = "gate"
  /\ slots[TailIdx].state # "COMMITTED"
  /\ \/ cclosed /\ RecvEnds("Closed")
     \/ ~cclosed /\ (part = 0 \/ GraceEnds) /\ RecvEnds("BufferEmpty")
  /\ UNCHANGED <<region, producer, cclosed, cTail, expected, hdrSeq, frame, total, part, sent, got>>

\* read_committed: the payload ...
CopyPayload ==
  /\ cpc = "copy"
  /\ frame' = slots[TailIdx].frame
  /\ cpc' = "pin"
  /\ UNCHANGED <<region, producer, cclosed, cTail, expected, hdrSeq, total, part, cres, sent, got>>

\* What the checks after read_committed make of the copy.
\* Mutant: the frame's own sequence number is not compared.
FirstVerdictTrusting ==
  IF hdrSeq # expected THEN "stop"
  ELSE IF frame.total = 0 THEN "skip"
  ELSE IF frame.total > 1 /\ frame.part # 0 THEN "unpin"
  ELSE "take"

FirstVerdict ==
  IF hdrSeq # expected THEN "stop"
  ELSE IF frame.total = 0 \/ frame.seq # hdrSeq THEN "skip"
  ELSE IF frame.total > 1 /\ frame.part # 0 THEN "unpin"
  ELSE "take"

NextVerdict ==
  IF hdrSeq = expected /\ frame = [seq |-> expected, part |-> part, total |-> total]
  THEN "take" ELSE "unpin"

Verdict == IF part = 0 THEN FirstVerdict ELSE NextVerdict

\* ... and the PINNED header, written over whatever header is there.
PinSlot ==
  /\ cpc = "pin"
  /\ WriteHeader(TailIdx, "PINNED", hdrSeq)
  /\ IF Verdict = "stop"
       THEN RecvEnds("SequenceMismatch")
       ELSE cpc' = "check" /\ UNCHANGED cres
  /\ total' = IF Verdict = "take" /\ part = 0 THEN frame.total ELSE total
  /\ UNCHANGED <<head, tail, producer, cclosed, cTail, expected, hdrSeq, frame, part, sent, got>>

\* release_pinned: it refuses a slot that is not PINNED any more ...
CheckPinned ==
  /\ cpc = "check"
  /\ \/ slots[TailIdx].state = "PINNED" /\ cpc' = "release" /\ UNCHANGED cres
     \/ slots[TailIdx].state # "PINNED" /\ RecvEnds("InvalidConfig")
  /\ UNCHANGED <<region, producer, cclosed, cTail, expected, hdrSeq, frame, total, part, sent, got>>

\* ... and clears the one it has seen PINNED.
FreeTail ==
  /\ cpc = "release"
  /\ ReleaseHeader(TailIdx)
  /\ IF Verdict = "unpin"
       THEN RecvEnds(IF hdrSeq # expected THEN "SequenceMismatch" ELSE "CorruptedMessage")
       ELSE cpc' = "advance" /\ UNCHANGED cres
  /\ UNCHANGED <<head, tail, producer, cclosed, cTail, expected, hdrSeq, frame, total, part, sent, got>>

\* Mutant: the chunk loop stops one chunk short.
LastPartShort == part + 2 >= total
LastPart == part + 1 >= total

\* advance_tail_impl, and the return when that was the message's last slot.
AdvanceTail ==
  /\ cpc = "advance"
  /\ FetchMaxTail(cTail + 1)
  /\ cTail' = cTail + 1
  /\ \/ /\ Verdict = "skip"
        /\ expected' = expected + 1
        /\ RecvEnds(IF frame.total = 0 THEN "CorruptedMessage" ELSE "SequenceMismatch")
        /\ UNCHANGED <<part, got>>
     \/ /\ Verdict = "take" /\ ~LastPart
        /\ part' = part + 1
        /\ cpc' = "gate"
        /\ UNCHANGED <<expected, cres, got>>
     \/ /\ Verdict = "take" /\ LastPart
        /\ expected' = expected + 1
        /\ got' = Append(got, frame.seq)
        /\ RecvEnds("Ok")
        /\ UNCHANGED part
  /\ UNCHANGED <<head, slots, producer, cclosed, hdrSeq, frame, total, sent>>

CloseConsumer ==
  /\ cpc = "idle" /\ ~cclosed
  /\ cclosed' = TRUE
  /\ UNCHANGED <<region, producer, cpc, cTail, expected, hdrSeq, frame, total, part, cres, sent, got>>

-----------------------------------------------------------------------------

\* What the applications start, and the clock.
CallerStep ==
  /\ UNCHANGED config
  /\ \/ \E n \in Sizes : SendBegin(n)
     \/ SendClosed \/ WaitExpire
     \/ CloseProducer \/ CloseConsumer

\* The steps a send takes once it has begun, short of its deadline.
ProducerStep ==
  /\ UNCHANGED config
  /\ \/ WaitPoll
     \/ DropPeek \/ DropLook \/ DropFree \/ DropTail
     \/ CheckFree \/ MarkWriting \/ FillSlot \/ CommitSlot \/ PublishHead

\* The steps of recv and try_recv, the calls included: the application keeps
\* receiving.
ConsumerStep ==
  /\ UNCHANGED config
  /\ \/ RecvBegin \/ TryBegin \/ TryProbe \/ Gate \/ GateFails
     \/ CopyPayload \/ PinSlot \/ CheckPinned \/ FreeTail \/ AdvanceTail

Next == CallerStep \/ ProducerStep \/ ConsumerStep

Spec == Init /\ [][Next]_vars

\* A begun send keeps running and the application keeps calling recv.
FairSpec == Spec /\ WF_vars(ProducerStep) /\ WF_vars(ConsumerStep)

-----------------------------------------------------------------------------
(* Properties                                                              *)

ConfigOK == strategy \in Strategies /\ timed \in BOOLEAN

RegionOK == head \in Nat /\ tail \in Nat /\ slots \in Slots

ProducerOK ==
  /\ ppc \in {"idle", "wait", "peek", "look", "dropFree", "dropTail", "claim", "mark", "fill",
             "commit", "publish"}
  /\ pclosed \in BOOLEAN /\ headIdx \in 0 .. Cap - 1 /\ pTail \in Nat
  /\ nextSeq \in Nat /\ need \in Nat /\ done \in Nat /\ dropping \in Nat
  /\ pres \in {"none", "Ok", "Closed", "BufferFull", "Dropped", "MessageTooLarge",
               "BufferEmpty", "CorruptedMessage"}

ConsumerOK ==
  /\ cpc \in {"idle", "probe", "retry", "gate", "copy", "pin", "check", "release", "advance"}
  /\ cclosed \in BOOLEAN /\ cTail \in Nat /\ expected \in Nat /\ hdrSeq \in Nat
  /\ frame \in Frames /\ total \in Nat /\ part \in Nat
  /\ cres \in {"none", "Ok", "None", "Closed", "BufferEmpty", "SequenceMismatch",
               "CorruptedMessage", "InvalidConfig"}

HistoryOK == sent \in Seq(Nat) /\ got \in Seq(Nat)

\* Every variable keeps its type; the indices stay inside the ring.
TypeOK == ConfigOK /\ RegionOK /\ ProducerOK /\ ConsumerOK /\ HistoryOK

\* A drop force-releases slots the consumer may hold; without it the two
\* handles meet only through the cursors and the COMMITTED gate.
Lossless == strategy # "DropOldest"

\* The send guard looks at cursors alone, yet whenever it lets a send start,
\* every slot that send reaches has been physically released: the FREE check
\* of write_committed_no_flush never fails and no sequence number is burned.
ClaimFindsFree ==
  Lossless /\ ppc \in {"claim", "mark"} => slots[headIdx].state = "FREE"

\* refresh_cursors always meets one of its two regimes ("ring cursors are
\* inconsistent" is unreachable), and the tail overtakes the published head
\* only over slots of the batch the producer is still writing.
CursorsConsistent ==
  Lossless => head + done <= tail + Cap /\ tail <= head + done

\* The COMMITTED gate theorem (verify C6): whatever the cursors count is
\* readable, except the slot at the tail while the consumer is releasing it.
CountedIsReadable ==
  \A q \in tail .. head - 1 :
    \/ slots[q % Cap].state = "COMMITTED"
    \/ q = tail /\ cpc \in {"check", "release", "advance"}

\* Between reading a COMMITTED header and writing PINNED over it, the consumer
\* holds no lock; still nobody rewrites the slot in that window.
ReaderUndisturbed ==
  Lossless /\ cpc \in {"copy", "pin"} =>
    /\ slots[TailIdx].state = "COMMITTED"
    /\ slots[TailIdx].seq = hdrSeq

\* recv never reports a sequence gap, a corrupted message or a slot that is
\* not pinned between two healthy handles.
RecvNeverFaults == cres \in {"none", "Ok", "None", "Closed", "BufferEmpty"}

\* Whatever races, a message is received at most once, in send order, and
\* only after its last slot was committed: a frame torn by a concurrent drop
\* is never returned.
ReceivedWasSent ==
  /\ \A i \in 1 .. Len(got) : \E j \in 1 .. Len(sent) : got[i] = sent[j]
  /\ \A i \in 1 .. Len(got) - 1 : got[i] < got[i + 1]

\* Each slot goes FREE, WRITING, COMMITTED, PINNED and back to FREE and skips
\* no state, although PINNED and COMMITTED headers are written blindly.
Successor == [s \in SlotState |->
  CASE s = "FREE" -> "WRITING" [] s = "WRITING" -> "COMMITTED"
    [] s = "COMMITTED" -> "PINNED" [] s = "PINNED" -> "FREE"]
SlotLifecycle ==
  [][Lossless => \A i \in 0 .. Cap - 1 :
       slots'[i].state \in {slots[i].state, Successor[slots[i].state]}]_slots

\* The channel is the abstract queue: a message enters when its last slot is
\* committed and leaves when the tail cursor passes that slot.
Fifo == INSTANCE MessageFifo WITH
  Messages  <- 0 .. MaxSends - 1,
  Depth     <- Cap,
  queue     <- SubSeq(sent, Len(got) + 1, Len(sent)),
  delivered <- got
FifoImplemented == Fifo!Spec

\* A send blocked on a full ring ends without help from its deadline, as long
\* as the receiving application keeps calling recv.
BlockedSendEnds == (ppc = "wait") ~> (ppc # "wait")

\* Every message whose last slot was committed is received in the end, also
\* by a handle that was closed meanwhile: close drains.
AcceptedIsReceived ==
  \A k \in 1 .. MaxSends : (Len(sent) >= k) ~> (Len(got) >= k)

\* README "Drop strategies keep send() as a successful call": a DropOldest
\* send never fails for want of space.
DropOldestSucceeds ==
  strategy = "DropOldest" => pres \notin {"BufferFull", "BufferEmpty", "CorruptedMessage"}

\* docs/README: a DropOldest channel is lossy and its consumer detects gaps
\* from the sequence numbers.  So the newest message, which no later send can
\* displace, reaches a consumer that keeps calling recv.
NewestIsReceived ==
  (nextSeq = MaxSends /\ ppc = "idle" /\ pres = "Ok")
    ~> (cclosed \/ (got # <<>> /\ got[Len(got)] = MaxSends - 1))

\* recv_chunked_message "when chunk 0 was visible the remaining chunks are
\* COMMITTED as well".
ChunksVisibleTogether ==
  cpc = "gate" /\ part > 0 => slots[TailIdx].state = "COMMITTED"

-----------------------------------------------------------------------------
(* The inductive invariant behind the safety properties of a lossless      *)
(* channel.                                                                *)

\* Where a send that owns its slots stands before the last is committed.
Writing == {"claim", "mark", "fill", "commit"}

\* The next position the producer writes, and the slot of a position.
Written == head + done
At(q)   == slots[q % Cap]

\* The cursors bound each other, and a send in hand was granted its slots
\* against a tail no newer than the real one.
CursorInv ==
  /\ headIdx = Written % Cap
  /\ tail <= Written /\ Written <= tail + Cap
  /\ pTail <= tail
  /\ ppc \notin {"peek", "look", "dropFree", "dropTail"}
  /\ ppc \in {"idle", "wait"} => done = 0
  /\ ppc = "wait" => need >= 1 /\ need <= Cap
  /\ ppc \in Writing => done < need /\ head + need <= pTail + Cap
  /\ ppc = "publish" => done = need

\* Up to a full lap past the tail, everything not yet written is FREE.
FreeInv ==
  \A q \in Written .. tail + Cap - 1 :
    At(q).state = IF q = Written /\ ppc \in {"fill", "commit"} THEN "WRITING" ELSE "FREE"

\* What the consumer knows of the slot at the tail from where its recv stands.
ReaderInv ==
  /\ cpc # "idle" => cTail = tail
  /\ cpc \notin {"idle", "probe", "retry", "gate"} => tail < Written
  /\ cpc \in {"copy", "pin"} => At(tail).state = "COMMITTED" /\ At(tail).seq = hdrSeq
  /\ cpc \in {"check", "release"} => At(tail).state = "PINNED"
  /\ cpc = "advance" => At(tail).state = "FREE"

RingInv == CursorInv /\ FreeInv /\ ReaderInv

-----------------------------------------------------------------------------
(* The inductive invariant behind FifoImplemented: a lossless channel whose *)
(* grace poll outlasts every batch.                                         *)

\* Where the consumer has pinned the slot at the tail or released it since.
Holding == {"check", "release", "advance"}

\* The frame at a position of the window; while the consumer moves the tail
\* off a released slot, its own copy stands for the frame.
Content(q) == IF q = tail /\ cpc = "advance" THEN frame ELSE At(q).frame

\* Frame g continues the message of frame f, or starts the next one.
Last(f) == f.part + 1 = f.total
Follows(f, g) ==
  IF Last(f) THEN g.seq = f.seq + 1 /\ g.part = 0
             ELSE g.seq = f.seq /\ g.part = f.part + 1 /\ g.total = f.total

\* The window holds consecutive messages, each in consecutive chunks.
ChainInv ==
  /\ \A q \in tail .. Written - 1 :
       /\ Content(q).part < Content(q).total
       /\ ~(q = tail /\ cpc = "advance") => At(q).seq = Content(q).seq
       /\ At(q).state = "COMMITTED" \/ (q = tail /\ cpc \in Holding)
  /\ \A q \in tail .. Written - 2 : Follows(Content(q), Content(q + 1))
  /\ \A q, r \in tail .. Written - 1 : q <= r =>
       /\ Content(q).seq <= Content(r).seq
       /\ Content(r).seq + q <= Content(q).seq + r

\* The message the next written slot belongs to, and how many chunks of the
\* message at the tail the consumer already has.
Writes == IF ppc \in Writing \cup {"publish"} THEN Seq0 ELSE nextSeq
Has    == IF cpc = "idle" THEN 0 ELSE part

\* The window starts with the message the consumer expects, at the chunk it
\* wants, and what it copied is what the slot holds.
ReadEndInv ==
  /\ tail < Written =>
       /\ Content(tail).seq = expected /\ Content(tail).part = Has
       /\ Has > 0 => Content(tail).total = total
  /\ cpc \in {"probe", "retry"} => part = 0
  /\ cpc \in {"copy", "pin"} \cup Holding => hdrSeq = expected
  /\ cpc \in {"pin", "check", "release"} => frame = At(tail).frame
  /\ cpc \in Holding => total = frame.total
  /\ cclosed /\ cpc # "idle" => tail < head

\* It ends with the chunk the producer wrote last, and the published head
\* stands between two messages.
WriteEndInv ==
  /\ ppc = "publish" => done > 0
  /\ ppc = "commit" => At(Written).frame = [seq |-> Seq0, part |-> done, total |-> need]
  /\ tail < Written =>
       IF done > 0
         THEN Content(Written - 1) = [seq |-> Writes, part |-> done - 1, total |-> need]
         ELSE Content(Written - 1).seq + 1 = Writes /\ Last(Content(Written - 1))
  /\ tail < head => Last(Content(head - 1))

\* An empty window: the consumer has all the producer wrote.
EmptyInv ==
  tail = Written =>
    IF ppc = "publish"
      THEN expected = Writes + 1 /\ Has = 0
      ELSE expected = Writes /\ Has = done /\ (done > 0 => total = need)

\* The history: messages are numbered without a gap.
HistoryInv ==
  /\ nextSeq <= MaxSends
  /\ ppc = "wait" => nextSeq < MaxSends
  /\ Len(sent) = IF ppc \in Writing THEN nextSeq - 1 ELSE nextSeq
  /\ \A i \in 1 .. Len(sent) : sent[i] = i - 1
  /\ Len(got) = expected
  /\ \A i \in 1 .. Len(got) : got[i] = i - 1

HealthyInv == ChainInv /\ ReadEndInv /\ WriteEndInv /\ EmptyInv /\ HistoryInv
============================================================================
