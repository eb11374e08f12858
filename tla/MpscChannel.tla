---------------------------- MODULE MpscChannel ----------------------------
(***************************************************************************)
(* PersistentShmChannel in multi-producer mode: several sending handles,   *)
(* each in a process of its own that may be killed, and one receiving      *)
(* handle, over one region that was empty when they attached.              *)
(*                                                                         *)
(* A send reserves its slots by a compare-and-exchange on the head cursor  *)
(* and writes them afterwards, so the cursors count slots nobody has       *)
(* written yet.  A writer that dies leaves WRITING slots behind, marked    *)
(* with its identity; whoever meets one at the tail reclaims it.           *)
(*                                                                         *)
(* A step is one access to the region with the private computation up to   *)
(* the next.  No view is pinned; closing a handle is in SpscChannel.       *)
(***************************************************************************)
EXTENDS Naturals, Sequences, FiniteSets, FiniteSetsExt

CONSTANTS
  Producers,  \* the sending handles, each standing for its process
  NoOne,      \* the identity a header without a published magic shows
  Cap,        \* config.capacity
  Scenarios   \* what an instance explores: [strategy, sizes, sends, victims]

ASSUME CapAssumption == Cap \in Nat \ {0}
ASSUME NoOneAssumption == NoOne \notin Producers
ASSUME ScenariosAssumption ==
  \A s \in Scenarios :
    /\ s.strategy \in {"Raise", "Block", "BlockTimed", "DropNewest", "DropOldest"}
    /\ s.sizes \subseteq Nat \ {0} /\ s.sends \in Nat /\ s.victims \subseteq Producers

VARIABLES
  scenario,  \* config.backpressure (with its timeout), message sizes, the bound
             \* on reservations and the producers that may be killed
  head,      \* shared head cursor: slots reserved since creation
  tail,      \* shared tail cursor: slots consumed, dropped or reclaimed
  slots,     \* ring index -> header, writer identity, stored frame
  alive,     \* producers whose process lives
  pr,        \* producer -> the state of its handle
  cons,      \* the state of the receiving handle
  sent,      \* messages whose last slot was committed, in that order
  got        \* messages recv returned, in order

vars == <<scenario, head, tail, slots, alive, pr, cons, sent, got>>

SlotState == {"FREE", "WRITING", "COMMITTED", "PINNED"}

\* A frame carries its handle's sequence number and its place among the
\* chunks; who sent it is known to the properties alone.
Frames   == [from : Producers \cup {NoOne}, seq : Nat, part : Nat, total : Nat]
Cleared  == [from |-> NoOne, seq |-> 0, part |-> 0, total |-> 0]
FreeSlot == [state |-> "FREE", seq |-> 0, owner |-> NoOne, reserved |-> 0, frame |-> Cleared]
Slots    == [0 .. Cap - 1 -> [state : SlotState, seq : Nat, owner : Producers \cup {NoOne},
                              reserved : Nat, frame : Frames]]

\* write_header leaves no identity in the header; a WRITING header gets its
\* identity fields first, which count only once the magic is published.
WriteHeader(i, state, seq) ==
  slots' = [slots EXCEPT ![i] =
    [state |-> state, seq |-> seq, owner |-> NoOne, reserved |-> 0, frame |-> slots[i].frame]]
WriteFields(i, seq, n) ==
  slots' = [slots EXCEPT ![i] =
    [state |-> "WRITING", seq |-> seq, owner |-> NoOne, reserved |-> n, frame |-> slots[i].frame]]
PublishIdentity(i, p) == slots' = [slots EXCEPT ![i].owner = p]
ReleaseHeader(i) == slots' = [slots EXCEPT ![i] = FreeSlot]

\* process_liveness of a published identity.  Mutants: a live process passes
\* for a dead one; a dead one is never recognised.
GoneAlways(w) == w # NoOne
GoneNever(w) == FALSE
Gone(w) == w # NoOne /\ w \notin alive

\* The cursors a handle loaded: the depth refresh_cursors derives, and the
\* case in which it rejects them.
Depth(h, t) == IF h >= t THEN IF h - t <= Cap THEN h - t ELSE Cap ELSE 0
Inconsistent(h, t) == h > t + Cap \/ t > h + Cap

\* The guard of reserve_slots.
HasRoom(h, t, n) == Cap - Depth(h, t) >= n

\* The verification of try_reclaim_at_tail_mpsc, for a handle that loaded the
\* cursors h and t: how many slots it frees, 0 when it refuses.
Crossable(i, w) == slots[i].state = "FREE" \/ (slots[i].state = "WRITING" /\ slots[i].owner = w)
Extent(h, t) ==
  LET first == slots[t % Cap] IN
  IF /\ h > t /\ h <= t + Cap
     /\ first.state = "WRITING" /\ Gone(first.owner)
     /\ first.reserved \in 1 .. h - t
     /\ \A k \in 0 .. first.reserved - 1 : Crossable((t + k) % Cap, first.owner)
  THEN first.reserved ELSE 0

Handle == [pc |-> "idle", op |-> "none", h |-> 0, t |-> 0, start |-> 0, need |-> 0,
           done |-> 0, seq |-> 0, left |-> 0, ext |-> 0]
Receiver == [pc |-> "idle", h |-> 0, t |-> 0, seq |-> 0, frame |-> Cleared,
             first |-> Cleared, part |-> 0, left |-> 0, ext |-> 0]

Init ==
  /\ scenario \in Scenarios
  /\ head = 0 /\ tail = 0
  /\ slots = [i \in 0 .. Cap - 1 |-> FreeSlot]
  /\ alive = Producers
  /\ pr = [p \in Producers |-> Handle]
  /\ cons = Receiver
  /\ sent = <<>> /\ got = <<>>

\* Where a producer holds a reservation.
Writing == {"claim", "mark", "stamp", "fill", "commit"}

\* Reservations made or under way: what scenario.sends bounds.
Reservations ==
  MapThenSumSet(LAMBDA p : pr[p].seq, Producers)
    + Cardinality({p \in alive : pr[p].pc \notin {"idle"} \cup Writing})

-----------------------------------------------------------------------------
(* A producer: reserve_slots                                               *)

At(p, pc) == p \in alive /\ pr[p].pc = pc

\* The handle's next access and what it changes in the handle on the way.
Goto(p, pc) == pr' = [pr EXCEPT ![p].pc = pc]
Refresh(p, op) == pr' = [pr EXCEPT ![p].pc = "head", ![p].op = op]
\* send returns; what the handle loaded for it is loaded afresh by the next.
SendEnds(p) == pr' = [pr EXCEPT ![p] = [Handle EXCEPT !.seq = pr[p].seq]]

SendBegin(p, n) ==
  /\ At(p, "idle") /\ Reservations < scenario.sends
  /\ n <= Cap   \* otherwise MessageTooLarge, before anything is touched
  /\ pr' = [pr EXCEPT ![p].pc = "head", ![p].op = "reserve", ![p].need = n]
  /\ UNCHANGED <<scenario, head, tail, slots, alive, cons, sent, got>>

\* refresh_cursors loads the head, then the tail: a torn pair is possible.
LoadHead(p) ==
  /\ At(p, "head")
  /\ pr' = [pr EXCEPT ![p].pc = "tail", ![p].h = head]
  /\ UNCHANGED <<scenario, head, tail, slots, alive, cons, sent, got>>

\* Where the send goes on once it has both cursors; "idle" is an error return:
\* InvalidConfig for a torn pair, BufferFull or (DropNewest) Ok without a trace.
Refused ==
  CASE scenario.strategy = "BlockTimed" -> [pc |-> "head", op |-> "wait"]
    [] scenario.strategy = "DropOldest" -> [pc |-> "head", op |-> "drop"]
    [] OTHER                            -> [pc |-> "idle", op |-> "none"]
AfterRefresh(p, h, t) ==
  LET room == HasRoom(h, t, pr[p].need) IN
  IF Inconsistent(h, t) THEN [pc |-> "idle", op |-> "none"]
  ELSE CASE pr[p].op = "reserve" -> IF room THEN [pc |-> "cas", op |-> "reserve"] ELSE Refused
         [] pr[p].op = "wait"    -> [pc |-> "head", op |-> IF room THEN "reserve" ELSE "wait"]
         [] pr[p].op = "drop"    -> IF Depth(h, t) = 0 THEN [pc |-> "head", op |-> "reserve"]
                                                       ELSE [pc |-> "gate", op |-> "drop"]
LoadTail(p) ==
  LET next == AfterRefresh(p, pr[p].h, tail) IN
  /\ At(p, "tail")
  /\ IF next.pc = "idle"
       THEN SendEnds(p)
       ELSE pr' = [pr EXCEPT ![p].t = tail, ![p].pc = next.pc, ![p].op = next.op]
  /\ UNCHANGED <<scenario, head, tail, slots, alive, cons, sent, got>>

\* The deadline of a Block send, checked between two refreshes.
WaitExpires(p) ==
  /\ At(p, "head") /\ pr[p].op = "wait"
  /\ SendEnds(p)   \* BufferFull
  /\ UNCHANGED <<scenario, head, tail, slots, alive, cons, sent, got>>

\* compare_exchange_head.  Mutant: the head is stored without comparing.
HeadIsStored(p) == TRUE
HeadIs(p) == head = pr[p].h
Reserve(p) ==
  /\ At(p, "cas")
  /\ IF HeadIs(p)
       THEN /\ head' = pr[p].h + pr[p].need
            /\ pr' = [pr EXCEPT ![p].pc = "claim", ![p].start = pr[p].h, ![p].done = 0,
                                ![p].seq = @ + 1]
       ELSE Refresh(p, "reserve") /\ UNCHANGED head
  /\ UNCHANGED <<scenario, tail, slots, alive, cons, sent, got>>

-----------------------------------------------------------------------------
(* A producer: write_reserved_slot for every slot of its reservation       *)

\* Where a producer stands in its reservation, and what it has yet to write.
Position(p) == pr[p].start + pr[p].done
WriteIdx(p) == Position(p) % Cap
Seq0Behind(p) == pr[p].seq - 2   \* mutant: numbered one behind
Seq0(p) == pr[p].seq - 1
Outstanding(p) ==
  IF pr[p].pc \in Writing THEN Position(p) .. pr[p].start + pr[p].need - 1 ELSE {}

\* The FREE check, repeated while a concurrent drop has not released the slot.
ClaimSlot(p) ==
  /\ At(p, "claim") /\ slots[WriteIdx(p)].state = "FREE"
  /\ Goto(p, "mark")
  /\ UNCHANGED <<scenario, head, tail, slots, alive, cons, sent, got>>

\* The waits for another handle are bounded by 30 seconds, which outlast every
\* live handle at work on a slot: what is waited for by then is a dead process.
NobodyWorks ==
  /\ \A q \in alive :
       /\ pr[q].pc \notin {"mark", "stamp", "fill", "commit", "dropFree", "reclaimFree", "reclaimTail"}
       /\ pr[q].pc = "claim" => slots[WriteIdx(q)].state # "FREE"
  /\ cons.pc \in {"idle", "gate", "second", "verify"}

\* RELEASE_WAIT runs out.
ClaimExpires(p) ==
  /\ At(p, "claim") /\ slots[WriteIdx(p)].state # "FREE" /\ NobodyWorks
  /\ SendEnds(p)   \* BufferFull
  /\ UNCHANGED <<scenario, head, tail, slots, alive, cons, sent, got>>

MarkSlot(p) ==
  /\ At(p, "mark")
  /\ WriteFields(WriteIdx(p), Seq0(p), pr[p].need)
  /\ Goto(p, "stamp")
  /\ UNCHANGED <<scenario, head, tail, alive, cons, sent, got>>

StampSlot(p) ==
  /\ At(p, "stamp")
  /\ PublishIdentity(WriteIdx(p), p)
  /\ Goto(p, "fill")
  /\ UNCHANGED <<scenario, head, tail, alive, cons, sent, got>>

FillSlot(p) ==
  /\ At(p, "fill")
  /\ slots' = [slots EXCEPT ![WriteIdx(p)].frame =
       [from |-> p, seq |-> Seq0(p), part |-> pr[p].done, total |-> pr[p].need]]
  /\ Goto(p, "commit")
  /\ UNCHANGED <<scenario, head, tail, alive, cons, sent, got>>

CommitSlot(p) ==
  /\ At(p, "commit")
  /\ WriteHeader(WriteIdx(p), "COMMITTED", Seq0(p))
  /\ IF pr[p].done + 1 < pr[p].need
       THEN /\ pr' = [pr EXCEPT ![p].pc = "claim", ![p].done = @ + 1]
            /\ UNCHANGED sent
       ELSE /\ SendEnds(p)
            /\ sent' = Append(sent, <<p, Seq0(p)>>)
  /\ UNCHANGED <<scenario, head, tail, alive, cons, got>>

-----------------------------------------------------------------------------
(* A producer: drop_oldest_message_mpsc                                    *)

\* Back in the loop of reserve_slots, on the cursors the drop left behind.
DropReturns(p, t) ==
  pr' = [pr EXCEPT ![p].t = t, ![p].left = 0, ![p].pc = "head",
                   ![p].op = IF HasRoom(pr[p].h, t, pr[p].need) THEN "reserve" ELSE "drop"]

\* The COMMITTED gate: the poll of the tail slot succeeds or runs out.
DropGate(p) ==
  /\ At(p, "gate")
  /\ Goto(p, IF slots[pr[p].t % Cap].state = "COMMITTED" THEN "look" ELSE "verify")
  /\ UNCHANGED <<scenario, head, tail, slots, alive, cons, sent, got>>

\* peek_committed and what the frame says of its message.  A slot released
\* meanwhile, or a torn frame, starts the drop over.
DropLook(p) ==
  /\ At(p, "look")
  /\ LET s == slots[pr[p].t % Cap] IN
     \/ (s.state # "COMMITTED" \/ s.frame.total = 0) /\ Refresh(p, "drop")
     \/ /\ s.state = "COMMITTED" /\ s.frame.total > 0 /\ s.frame.part # 0
        /\ SendEnds(p)   \* CorruptedMessage
     \/ /\ s.state = "COMMITTED" /\ s.frame.total > 0 /\ s.frame.part = 0
        /\ pr' = [pr EXCEPT ![p].pc = "dropTail", ![p].left = s.frame.total]
  /\ UNCHANGED <<scenario, head, tail, slots, alive, cons, sent, got>>

\* compare_exchange_tail: one of the droppers that looked at a message wins.
TailIs(t) == tail = t
DropTail(p) ==
  /\ At(p, "dropTail")
  /\ IF TailIs(pr[p].t)
       THEN tail' = pr[p].t + pr[p].left /\ Goto(p, "dropFree")
       ELSE DropReturns(p, pr[p].t) /\ UNCHANGED tail
  /\ UNCHANGED <<scenario, head, slots, alive, cons, sent, got>>

\* force_release_no_flush for each slot of the message, after the exchange.
DropFree(p) ==
  /\ At(p, "dropFree")
  /\ ReleaseHeader(pr[p].t % Cap)
  /\ IF pr[p].left > 1
       THEN pr' = [pr EXCEPT ![p].t = @ + 1, ![p].left = @ - 1]
       ELSE DropReturns(p, pr[p].t + 1)
  /\ UNCHANGED <<scenario, head, tail, alive, cons, sent, got>>

\* The tail is a dead writer's, or the drop starts over ...
DropVerify(p) ==
  LET n == Extent(pr[p].h, pr[p].t) IN
  /\ At(p, "verify")
  /\ \/ n > 0 /\ pr' = [pr EXCEPT ![p].pc = "reclaimFree", ![p].left = n, ![p].ext = n]
     \/ n = 0 /\ Refresh(p, "drop")
  /\ UNCHANGED <<scenario, head, tail, slots, alive, cons, sent, got>>

\* ... until DROP_WAIT runs out over a tail that does not move.
\* Mutant: the comparison is turned round.
TailMoved(p) == tail # pr[p].t
TailStands(p) == tail = pr[p].t
DropExpires(p) ==
  /\ At(p, "verify") /\ Extent(pr[p].h, pr[p].t) = 0 /\ TailStands(p) /\ NobodyWorks
  /\ SendEnds(p)   \* BufferFull
  /\ UNCHANGED <<scenario, head, tail, slots, alive, cons, sent, got>>

\* The extent is freed slot by slot ...
DropReclaimFree(p) ==
  /\ At(p, "reclaimFree")
  /\ ReleaseHeader((pr[p].t + pr[p].ext - pr[p].left) % Cap)
  /\ pr' = [pr EXCEPT ![p].left = @ - 1, ![p].pc = IF pr[p].left > 1 THEN @ ELSE "reclaimTail"]
  /\ UNCHANGED <<scenario, head, tail, alive, cons, sent, got>>

\* ... and the tail moved by compare-and-exchange.  Either way the drop
\* starts over.
DropReclaimTail(p) ==
  /\ At(p, "reclaimTail")
  /\ tail' = IF TailIs(pr[p].t) THEN pr[p].t + pr[p].ext ELSE tail
  /\ Refresh(p, "drop")
  /\ UNCHANGED <<scenario, head, slots, alive, cons, sent, got>>

\* The process is killed, at any point of a send.
Die(p) ==
  /\ p \in alive \cap scenario.victims /\ pr[p].pc # "idle"
  /\ alive' = alive \ {p}
  /\ UNCHANGED <<scenario, head, tail, slots, pr, cons, sent, got>>

-----------------------------------------------------------------------------
(* The consumer.  Its two cursor loads are one step: the head it loads     *)
(* decides nothing but how much of the window a reclaim may touch.         *)

ConsAt(pc) == cons.pc = pc
Move(pc) == cons' = [cons EXCEPT !.pc = pc]
\* The call returns, with a message or an error; the next one starts afresh.
RecvEnds == cons' = Receiver
TailIdx == cons.t % Cap

\* recv begins with refresh_cursors.  try_recv is recv without its poll, and
\* reclaim_stale repeats its reclaim until nothing is freed.
RecvBegin ==
  /\ ConsAt("idle")
  /\ cons' = [Receiver EXCEPT !.h = head, !.t = tail, !.pc = "gate"]
  /\ UNCHANGED <<scenario, head, tail, slots, alive, pr, sent, got>>

\* The header test of the COMMITTED gate.
\* Mutant: a slot its sender is still writing passes for readable.
ReadableOccupied(i) == slots[i].state \in {"WRITING", "COMMITTED"}
Readable(i) == slots[i].state = "COMMITTED"

\* The second look of recv, after a reclaim.
SecondLook ==
  /\ ConsAt("second")
  /\ IF Readable(TailIdx)
       THEN cons' = [cons EXCEPT !.pc = "copy", !.seq = slots[TailIdx].seq]
       ELSE RecvEnds
  /\ UNCHANGED <<scenario, head, tail, slots, alive, pr, sent, got>>

\* poll_tail_committed.  Before a first chunk it may run out at any time; inside
\* a message it outlasts a live sender (SpscChannel has the poll that does not).
InProgress == \E p \in alive : cons.t \in Outstanding(p)
Gate ==
  /\ ConsAt("gate")
  /\ \/ /\ Readable(TailIdx)
        /\ cons' = [cons EXCEPT !.pc = "copy", !.seq = slots[TailIdx].seq]
     \/ ~Readable(TailIdx) /\ cons.part = 0 /\ Move("verify")
     \/ ~Readable(TailIdx) /\ cons.part > 0 /\ ~InProgress /\ RecvEnds
  /\ UNCHANGED <<scenario, head, tail, slots, alive, pr, sent, got>>

Verify ==
  LET n == Extent(cons.h, cons.t) IN
  /\ ConsAt("verify")
  /\ \/ n > 0 /\ cons' = [cons EXCEPT !.pc = "reclaimFree", !.left = n, !.ext = n]
     \/ n = 0 /\ RecvEnds
  /\ UNCHANGED <<scenario, head, tail, slots, alive, pr, sent, got>>

ReclaimFree ==
  /\ ConsAt("reclaimFree")
  /\ ReleaseHeader((cons.t + cons.ext - cons.left) % Cap)
  /\ cons' = [cons EXCEPT !.left = @ - 1, !.pc = IF cons.left > 1 THEN @ ELSE "reclaimTail"]
  /\ UNCHANGED <<scenario, head, tail, alive, pr, sent, got>>

\* A won exchange lets recv look once more; a lost one counts as nothing freed.
ReclaimTail ==
  /\ ConsAt("reclaimTail")
  /\ IF TailIs(cons.t)
       THEN tail' = cons.t + cons.ext /\ cons' = [cons EXCEPT !.t = @ + cons.ext, !.pc = "second"]
       ELSE RecvEnds /\ UNCHANGED tail
  /\ UNCHANGED <<scenario, head, slots, alive, pr, sent, got>>

\* read_committed: the payload, then the PINNED header.
CopyPayload ==
  /\ ConsAt("copy")
  /\ cons' = [cons EXCEPT !.frame = slots[TailIdx].frame, !.pc = "pin"]
  /\ UNCHANGED <<scenario, head, tail, slots, alive, pr, sent, got>>

\* No sequence order is enforced between messages; the frame must carry the
\* header's number, and a later chunk that of the first.
Verdict ==
  IF cons.part > 0
    THEN IF /\ cons.seq = cons.first.seq /\ cons.frame.seq = cons.seq
            /\ cons.frame.part = cons.part /\ cons.frame.total = cons.first.total
         THEN "take" ELSE "unpin"
  ELSE IF cons.frame.total = 0 \/ cons.frame.seq # cons.seq THEN "skip"
  ELSE IF cons.frame.total > 1 /\ cons.frame.part # 0 THEN "unpin"
  ELSE "take"

PinSlot ==
  /\ ConsAt("pin")
  /\ WriteHeader(TailIdx, "PINNED", cons.seq)
  /\ cons' = [cons EXCEPT !.pc = "check", !.first = IF cons.part = 0 THEN cons.frame ELSE @]
  /\ UNCHANGED <<scenario, head, tail, alive, pr, sent, got>>

\* release_pinned refuses a slot that is not PINNED any more.
CheckPinned ==
  /\ ConsAt("check")
  /\ IF slots[TailIdx].state = "PINNED" THEN Move("release") ELSE RecvEnds
  /\ UNCHANGED <<scenario, head, tail, slots, alive, pr, sent, got>>

FreeTail ==
  /\ ConsAt("release")
  /\ ReleaseHeader(TailIdx)
  /\ IF Verdict = "unpin" THEN RecvEnds ELSE Move("advance")
  /\ UNCHANGED <<scenario, head, tail, alive, pr, sent, got>>

\* advance_tail_impl.
FetchMaxTail(t) == tail' = IF t > tail THEN t ELSE tail
AdvanceTail ==
  LET take == Verdict = "take"
      last == cons.part + 1 >= cons.first.total IN
  /\ ConsAt("advance")
  /\ FetchMaxTail(cons.t + 1)
  /\ IF take /\ ~last
       THEN cons' = [cons EXCEPT !.t = @ + 1, !.part = @ + 1, !.pc = "gate"]
       ELSE RecvEnds
  /\ got' = IF take /\ last THEN Append(got, <<cons.frame.from, cons.frame.seq>>) ELSE got
  /\ UNCHANGED <<scenario, head, slots, alive, pr, sent>>

-----------------------------------------------------------------------------

\* The steps of a send once it has begun, short of Block's deadline.
ProducerStep(p) ==
  \/ LoadHead(p) \/ LoadTail(p) \/ Reserve(p)
  \/ ClaimSlot(p) \/ ClaimExpires(p) \/ MarkSlot(p) \/ StampSlot(p) \/ FillSlot(p) \/ CommitSlot(p)
  \/ DropGate(p) \/ DropLook(p) \/ DropTail(p) \/ DropFree(p)
  \/ DropVerify(p) \/ DropExpires(p) \/ DropReclaimFree(p) \/ DropReclaimTail(p)

\* recv, with the calls: the application keeps receiving.
ConsumerStep ==
  \/ RecvBegin \/ SecondLook \/ Gate \/ Verify \/ ReclaimFree \/ ReclaimTail
  \/ CopyPayload \/ PinSlot \/ CheckPinned \/ FreeTail \/ AdvanceTail

Next ==
  \/ \E p \in Producers :
       \/ \E n \in scenario.sizes : SendBegin(p, n)
       \/ WaitExpires(p) \/ ProducerStep(p) \/ Die(p)
  \/ ConsumerStep

Spec == Init /\ [][Next]_vars

\* A live process runs on, its deadlines pass, and the application keeps
\* calling recv.
FairSpec ==
  /\ Spec
  /\ \A p \in Producers : WF_vars(ProducerStep(p)) /\ SF_vars(DropExpires(p))
  /\ WF_vars(ConsumerStep)

-----------------------------------------------------------------------------
(* Properties                                                              *)

ProducerPcs == {"idle", "head", "tail", "cas", "claim", "mark", "stamp", "fill", "commit",
                "gate", "look", "dropTail", "dropFree", "verify", "reclaimFree", "reclaimTail"}
ConsumerPcs == {"idle", "gate", "second", "verify", "reclaimFree",
                "reclaimTail", "copy", "pin", "check", "release", "advance"}

RegionOK == head \in Nat /\ tail \in Nat /\ slots \in Slots /\ alive \subseteq Producers
HandleOK ==
  pr \in [Producers -> [pc : ProducerPcs, op : {"none", "reserve", "wait", "drop"}, h : Nat,
                        t : Nat, start : Nat, need : Nat, done : Nat, seq : Nat, left : Nat,
                        ext : Nat]]
ReceiverOK ==
  cons \in [pc : ConsumerPcs, h : Nat, t : Nat,
            seq : Nat, frame : Frames, first : Frames, part : Nat, left : Nat, ext : Nat]
HistoryOK == sent \in Seq(Producers \X Nat) /\ got \in Seq((Producers \cup {NoOne}) \X Nat)

\* Every variable keeps its type.
TypeOK == scenario \in Scenarios /\ RegionOK /\ HandleOK /\ ReceiverOK /\ HistoryOK

\* Drops lose messages.  Drops and reclaims of chunked messages go past slots
\* a live producer has still to write (see ReservationsInWindow).
Lossless == scenario.strategy # "DropOldest"
Calm     == scenario.sizes = {1} \/ (scenario.victims = {} /\ Lossless)

\* "Two producers can never over-commit the ring even when both observe free
\* space at once": the cursors never span more than the ring and, without
\* drops, no two live handles have reservations on one physical slot.  (A drop
\* moves the tail before it frees the slot, so the consumer can take the
\* dropped message for the next lap's and pass a slot still to be written.)
ReservationsDisjoint ==
  /\ head <= tail + Cap
  /\ Lossless /\ Calm =>
       \A p, q \in alive : p # q =>
         \A a \in Outstanding(p), b \in Outstanding(q) : a % Cap # b % Cap

\* Each message is received at most once; without drops, also after its last
\* slot was committed, and those of one producer in the order it sent them.
\* (DropOldest moves the tail before it frees the slots: the consumer, a lap
\* later, can still read the dropped message.)
ReceivedOnceInOrder ==
  Calm =>
    /\ \A i, j \in 1 .. Len(got) : i # j => got[i] # got[j]
    /\ Lossless =>
         /\ \A i \in 1 .. Len(got) : \E j \in 1 .. Len(sent) : got[i] = sent[j]
         /\ \A i, j \in 1 .. Len(got) :
              i < j /\ got[i][1] = got[j][1] => got[i][2] < got[j][2]

\* Without drops a committed message stays in the ring until the consumer
\* has it, whatever is reclaimed around it.
CommittedKept ==
  Lossless /\ Calm =>
    \A j \in 1 .. Len(sent) :
      \/ \E i \in 1 .. Len(got) : got[i] = sent[j]
      \/ cons.frame.from = sent[j][1] /\ cons.frame.seq = sent[j][2]
      \/ \E i \in 0 .. Cap - 1 :
           slots[i].frame.from = sent[j][1] /\ slots[i].frame.seq = sent[j][2]

\* "A live writer's in-flight slots classify as Alive and are left alone": a
\* slot a live producer is writing is changed by that producer only.  (A drop
\* can hand the slot the consumer is about to pin to a new sender.)
WriterUndisturbed ==
  [][\A p \in alive : Lossless /\ Calm /\ pr[p].pc \in {"stamp", "fill", "commit"} /\ pr'[p] = pr[p] =>
       slots'[WriteIdx(p)] = slots[WriteIdx(p)]]_vars

\* A producer died with a reservation whose first slot names no writer: the
\* conservative reclaim never touches it.
Nameless ==
  \E p \in Producers \ alive :
    pr[p].done = 0 /\ pr[p].pc \in {"claim", "mark", "stamp"}

\* A producer killed in the middle of a send wedges nobody: the consumer
\* catches up with what was committed, past the slots the dead writer left.
CommittedIsReceived ==
  (Calm /\ Lossless /\ Len(got) < Len(sent)) ~> (Len(got) = Len(sent) \/ Nameless)

\* "The retry loop always reaches a stable tail": reserving, dropping and
\* writing end, however many drop and receive at the same time.
SendReturns ==
  \A p \in Producers :
    (pr[p].pc # "idle") ~> (pr[p].pc = "idle" \/ p \notin alive \/ pr[p].op = "wait")

\* try_reclaim_at_tail_mpsc: "while the slots stay inside [tail, head) no
\* producer may claim them", which every send and reclaim builds on.  So no
\* slot a live producer has still to write is taken out of the window.
ReservationsInWindow ==
  \A p \in alive : Outstanding(p) \subseteq tail .. head - 1
=============================================================================
