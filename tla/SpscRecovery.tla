---------------------------- MODULE SpscRecovery ----------------------------
(***************************************************************************)
(* Crashes and restarts of the two sides of a single-producer              *)
(* PersistentShmChannel.  A process is killed between two accesses to the  *)
(* region; another one opens the region later, rebuilds its handle from    *)
(* what the slots and the cursors show, and goes on.  Dead writers'        *)
(* WRITING slots are reclaimed by the opener, or by the consumer when it   *)
(* meets them at the tail.                                                 *)
(*                                                                         *)
(* A step is one access to the region.  Backpressure is Raise, nothing is  *)
(* closed (both are in SpscChannel) and no view is pinned (ZeroCopy), so   *)
(* the pin floor stays at its sentinel.                                    *)
(***************************************************************************)
EXTENDS Naturals, Sequences, FiniteSets

CONSTANTS
  Cap,       \* config.capacity
  Scenarios  \* what an instance explores, see ScenariosAssumption

\* sizes, sends: the messages' slots, and how many are begun.  opens, copens:
\* how often each side opens the region.  kill, ckill: where each side may be
\* killed.  quiet: the other side makes no call while a handle opens.
ASSUME CapAssumption == Cap \in Nat \ {0}
ASSUME ScenariosAssumption ==
  \A s \in Scenarios :
    /\ s.sizes \subseteq 1 .. Cap /\ s.sends \in Nat /\ s.opens \in Nat /\ s.copens \in Nat
    /\ s.kill \subseteq STRING /\ s.ckill \subseteq STRING /\ s.quiet \in BOOLEAN

VARIABLES
  scenario,  \* the element of Scenarios explored
  head,      \* shared head cursor
  tail,      \* shared tail cursor
  slots,     \* ring index -> header, writer identity, stored frame
  pr,        \* the producer's handle
  cons,      \* the consumer's handle
  sent,      \* messages whose last slot was committed, in order
  got,       \* messages recv returned, in order
  met        \* what the producer's openings found that recovery cannot repair

vars == <<scenario, head, tail, slots, pr, cons, sent, got, met>>

\* A writer's identity is the number of its opening; 0 is none published.
\* A message is known by its rank among the sends begun: sequence numbers
\* start over.
SlotState == {"FREE", "WRITING", "COMMITTED", "PINNED"}
Frames   == [id : Nat, seq : Nat, part : Nat, total : Nat]
Cleared  == [id |-> 0, seq |-> 0, part |-> 0, total |-> 0]
FreeSlot == [state |-> "FREE", seq |-> 0, owner |-> 0, frame |-> Cleared]
Slots    == [0 .. Cap - 1 -> [state : SlotState, seq : Nat, owner : Nat, frame : Frames]]

WriteHeader(i, state, seq) ==
  slots' = [slots EXCEPT ![i] = [state |-> state, seq |-> seq, owner |-> 0, frame |-> slots[i].frame]]
PublishIdentity(i) == slots' = [slots EXCEPT ![i].owner = pr.inc]
ReleaseHeader(i) == slots' = [slots EXCEPT ![i] = FreeSlot]

Next1NoWrap(i) == i + 1   \* mutant: the index runs off the ring
Next1(i) == (i + 1) % Cap
Beyond(a, b) == IF a > b THEN a - b ELSE 0

\* refresh_cursors and recover_from_storage: the slots the cursors count, and
\* cursors more than a lap apart, which open refuses with InvalidConfig.
CursorLen(h, t) == Beyond(h, t)
Inconsistent == head > tail + Cap \/ tail > head + Cap

\* guard_len without a pin: the bias stands for slots the cursors do not count.
\* Mutant: the bias is left out.
HasRoomUnbiased(n) == Cap >= Beyond(head, tail) + n
HasRoom(n) == Cap >= Beyond(head, tail) + pr.bias + n

\* reclaim_dead_writing's decision: WRITING, an identity, its process gone.
\* Mutant: a live writer passes for gone.
GoneAlways(w) == TRUE
Gone(w) == w # pr.inc \/ pr.pc = "dead"
DeadWriting(i) == slots[i].state = "WRITING" /\ slots[i].owner # 0 /\ Gone(slots[i].owner)

Opening == {"reclaim", "scan", "cursors", "infer"}
Producer == [pc |-> "idle", inc |-> 1, idx |-> 0, bias |-> 0, next |-> 0, need |-> 0, done |-> 0,
             id |-> 0, k |-> 0, occ |-> 0, pins |-> 0]
Consumer == [pc |-> "idle", inc |-> 1, h |-> 0, t |-> 0, expected |-> 0, resync |-> FALSE,
             took |-> FALSE, seq |-> 0, frame |-> Cleared, first |-> Cleared, part |-> 0,
             k |-> 0, freed |-> 0, readable |-> FALSE]

\* Both sides have the region open and nothing was sent.  The consumer opened
\* an empty ring; it adopts the first sequence number it sees.
Init ==
  /\ scenario \in Scenarios
  /\ head = 0 /\ tail = 0
  /\ slots = [i \in 0 .. Cap - 1 |-> FreeSlot]
  /\ pr = Producer
  /\ cons = [Consumer EXCEPT !.resync = TRUE]
  /\ sent = <<>> /\ got = <<>> /\ met = {}

-----------------------------------------------------------------------------
(* The producer: send                                                      *)

At(pc) == pr.pc = pc
Goto(pc) == pr' = [pr EXCEPT !.pc = pc]

\* The guard, on the tail just loaded.  A refused send returns BufferFull.
SendBegin(n) ==
  /\ At("idle") /\ pr.id < scenario.sends
  /\ HasRoom(n)
  /\ pr' = [pr EXCEPT !.pc = "claim", !.need = n, !.done = 0,
                     !.next = pr.next + 1, !.id = pr.id + 1]
  /\ UNCHANGED <<scenario, head, tail, slots, cons, sent, got, met>>

\* The FREE check of write_committed_no_flush; it ends the send otherwise.
ClaimSlot ==
  /\ At("claim")
  /\ Goto(IF slots[pr.idx].state = "FREE" THEN "mark" ELSE "idle")
  /\ UNCHANGED <<scenario, head, tail, slots, cons, sent, got, met>>

MarkSlot ==
  /\ At("mark")
  /\ WriteHeader(pr.idx, "WRITING", pr.next - 1)
  /\ Goto("stamp")
  /\ UNCHANGED <<scenario, head, tail, cons, sent, got, met>>

StampSlot ==
  /\ At("stamp")
  /\ PublishIdentity(pr.idx)
  /\ Goto("fill")
  /\ UNCHANGED <<scenario, head, tail, cons, sent, got, met>>

FillSlot ==
  /\ At("fill")
  /\ slots' = [slots EXCEPT ![pr.idx].frame =
       [id |-> pr.id, seq |-> pr.next - 1, part |-> pr.done, total |-> pr.need]]
  /\ Goto("commit")
  /\ UNCHANGED <<scenario, head, tail, cons, sent, got, met>>

CommitSlot ==
  LET last == pr.done + 1 >= pr.need IN
  /\ At("commit")
  /\ WriteHeader(pr.idx, "COMMITTED", pr.next - 1)
  /\ pr' = [pr EXCEPT !.idx = Next1(pr.idx), !.done = pr.done + 1,
                     !.pc = IF last THEN "publish" ELSE "claim"]
  /\ sent' = IF last THEN Append(sent, pr.id) ELSE sent
  /\ UNCHANGED <<scenario, head, tail, cons, got, met>>

PublishHead ==
  /\ At("publish")
  /\ head' = head + pr.need
  /\ Goto("idle")
  /\ UNCHANGED <<scenario, tail, slots, cons, sent, got, met>>

\* The process ends; what its handle knew is gone.
Die ==
  /\ pr.pc \in scenario.kill
  /\ pr' = [Producer EXCEPT !.pc = "dead", !.inc = pr.inc, !.id = pr.id]
  /\ UNCHANGED <<scenario, head, tail, slots, cons, sent, got, met>>

-----------------------------------------------------------------------------
(* The producer's successor: open, recover_from_storage                    *)

Open ==
  /\ At("dead") /\ pr.inc < scenario.opens
  /\ scenario.quiet => cons.pc \in {"idle", "dead"}
  /\ pr' = [pr EXCEPT !.pc = "reclaim", !.inc = pr.inc + 1]
  /\ UNCHANGED <<scenario, head, tail, slots, cons, sent, got, met>>

\* Each loop of the recovery visits one slot a step.
ScanTo(pc) == IF pr.k + 1 < Cap THEN pr.pc ELSE pc

\* Dead writers' slots are freed.  Verification and release are one step: the
\* slot is the dead writer's until this process itself sends.
OpenReclaim ==
  /\ At("reclaim")
  /\ IF DeadWriting(pr.k) THEN ReleaseHeader(pr.k) ELSE UNCHANGED slots
  /\ pr' = [pr EXCEPT !.k = Next1(pr.k), !.pc = ScanTo("scan")]
  /\ UNCHANGED <<scenario, head, tail, cons, sent, got, met>>

\* occupied_slot_headers, and the next sequence number from it.
\* Mutant: numbering continues with the newest number seen.
SeqAfterSame(s) == s.seq
SeqAfter(s) == s.seq + 1
OpenScan ==
  LET s == slots[pr.k] IN
  /\ At("scan")
  /\ pr' = [pr EXCEPT !.k = Next1(pr.k), !.pc = ScanTo("cursors"),
              !.occ  = IF s.state \in {"COMMITTED", "WRITING"} THEN pr.occ + 1 ELSE pr.occ,
              !.pins = IF s.state = "PINNED" THEN pr.pins + 1 ELSE pr.pins,
              !.next = IF s.state # "FREE" /\ SeqAfter(s) > pr.next THEN SeqAfter(s) ELSE pr.next]
  /\ UNCHANGED <<scenario, head, tail, slots, cons, sent, got, met>>

\* The cursors, the bias (pins count behind the head only), and where the
\* search for the write position starts.  What this opening met is noted for
\* the properties.
OpenCursors ==
  LET pool == IF tail > head THEN pr.occ + pr.pins ELSE pr.occ IN
  /\ At("cursors")
  /\ pr' = IF Inconsistent
             THEN [Producer EXCEPT !.pc = "dead", !.inc = pr.inc, !.id = pr.id]
             ELSE [pr EXCEPT !.pc = "infer", !.idx = tail % Cap, !.k = 0,
                             !.bias = Beyond(pool, CursorLen(head, tail))]
  /\ met' = met \cup
       (IF pr.occ + pr.pins = 0 /\ cons.expected > 0 /\ ~cons.resync THEN {"drained"} ELSE {}) \cup
       (IF tail > head THEN {"tailAhead"} ELSE {}) \cup
       (IF \E i \in 0 .. Cap - 1 : slots[i].frame.id \notin {sent[j] : j \in 1 .. Len(sent)} \cup {0}
          THEN {"partial"} ELSE {})
  /\ UNCHANGED <<scenario, head, tail, slots, cons, sent, got>>

\* infer_head_from_tail: the first FREE slot from the tail.
\* Mutant: the search stops at a slot a dead writer left.
TakenCommitted(i) == slots[i].state \in {"COMMITTED", "PINNED"}
Taken(i) == slots[i].state # "FREE"
OpenInfer ==
  /\ At("infer")
  /\ pr' = IF Taken(pr.idx) /\ pr.k < Cap
             THEN [pr EXCEPT !.idx = Next1(pr.idx), !.k = pr.k + 1]
             ELSE [pr EXCEPT !.pc = "idle", !.k = 0, !.occ = 0, !.pins = 0]
  /\ UNCHANGED <<scenario, head, tail, slots, cons, sent, got, met>>

-----------------------------------------------------------------------------
(* The consumer: recv                                                      *)

ConsAt(pc) == cons.pc = pc
\* The call returns and its scratch state is gone.
RecvEnds(c) ==
  cons' = [Consumer EXCEPT !.inc = cons.inc, !.expected = c.expected, !.resync = c.resync]
TailIdx == cons.t % Cap

RecvBegin ==
  /\ ConsAt("idle")
  /\ scenario.quiet => pr.pc \notin Opening
  /\ cons' = [cons EXCEPT !.pc = "gate", !.h = head, !.t = tail, !.took = cons.resync, !.resync = FALSE]
  /\ UNCHANGED <<scenario, head, tail, slots, pr, sent, got, met>>

\* poll_tail_committed.  Inside a message the poll outlasts a live sender.
InProgress == pr.pc \in {"claim", "mark", "stamp", "fill", "commit", "publish"}
\* Leftovers lie beyond the published head: nothing is reclaimed inside it.
CaughtUp == cons.h <= cons.t
Gate ==
  /\ ConsAt("gate")
  /\ \/ /\ slots[TailIdx].state = "COMMITTED"
        /\ cons' = [cons EXCEPT !.pc = "copy", !.seq = slots[TailIdx].seq]
     \/ /\ slots[TailIdx].state # "COMMITTED" /\ cons.part = 0 /\ CaughtUp
        /\ cons' = [cons EXCEPT !.pc = "verify", !.k = TailIdx]
     \/ /\ slots[TailIdx].state # "COMMITTED" /\ cons.part = 0 /\ ~CaughtUp
        /\ RecvEnds([cons EXCEPT !.resync = cons.took])
     \/ /\ slots[TailIdx].state # "COMMITTED" /\ cons.part > 0 /\ ~InProgress
        /\ RecvEnds(cons)
  /\ UNCHANGED <<scenario, head, tail, slots, pr, sent, got, met>>

\* try_reclaim_at_tail_spsc: the run of dead WRITING slots from the tail, each
\* verified and then released.
Verify ==
  /\ ConsAt("verify")
  /\ \/ /\ DeadWriting(cons.k) /\ cons.freed < Cap
        /\ cons' = [cons EXCEPT !.pc = "free"]
     \/ /\ ~DeadWriting(cons.k) \/ cons.freed = Cap
        /\ IF cons.freed = 0
             THEN RecvEnds([cons EXCEPT !.resync = cons.took])
             ELSE cons' = [cons EXCEPT !.pc = "second", !.resync = TRUE]
  /\ UNCHANGED <<scenario, head, tail, slots, pr, sent, got, met>>

FreeDead ==
  /\ ConsAt("free")
  /\ ReleaseHeader(cons.k)
  /\ cons' = [cons EXCEPT !.pc = "verify", !.k = Next1(cons.k), !.freed = cons.freed + 1]
  /\ UNCHANGED <<scenario, head, tail, pr, sent, got, met>>

SecondLook ==
  /\ ConsAt("second")
  /\ IF slots[TailIdx].state = "COMMITTED"
       THEN cons' = [cons EXCEPT !.pc = "copy", !.seq = slots[TailIdx].seq]
       ELSE RecvEnds(cons)
  /\ UNCHANGED <<scenario, head, tail, slots, pr, sent, got, met>>

CopyPayload ==
  /\ ConsAt("copy")
  /\ cons' = [cons EXCEPT !.pc = "pin", !.frame = slots[TailIdx].frame]
  /\ UNCHANGED <<scenario, head, tail, slots, pr, sent, got, met>>

\* The PINNED header, and what becomes of the copy.  A number out of order
\* leaves the slot PINNED; a wrong chunk (validate_chunk; messages of as many
\* chunks are as long) releases it and leaves the tail; a frame that does not
\* decode or has another number is passed over.
Rejected == cons.part = 0 /\ ~cons.took /\ cons.seq # cons.expected
Torn == cons.part = 0 /\ (cons.frame.total = 0 \/ cons.frame.seq # cons.seq)
WrongPartNever == FALSE   \* mutant: later chunks are not compared with the first
WrongPart ==
  \/ cons.part = 0 /\ ~Torn /\ cons.frame.part # 0
  \/ /\ cons.part > 0
     /\ \/ cons.seq # cons.first.seq \/ cons.frame.seq # cons.seq
        \/ cons.frame.part # cons.part \/ cons.frame.total # cons.first.total
PinSlot ==
  /\ ConsAt("pin")
  /\ WriteHeader(TailIdx, "PINNED", cons.seq)
  /\ \/ Rejected /\ RecvEnds(cons)
     \/ /\ ~Rejected
        /\ cons' = [cons EXCEPT !.pc = "release",
                      !.first = IF cons.part = 0 THEN cons.frame ELSE cons.first,
                      !.expected = IF cons.part = 0 THEN cons.seq ELSE cons.expected]
  /\ UNCHANGED <<scenario, head, tail, pr, sent, got, met>>

FreeTail ==
  /\ ConsAt("release")
  /\ ReleaseHeader(TailIdx)
  /\ IF WrongPart THEN RecvEnds(cons) ELSE cons' = [cons EXCEPT !.pc = "advance"]
  /\ UNCHANGED <<scenario, head, tail, pr, sent, got, met>>

AdvanceTail ==
  LET last == Torn \/ cons.part + 1 >= cons.first.total IN
  /\ ConsAt("advance")
  /\ tail' = cons.t + 1
  /\ IF last
       THEN /\ RecvEnds([cons EXCEPT !.expected = cons.expected + 1])
            /\ got' = IF Torn THEN got ELSE Append(got, cons.first.id)
       ELSE /\ cons' = [cons EXCEPT !.pc = "gate", !.t = cons.t + 1, !.part = cons.part + 1]
            /\ UNCHANGED got
  /\ UNCHANGED <<scenario, head, slots, pr, sent, met>>

\* reclaim_stale, the owner's cleanup: every dead writer's slot outside the
\* window, and a resync when there was one.
Covered(i) == \E c \in tail .. head - 1 : c % Cap = i
ReclaimStale ==
  LET stale == {i \in 0 .. Cap - 1 : ~Covered(i) /\ DeadWriting(i)} IN
  /\ ConsAt("idle") /\ pr.pc \notin Opening /\ stale # {}
  /\ slots' = [i \in 0 .. Cap - 1 |-> IF i \in stale THEN FreeSlot ELSE slots[i]]
  /\ cons' = [cons EXCEPT !.resync = TRUE]
  /\ UNCHANGED <<scenario, head, tail, pr, sent, got, met>>

-----------------------------------------------------------------------------
(* The consumer's successor                                                *)

ConsDie ==
  /\ cons.pc \in scenario.ckill /\ cons.inc < scenario.copens
  /\ cons' = [Consumer EXCEPT !.pc = "dead", !.inc = cons.inc]
  /\ UNCHANGED <<scenario, head, tail, slots, pr, sent, got, met>>

ConsOpen ==
  /\ ConsAt("dead") /\ cons.inc < scenario.copens /\ (scenario.quiet => pr.pc \notin Opening)
  /\ cons' = [cons EXCEPT !.pc = "reclaim", !.inc = cons.inc + 1]
  /\ UNCHANGED <<scenario, head, tail, slots, pr, sent, got, met>>

ConsOpenReclaim ==
  /\ ConsAt("reclaim")
  /\ IF DeadWriting(cons.k) THEN ReleaseHeader(cons.k) ELSE UNCHANGED slots
  /\ cons' = [cons EXCEPT !.k = Next1(cons.k), !.resync = cons.resync \/ DeadWriting(cons.k),
                          !.pc = IF cons.k + 1 < Cap THEN "reclaim" ELSE "scan"]
  /\ UNCHANGED <<scenario, head, tail, pr, sent, got, met>>

ConsOpenScan ==
  /\ ConsAt("scan")
  /\ cons' = [cons EXCEPT !.k = Next1(cons.k), !.pc = IF cons.k + 1 < Cap THEN "scan" ELSE "expect",
                !.readable = cons.readable \/ slots[cons.k].state \in {"COMMITTED", "PINNED"}]
  /\ UNCHANGED <<scenario, head, tail, slots, pr, sent, got, met>>

\* The expected number is the one at the tail; with nothing readable the next
\* read adopts what it finds.
ConsOpenExpect ==
  /\ ConsAt("expect")
  /\ IF Inconsistent
       THEN cons' = [Consumer EXCEPT !.pc = "dead", !.inc = cons.inc]
       ELSE RecvEnds(IF cons.readable THEN [cons EXCEPT !.expected = slots[tail % Cap].seq]
                                      ELSE [cons EXCEPT !.resync = TRUE])
  /\ UNCHANGED <<scenario, head, tail, slots, pr, sent, got, met>>

-----------------------------------------------------------------------------

\* A live producer goes on with a send or an opening it has begun.
ProducerStep ==
  \/ ClaimSlot \/ MarkSlot \/ StampSlot \/ FillSlot \/ CommitSlot \/ PublishHead
  \/ OpenReclaim \/ OpenScan \/ OpenCursors \/ OpenInfer

\* The application keeps receiving, and a killed consumer is started again.
ConsumerStep ==
  \/ RecvBegin \/ Gate \/ Verify \/ FreeDead \/ SecondLook
  \/ CopyPayload \/ PinSlot \/ FreeTail \/ AdvanceTail
  \/ ConsOpen \/ ConsOpenReclaim \/ ConsOpenScan \/ ConsOpenExpect

Next ==
  \/ \E n \in scenario.sizes : SendBegin(n)
  \/ ProducerStep \/ Die \/ Open
  \/ ConsumerStep \/ ReclaimStale \/ ConsDie

Spec == Init /\ [][Next]_vars
FairSpec == Spec /\ WF_vars(ProducerStep) /\ WF_vars(ConsumerStep)

-----------------------------------------------------------------------------
(* Properties                                                              *)

Writing == {"claim", "mark", "stamp", "fill", "commit"}

\* Every variable keeps its type.
TypeOK ==
  /\ scenario \in Scenarios /\ head \in Nat /\ tail \in Nat /\ slots \in Slots
  /\ pr \in [pc : {"idle", "dead", "publish"} \cup Opening \cup Writing, inc : Nat, idx : 0 .. Cap - 1,
             bias : 0 .. Cap, next : Nat, need : 0 .. Cap, done : 0 .. Cap, id : Nat, k : 0 .. Cap,
             occ : 0 .. Cap, pins : 0 .. Cap]
  /\ cons \in [pc : {"idle", "dead", "gate", "verify", "free", "second", "copy", "pin", "release",
                     "advance", "reclaim", "scan", "expect"},
               inc : Nat, h : Nat, t : Nat, expected : Nat, resync : BOOLEAN, took : BOOLEAN,
               seq : Nat, frame : Frames, first : Frames, part : 0 .. Cap, k : 0 .. Cap - 1,
               freed : 0 .. Cap, readable : BOOLEAN]
  /\ sent \in Seq(Nat) /\ got \in Seq(Nat) /\ met \subseteq {"drained", "tailAhead", "partial"}

\* Killed at any point of a send or between sends, reopened or not: nothing is
\* received twice, out of order, or without having been committed in full.
ReceivedInOrder ==
  /\ \A i \in 1 .. Len(got) : \E j \in 1 .. Len(sent) : got[i] = sent[j]
  /\ \A i, j \in 1 .. Len(got) : i < j => got[i] < got[j]

\* recover_from_storage: "so the send guard never over-commits a physically
\* full ring", and a recovered producer writes after the leftovers "instead of
\* into them".  What the guard admits finds a FREE slot, unless an opening met
\* what recovery cannot repair: a consumer past the published head, or numbers
\* that start over, after which a refused slot stays PINNED and uncounted.
ClaimFindsFree ==
  scenario.quiet /\ At("claim") /\ met = {} => slots[pr.idx].state = "FREE"

\* "A live writer's in-flight slots classify as Alive and are left alone."
WriterUndisturbed ==
  [][scenario.quiet /\ pr.pc \in {"stamp", "fill", "commit"} /\ pr' = pr =>
       slots'[pr.idx] = slots[pr.idx]]_vars

\* The write position a restarted producer infers agrees with the cursors and
\* the leftovers it counts, so the consumer looks where the producer writes.
PositionRecovered ==
  scenario.quiet /\ At("idle") /\ met = {} => pr.idx = (head + pr.bias) % Cap

\* A dead writer left a WRITING slot that names nobody: it is never reclaimed.
Nameless == ~At("stamp") /\ \E i \in 0 .. Cap - 1 : slots[i].state = "WRITING" /\ slots[i].owner = 0

\* A killed producer wedges nobody: what was committed is received, also after
\* restarts of either side, unless the restarted producer found the ring
\* drained (its numbering starts over), read past, or with part of a message.
CommittedIsReceived ==
  (scenario.quiet /\ Len(got) < Len(sent)) ~> (Len(got) = Len(sent) \/ met # {} \/ Nameless)

\* open: "scans the slot headers once to recover the sequence state (a fresh
\* process must rebuild the producer's next sequence and the consumer's
\* expected sequence from storage)".  So no message is refused for its number.
NumbersAgree ==
  ~(ConsAt("pin") /\ Rejected)
=============================================================================
