------------------------------ MODULE ZeroCopy ------------------------------
(***************************************************************************)
(* Zero-copy leases and views on a single-producer PersistentShmChannel.   *)
(*                                                                         *)
(* The producer may reserve a slot (alloc), fill it in place and publish   *)
(* or abort it later; the consumer may keep a received slot PINNED as a    *)
(* view while the tail moves on.  The shared pin floor holds the smallest  *)
(* pinned cursor value, and the send guard counts from it.  A consumer     *)
(* that dies leaves its pins behind; they are found by the identity in     *)
(* their headers when the region is opened again or cleaned up.            *)
(*                                                                         *)
(* Messages fit one slot (alloc and recv_view refuse others), backpressure *)
(* is Raise (DropOldest is refused by both), and the producer lives.       *)
(***************************************************************************)
EXTENDS Naturals, Sequences, FiniteSets, FiniteSetsExt

CONSTANTS
  Cap,         \* config.capacity
  FloorTries,  \* how often floor_min tries, 32 in the code
  Scenarios    \* what an instance explores, see ScenariosAssumption

\* sends: messages begun at most.  leases: reservations held at once.
\* aborts, copens: how often a lease is aborted and the consumer opened.
\* ckill: where the consumer may be killed.  threads: a view is released while
\* another thread of the consumer receives.
ASSUME CapAssumption == Cap \in Nat \ {0}
ASSUME FloorTriesAssumption == FloorTries \in Nat \ {0}
ASSUME ScenariosAssumption ==
  \A s \in Scenarios :
    /\ s.sends \in Nat /\ s.leases \in Nat /\ s.aborts \in Nat /\ s.copens \in Nat
    /\ s.ckill \subseteq STRING /\ s.threads \in BOOLEAN

VARIABLES
  scenario,  \* the element of Scenarios explored
  head,      \* shared head cursor
  tail,      \* shared tail cursor
  floor,     \* shared pin floor: a cursor value, or None
  slots,     \* ring index -> state, sequence number, pinning consumer, message
  pr,        \* the producer's handle
  leases,    \* reservations not yet published or aborted
  cons,      \* the consumer's handle
  views,     \* cursor values of the views held
  rel,       \* a view's release under way
  sent,      \* messages published, in the order of their slots
  got,       \* messages received, in order
  met        \* what broke the guard's accounting, see ClaimFindsFree

vars == <<scenario, head, tail, floor, slots, pr, leases, cons, views, rel, sent, got, met>>

\* PIN_FLOOR_NONE is u64::MAX: above every cursor value.
None == 1000
ASSUME NoneAssumption == \A s \in Scenarios : s.sends < None

SlotState == {"FREE", "WRITING", "COMMITTED", "PINNED"}
FreeSlot == [state |-> "FREE", seq |-> 0, owner |-> 0, msg |-> 0]
Slots == [0 .. Cap - 1 -> [state : SlotState, seq : Nat, owner : Nat, msg : Nat]]

\* Mutant: the wrap is left out.
IdxUnwrapped(c) == c
Idx(c) == c % Cap
SetSlot(i, s) == slots' = [slots EXCEPT ![i] = s]

\* guard_len: the slots from the floor to the head, and the bias.
\* Mutant: the floor is left out.
GuardLenTailOnly(t, f) == (IF head > t THEN head - t ELSE 0) + pr.bias
GuardLen(t, f) ==
  LET from == IF f = None THEN t ELSE Min({f, t}) IN
  (IF head > from THEN head - from ELSE 0) + pr.bias

\* The smallest pinned cursor value in a range, as the floor is recomputed.
\* Mutant: the scan does not stop at the first.
LowestPinLast(s, from, to) ==
  LET pins == {c \in from .. to - 1 : s[Idx(c)].state = "PINNED"} IN
  IF pins = {} THEN None ELSE Max(pins)
LowestPin(s, from, to) ==
  LET pins == {c \in from .. to - 1 : s[Idx(c)].state = "PINNED"} IN
  IF pins = {} THEN None ELSE Min(pins)
WindowStart(t) == IF t > Cap THEN t - Cap ELSE 0

Producer == [pc |-> "idle", op |-> "none", idx |-> 0, t |-> 0, bias |-> 0, next |-> 0, id |-> 0,
             aborted |-> 0]
Consumer == [pc |-> "idle", inc |-> 1, op |-> "none", t |-> 0, expected |-> 0, resync |-> FALSE,
             floor |-> 0, tries |-> 0]
NoRelease == [pc |-> "none", c |-> 0, entry |-> 0, next |-> 0]

Init ==
  /\ scenario \in Scenarios
  /\ head = 0 /\ tail = 0 /\ floor = None
  /\ slots = [i \in 0 .. Cap - 1 |-> FreeSlot]
  /\ pr = Producer /\ leases = {}
  /\ cons = Consumer /\ views = {} /\ rel = NoRelease
  /\ sent = <<>> /\ got = <<>> /\ met = {}

-----------------------------------------------------------------------------
(* The producer                                                            *)

At(pc) == pr.pc = pc
Goto(pc) == pr' = [pr EXCEPT !.pc = pc]

\* Messages begun, which scenario.sends bounds.
Begun == pr.id + Cardinality(leases)

\* refresh_cursors, for send and for alloc: the tail, then the floor.
GuardLoad(op) ==
  /\ At("idle") /\ Begun < scenario.sends
  /\ op = "alloc" => Cardinality(leases) < scenario.leases
  /\ pr' = [pr EXCEPT !.pc = "floor", !.op = op, !.t = tail]
  /\ UNCHANGED <<scenario, head, tail, floor, slots, leases, cons, views, rel, sent, got, met>>

\* The guard.  A send takes its sequence number before it looks at the slot,
\* an alloc after.  Refused: BufferFull.
GuardFloor ==
  LET room == Cap >= GuardLen(pr.t, floor) + 1 IN
  /\ At("floor")
  /\ pr' = IF ~room THEN [pr EXCEPT !.pc = "idle", !.op = "none"]
           ELSE IF pr.op = "send" THEN [pr EXCEPT !.pc = "claim", !.next = pr.next + 1, !.id = pr.id + 1]
           ELSE [pr EXCEPT !.pc = "lease"]
  /\ UNCHANGED <<scenario, head, tail, floor, slots, leases, cons, views, rel, sent, got, met>>

\* Both ways to write ask for a FREE slot, whatever the guard said.
\* Mutant: only a message in it is respected.
WritableUnlessRead(i) == slots[i].state # "COMMITTED"
Writable(i) == slots[i].state = "FREE"

\* write_committed_no_flush: a slot that is not FREE ends the send with
\* BufferFull, and its number is spent.
ClaimSlot ==
  /\ At("claim")
  /\ IF Writable(pr.idx)
       THEN Goto("mark") /\ UNCHANGED met
       ELSE Goto("idle") /\ met' = met \cup {"spent"}
  /\ UNCHANGED <<scenario, head, tail, floor, slots, leases, cons, views, rel, sent, got>>

MarkSlot ==
  /\ At("mark")
  /\ SetSlot(pr.idx, [state |-> "WRITING", seq |-> pr.next - 1, owner |-> 0, msg |-> pr.id])
  /\ Goto("commit")
  /\ UNCHANGED <<scenario, head, tail, floor, leases, cons, views, rel, sent, got, met>>

\* A message's place in `sent` is that of its slot among the slots reserved.
Place(seq) == Cardinality({j \in 1 .. Len(sent) : sent[j][1] < seq})
SentWith(seq, msg) ==
  SubSeq(sent, 1, Place(seq)) \o <<<<seq, msg>>>> \o SubSeq(sent, Place(seq) + 1, Len(sent))

CommitSlot ==
  /\ At("commit")
  /\ slots' = [slots EXCEPT ![pr.idx].state = "COMMITTED"]
  /\ sent' = SentWith(pr.next - 1, pr.id)
  /\ pr' = [pr EXCEPT !.pc = "publish", !.idx = Idx(pr.idx + 1)]
  /\ UNCHANGED <<scenario, head, tail, floor, leases, cons, views, rel, got, met>>

PublishHead ==
  /\ At("publish")
  /\ head' = head + 1
  /\ pr' = [pr EXCEPT !.pc = "idle", !.op = "none"]
  /\ UNCHANGED <<scenario, tail, floor, slots, leases, cons, views, rel, sent, got, met>>

\* alloc: the slot must be FREE; its header is WRITING and the head index
\* moves on, the head cursor does not.
LeaseSlot ==
  /\ At("lease")
  /\ IF Writable(pr.idx)
       THEN /\ SetSlot(pr.idx, [state |-> "WRITING", seq |-> pr.next, owner |-> 0, msg |-> 0])
            /\ leases' = leases \cup {[idx |-> pr.idx, seq |-> pr.next]}
            /\ pr' = [pr EXCEPT !.pc = "idle", !.op = "none", !.next = pr.next + 1,
                                !.idx = Idx(pr.idx + 1)]
       ELSE pr' = [pr EXCEPT !.pc = "idle", !.op = "none"] /\ UNCHANGED <<slots, leases>>
  /\ UNCHANGED <<scenario, head, tail, floor, cons, views, rel, sent, got, met>>

\* publish: the payload written through the lease, the frame header and
\* COMMITTED; then the head.  A lease may be published before an older one.
Publish(l) ==
  /\ At("idle") /\ slots[l.idx].state = "WRITING"
  /\ SetSlot(l.idx, [slots[l.idx] EXCEPT !.state = "COMMITTED", !.msg = pr.id + 1])
  /\ leases' = leases \ {l}
  /\ sent' = SentWith(l.seq, pr.id + 1)
  /\ pr' = [pr EXCEPT !.pc = "publish", !.id = pr.id + 1]
  /\ UNCHANGED <<scenario, head, tail, floor, cons, views, rel, got, met>>

\* abort: only the newest reservation; the slot, the head index and the
\* number are given back.  Mutant: any reservation may be aborted.
NewestAny(l) == TRUE
Newest(l) == l.idx = Idx(pr.idx + Cap - 1)
Abort(l) ==
  /\ At("idle") /\ Newest(l) /\ pr.aborted < scenario.aborts
  /\ SetSlot(l.idx, FreeSlot)
  /\ leases' = leases \ {l}
  /\ pr' = [pr EXCEPT !.idx = l.idx, !.next = l.seq, !.aborted = pr.aborted + 1]
  /\ UNCHANGED <<scenario, head, tail, floor, cons, views, rel, sent, got, met>>

\* reclaim_stale on the producer's handle after the consumer died: its pins are
\* freed, the bias recomputed from every occupied slot, the floor rescanned.
\* A lease is occupied and not yet counted by the cursors.
DeadPin(i) == slots[i].state = "PINNED" /\ slots[i].owner # 0 /\ (slots[i].owner # cons.inc \/ cons.pc = "dead")
Covered(i) == \E c \in tail .. head - 1 : Idx(c) = i
Reclaimed(dead) == [i \in 0 .. Cap - 1 |-> IF i \in dead THEN FreeSlot ELSE slots[i]]
ReclaimStale ==
  LET dead == {i \in 0 .. Cap - 1 : ~Covered(i) /\ DeadPin(i)}
      occupied == Cardinality({i \in 0 .. Cap - 1 : Reclaimed(dead)[i].state # "FREE"})
      counted == IF head > tail THEN head - tail ELSE 0 IN
  /\ At("idle") /\ cons.pc = "dead" /\ dead # {}
  /\ slots' = Reclaimed(dead)
  /\ pr' = [pr EXCEPT !.bias = IF occupied > counted THEN occupied - counted ELSE 0]
  /\ floor' = LowestPin(Reclaimed(dead), WindowStart(tail), tail)
  /\ met' = IF occupied > counted THEN met \cup {"overcounted"} ELSE met
  /\ UNCHANGED <<scenario, head, tail, leases, cons, views, rel, sent, got>>

-----------------------------------------------------------------------------
(* The consumer: recv_view, and recv                                       *)

ConsAt(pc) == cons.pc = pc
Move(pc) == cons' = [cons EXCEPT !.pc = pc]
RecvEnds(c) == cons' = [Consumer EXCEPT !.inc = cons.inc, !.expected = c.expected, !.resync = c.resync]

\* One thread makes one call at a time.
RecvBegin(op) ==
  /\ ConsAt("idle") /\ (scenario.threads \/ rel.pc = "none")
  /\ cons' = [cons EXCEPT !.pc = "gate", !.op = op, !.t = tail]
  /\ UNCHANGED <<scenario, head, tail, floor, slots, pr, leases, views, rel, sent, got, met>>

\* The COMMITTED gate and the sequence check.  recv_view refuses a number
\* before it pins, recv after.
Rejected(s) == ~cons.resync /\ s.seq # cons.expected
Gate ==
  LET s == slots[Idx(cons.t)] IN
  /\ ConsAt("gate")
  /\ IF s.state # "COMMITTED" \/ (cons.op = "view" /\ Rejected(s))
       THEN RecvEnds(cons)   \* BufferEmpty, SequenceMismatch
       ELSE Move(IF cons.op = "view" THEN "pin" ELSE "take")
  /\ UNCHANGED <<scenario, head, tail, floor, slots, pr, leases, views, rel, sent, got, met>>

\* write_pinned_header: the fields, then the identity magic.
PinSlot ==
  /\ ConsAt("pin")
  /\ slots' = [slots EXCEPT ![Idx(cons.t)].state = "PINNED"]
  /\ Move("stamp")
  /\ UNCHANGED <<scenario, head, tail, floor, pr, leases, views, rel, sent, got, met>>

StampSlot ==
  /\ ConsAt("stamp")
  /\ slots' = [slots EXCEPT ![Idx(cons.t)].owner = cons.inc]
  /\ Move("lower")
  /\ UNCHANGED <<scenario, head, tail, floor, pr, leases, views, rel, sent, got, met>>

\* floor_min: nothing to do when the floor is as low already, else a
\* compare-and-exchange from the value seen.  When it has lost too often the
\* floor stays as the others left it, and the view is pinned all the same.
LowEnough(f, c) == f # None /\ f <= c
LoadFloor ==
  /\ ConsAt("lower")
  /\ cons' = [cons EXCEPT !.floor = floor, !.pc = IF LowEnough(floor, cons.t) THEN "keep" ELSE "cas"]
  /\ UNCHANGED <<scenario, head, tail, floor, slots, pr, leases, views, rel, sent, got, met>>

TryAgain(pc) == cons' = [cons EXCEPT !.pc = pc, !.tries = cons.tries + 1]
LowerFloor ==
  /\ ConsAt("cas")
  /\ IF floor = cons.floor
       THEN floor' = cons.t /\ Move("keep")
       ELSE TryAgain(IF cons.tries + 1 < FloorTries THEN "lower" ELSE "keep") /\ UNCHANGED floor
  /\ UNCHANGED <<scenario, head, tail, slots, pr, leases, views, rel, sent, got, met>>

\* What a receive hands out, and the number it expects next.
Received(c) == Append(got, slots[Idx(c)].msg)
Adopted(c) == [cons EXCEPT !.expected = slots[Idx(c)].seq + 1, !.resync = FALSE]

\* advance_tail_keep_pinned: the view exists from here on.
KeepPinned ==
  /\ ConsAt("keep")
  /\ tail' = cons.t + 1
  /\ views' = views \cup {cons.t}
  /\ got' = Received(cons.t)
  /\ RecvEnds(Adopted(cons.t))
  /\ UNCHANGED <<scenario, head, floor, slots, pr, leases, rel, sent, met>>

\* recv: the copy with its PINNED header, which names nobody, ...
TakeSlot ==
  LET s == slots[Idx(cons.t)] IN
  /\ ConsAt("take")
  /\ slots' = [slots EXCEPT ![Idx(cons.t)].state = "PINNED"]
  /\ IF Rejected(s)
       THEN RecvEnds(cons) /\ UNCHANGED got
       ELSE /\ cons' = [Adopted(cons.t) EXCEPT !.pc = "free"]
            /\ got' = Received(cons.t)
  /\ UNCHANGED <<scenario, head, tail, floor, pr, leases, views, rel, sent, met>>

\* ... the release, and the tail.
FreeTail ==
  /\ ConsAt("free")
  /\ SetSlot(Idx(cons.t), FreeSlot)
  /\ Move("advance")
  /\ UNCHANGED <<scenario, head, tail, floor, pr, leases, views, rel, sent, got, met>>

AdvanceTail ==
  /\ ConsAt("advance")
  /\ tail' = cons.t + 1
  /\ RecvEnds(cons)
  /\ UNCHANGED <<scenario, head, floor, slots, pr, leases, views, rel, sent, got, met>>

-----------------------------------------------------------------------------
(* A view: release (or drop), unpin_floor                                  *)

Release(c) ==
  /\ c \in views /\ rel.pc = "none" /\ (scenario.threads \/ ConsAt("idle"))
  /\ SetSlot(Idx(c), FreeSlot)
  /\ views' = views \ {c}
  /\ rel' = [NoRelease EXCEPT !.pc = "entry", !.c = c]
  /\ UNCHANGED <<scenario, head, tail, floor, pr, leases, cons, sent, got, met>>

\* Only the floor's owner rescans, or anyone when the floor says "no pins".
UnpinEntry ==
  /\ rel.pc = "entry"
  /\ rel' = IF floor = rel.c \/ floor = None
              THEN [rel EXCEPT !.pc = "scan", !.entry = floor]
              ELSE NoRelease
  /\ UNCHANGED <<scenario, head, tail, floor, slots, pr, leases, cons, views, sent, got, met>>

\* The scan up to the tail loaded here; slots below it only ever become FREE.
UnpinScan ==
  LET from == IF rel.entry = rel.c THEN Max({rel.c + 1, WindowStart(tail)}) ELSE WindowStart(tail)
      next == LowestPin(slots, from, tail) IN
  /\ rel.pc = "scan"
  /\ rel' = IF next = rel.entry THEN NoRelease ELSE [rel EXCEPT !.pc = "raise", !.next = next]
  /\ UNCHANGED <<scenario, head, tail, floor, slots, pr, leases, cons, views, sent, got, met>>

\* A single compare-and-exchange from the entry snapshot.
UnpinRaise ==
  /\ rel.pc = "raise"
  /\ floor' = IF floor = rel.entry THEN rel.next ELSE floor
  /\ rel' = NoRelease
  /\ UNCHANGED <<scenario, head, tail, slots, pr, leases, cons, views, sent, got, met>>

-----------------------------------------------------------------------------
(* The consumer's process ends; another one opens the region               *)

ConsDie ==
  /\ cons.pc \in scenario.ckill /\ cons.inc < scenario.copens
  /\ cons' = [Consumer EXCEPT !.pc = "dead", !.inc = cons.inc]
  /\ views' = {} /\ rel' = NoRelease
  /\ UNCHANGED <<scenario, head, tail, floor, slots, pr, leases, sent, got, met>>

\* recover_from_storage: dead pins, then the floor, then the expected number.
\* Nobody else touches a dead consumer's pins or the floor meanwhile.
ConsOpen ==
  /\ ConsAt("dead")
  /\ slots' = Reclaimed({i \in 0 .. Cap - 1 : DeadPin(i)})
  /\ cons' = [cons EXCEPT !.pc = "rescan", !.inc = cons.inc + 1]
  /\ UNCHANGED <<scenario, head, tail, floor, pr, leases, views, rel, sent, got, met>>

\* Mutant: the floor is left where the dead consumer had it.
RescannedFloorKept == floor
RescannedFloor == LowestPin(slots, WindowStart(tail), tail)
ConsRescan ==
  /\ ConsAt("rescan")
  /\ floor' = RescannedFloor
  /\ LET readable == \E i \in 0 .. Cap - 1 : slots[i].state \in {"COMMITTED", "PINNED"} IN
     RecvEnds([cons EXCEPT !.resync = ~readable,
                           !.expected = IF readable THEN slots[Idx(tail)].seq ELSE 0])
  /\ UNCHANGED <<scenario, head, tail, slots, pr, leases, views, rel, sent, got, met>>

-----------------------------------------------------------------------------

ProducerStep ==
  \/ GuardFloor \/ ClaimSlot \/ MarkSlot \/ CommitSlot \/ PublishHead \/ LeaseSlot

\* The application receives, by view or by copy, and starts again after a kill.
ConsumerStep ==
  \/ \E op \in {"view", "recv"} : RecvBegin(op)
  \/ Gate \/ PinSlot \/ StampSlot \/ LoadFloor \/ LowerFloor \/ KeepPinned
  \/ TakeSlot \/ FreeTail \/ AdvanceTail \/ ConsOpen \/ ConsRescan

ReleaseStep == \/ \E c \in views : Release(c)
               \/ UnpinEntry \/ UnpinScan \/ UnpinRaise

LeaseEnds == \E l \in leases : Publish(l) \/ Abort(l)

Next ==
  \/ \E op \in {"send", "alloc"} : GuardLoad(op)
  \/ ProducerStep \/ LeaseEnds \/ ReclaimStale
  \/ ConsumerStep \/ ReleaseStep \/ ConsDie

Spec == Init /\ [][Next]_vars

\* The applications keep sending and receiving, a lease is ended and a view
\* released in the end.
FairSpec ==
  /\ Spec
  /\ WF_vars(GuardLoad("send")) /\ WF_vars(ProducerStep) /\ SF_vars(LeaseEnds)
  /\ WF_vars(ConsumerStep) /\ SF_vars(ReleaseStep)

-----------------------------------------------------------------------------
(* Properties                                                              *)

\* Every variable keeps its type.
TypeOK ==
  /\ scenario \in Scenarios /\ head \in Nat /\ tail \in Nat /\ floor \in Nat /\ slots \in Slots
  /\ pr \in [pc : {"idle", "floor", "claim", "mark", "commit", "publish", "lease"},
             op : {"none", "send", "alloc"}, idx : 0 .. Cap - 1, t : Nat, bias : 0 .. Cap, next : Nat,
             id : Nat, aborted : Nat]
  /\ leases \subseteq [idx : 0 .. Cap - 1, seq : Nat]
  /\ cons \in [pc : {"idle", "gate", "pin", "stamp", "lower", "cas", "keep", "take", "free",
                     "advance", "dead", "rescan"},
               inc : Nat, op : {"none", "view", "recv"}, t : Nat, expected : Nat, resync : BOOLEAN,
               floor : Nat, tries : Nat]
  /\ views \subseteq Nat
  /\ rel \in [pc : {"none", "entry", "scan", "raise"}, c : Nat, entry : Nat, next : Nat]
  /\ sent \in Seq(Nat \X Nat) /\ got \in Seq(Nat) /\ met \subseteq {"spent", "overcounted"}

\* "The payload bytes stay valid for as long as the view is alive", and a lease
\* is the producer's own: a slot a view or a lease holds is changed by the
\* holder alone, whatever the floor says.
HeldSlotsStable ==
  [][/\ \A c \in views \cap views' : slots'[Idx(c)] = slots[Idx(c)]
     /\ \A l \in leases \cap leases' : slots'[l.idx] = slots[l.idx]]_vars

\* "The pin floor records the oldest pinned cursor value": the guard sees every
\* view held, and with none held and none being released it sees no pin.
\* (Receiving and releasing at the same time can lose a pin: the release takes
\* away the floor under which the receive has just put its pin.)
FloorIsLowestPin ==
  ~scenario.threads /\ "spent" \notin met =>
    /\ \A c \in views : floor <= c
    /\ views = {} /\ rel.pc = "none" /\ cons.pc \in {"idle", "gate"} => floor = None

\* What the send guard admits finds a FREE slot, so that no number is spent on
\* nothing, unless leases, which the cursors do not count, fill the ring.
ClaimFindsFree ==
  ~scenario.threads /\ At("claim") => slots[pr.idx].state = "FREE" \/ leases # {}

\* Every message is received once, in the order of the slots, however leases
\* and sends mix and whatever is aborted.
ReceivedInOrder ==
  \A i \in 1 .. Len(got) : i <= Len(sent) /\ got[i] = sent[i][2]

\* "Release views promptly or the ring fills to a standstill": when views are
\* released and leases ended, killed consumers included, it never does.
\* Numbers spent under leases and a cleanup that counts a lease as a leftover
\* are what can stop it.
AllIsReceived ==
  <>(Len(got) = scenario.sends \/ met # {} \/ scenario.threads)
=============================================================================
