------------------------------ MODULE RegionInit ------------------------------
(***************************************************************************)
(* Opening a region.                                                       *)
(*                                                                         *)
(* Any number of processes call create_or_open, create or open on one name.*)
(* The storage decides who created it: a backing file by create_new (with  *)
(* its length set in a later step), a named section by the flag of         *)
(* CreateFileMapping.  The creator writes a FREE header in every slot, then*)
(* the pin floor, the format word and, last, the magic, which also says    *)
(* whether the ring has one producer or several; everyone else waits for   *)
(* the magic and recovers its position from the ring.                      *)
(*                                                                         *)
(* A slot is zero-filled or FREE, which are the same bytes, or holds a     *)
(* message.  Nothing is received, so a message stays until initialisation  *)
(* or truncation wipes it.                                                 *)
(***************************************************************************)
EXTENDS Naturals, FiniteSets

CONSTANTS
  Procs,     \* the processes
  Slots,     \* the largest capacity any process asks for
  Scenarios  \* what an instance explores, see ScenariosAssumption

\* op: what each process calls; cap: the capacity and multi: the mode it asks
\* for; senders: who sends, sends: messages per handle; opens: handles a process
\* opens in turn; kill: who may be killed; slow: a wait may time out though its
\* creator is at work; stale: the section's created flag may come from an
\* earlier call; left: what lies under the name at the start.
ASSUME ScenariosAssumption ==
  /\ Slots \in Nat \ {0}
  /\ \A s \in Scenarios :
       /\ s.op \in [Procs -> {"create_or_open", "create", "open"}]
       /\ s.cap \in [Procs -> 1 .. Slots] /\ s.multi \in [Procs -> BOOLEAN]
       /\ s.senders \subseteq Procs /\ s.sends \in Nat
       /\ s.opens \in [Procs -> Nat]
       /\ s.kill \subseteq Procs /\ s.slow \in BOOLEAN /\ s.stale \in BOOLEAN
       /\ s.section \in BOOLEAN /\ s.left \in {"nothing", "unfinished", "older"}

VARIABLES
  scenario,  \* the element of Scenarios explored
  store,     \* the bytes under the name
  handle,    \* what each process is doing, and its handle
  sent,      \* <<slot, message>> of the messages whose send returned
  met        \* "truncated", "raced", "stillborn": see the properties

vars == <<scenario, store, handle, sent, met>>

-----------------------------------------------------------------------------
(* The store *)

Idx == 0 .. Slots - 1
Magic(multi) == IF multi THEN "DSL2" ELSE "DSL1"
Format == 4
None == "none"
Free == <<>>

\* len is in slots: a file just created has none, not even the region header.
Zeroed(n) ==
  [there |-> TRUE, len |-> n, head |-> 0, floor |-> "zero", format |-> 0, magic |-> None,
   slot |-> [i \in Idx |-> Free]]
Gone == [Zeroed(0) EXCEPT !.there = FALSE]
Message(p, n) == <<p, n>>

Cap(p) == scenario.cap[p]
Op(p) == scenario.op[p]
Mode(p) == Magic(scenario.multi[p])
Section == scenario.section

\* A creator killed before the magic leaves a full-size file without one.
AtStart(s) ==
  CASE s.left = "nothing" -> Gone
    [] s.left = "unfinished" -> Zeroed(Slots)
    [] s.left = "older" -> [Zeroed(Slots) EXCEPT !.format = Format - 1, !.magic = Magic(FALSE)]

\* A step of p at `from` that leaves the storage alone or changes it.
At(p, from) == handle[p].pc = from
Goto(p, to) == handle' = [handle EXCEPT ![p].pc = to]
Mapped(p) == store.len >= Cap(p)
InUse == {"ready", "sending", "filled"}
InOpen == {"resize", "size", "check", "recheck", "clear", "floor", "format", "magic", "wait"}
\* p has created the storage, or believes it has, and has not published yet.
Initialising(p) == handle[p].pc \in {"resize", "check", "recheck", "clear", "floor", "format", "magic"}

Init ==
  /\ scenario \in Scenarios
  /\ store = AtStart(scenario)
  /\ handle = [p \in Procs |->
       [pc |-> "idle", held |-> FALSE, created |-> FALSE, fresh |-> FALSE, i |-> 0,
        pos |-> 0, seen |-> 0, opens |-> 0, sends |-> 0]]
  /\ sent = {} /\ met = {}

-----------------------------------------------------------------------------
(* The storage: a mapped file, or a named section *)

Start(p, to, created) ==
  handle' = [handle EXCEPT ![p] = [@ EXCEPT !.pc = to, !.held = TRUE, !.created = created,
                                            !.opens = handle[p].opens + 1, !.fresh = FALSE]]
MayCall(p) == At(p, "idle") /\ handle[p].opens < scenario.opens[p]

\* create_or_open on a file: exactly one caller creates the path.
CreateNew(p) ==
  /\ MayCall(p) /\ ~Section /\ Op(p) = "create_or_open" /\ ~store.there
  /\ store' = Zeroed(0)
  /\ Start(p, "resize", TRUE)
  /\ UNCHANGED <<scenario, sent, met>>

\* open, and create_or_open once create_new has failed.
OpenFile(p) ==
  /\ MayCall(p) /\ ~Section
  /\ \/ Op(p) = "open"
     \/ Op(p) = "create_or_open" /\ store.there
  /\ Start(p, IF store.there THEN "size" ELSE "failed", FALSE)
  /\ UNCHANGED <<scenario, store, sent, met>>

\* create truncates whatever is there, mapped by others or not.
Truncate(p) ==
  /\ MayCall(p) /\ ~Section /\ Op(p) = "create"
  /\ store' = Zeroed(0)
  /\ met' = met \cup (IF store.there THEN {"truncated"} ELSE {})
  /\ Start(p, "resize", TRUE)
  /\ UNCHANGED <<scenario, sent>>

Resize(p) ==
  /\ At(p, "resize")
  /\ store' = [store EXCEPT !.len = Cap(p),
                            !.slot = [i \in Idx |-> IF i < Cap(p) THEN @[i] ELSE Free]]
  /\ Goto(p, IF Op(p) = "create" THEN "recheck" ELSE "check")
  /\ UNCHANGED <<scenario, sent, met>>

\* Mutant: the length and the magic are looked at once.
NeverWaits(p) == TRUE
\* A wait ends unsatisfied when nobody is at work on what it waits for.
NobodyInitialises(p) == scenario.slow \/ \A q \in Procs \ {p} : ~Initialising(q)

WaitForFullSize(p) ==
  /\ At(p, "size")
  /\ IF Mapped(p)
     THEN Goto(p, IF Op(p) = "open" THEN "wait" ELSE "check")
     ELSE NobodyInitialises(p) /\ Goto(p, "failed")
  /\ UNCHANGED <<scenario, store, sent, met>>

\* created: the section did not exist; with a stale error, either answer.
AlreadyExists(p) == IF scenario.stale THEN BOOLEAN ELSE {FALSE}

\* CreateFileMapping and OpenFileMapping; mapping more than the section holds
\* fails, and then nobody closes the handle.
MapSection(p) ==
  /\ MayCall(p) /\ Section
  /\ \/ /\ Op(p) = "open" /\ ~store.there
        /\ Goto(p, "failed")
        /\ UNCHANGED store
     \/ /\ Op(p) # "open" /\ ~store.there
        /\ store' = Zeroed(Cap(p))
        /\ Start(p, IF Op(p) = "create" THEN "recheck" ELSE "check", TRUE)
     \/ /\ store.there /\ ~Mapped(p)
        /\ Start(p, "failed", FALSE)
        /\ UNCHANGED store
     \/ /\ store.there /\ Mapped(p)
        /\ \E created \in AlreadyExists(p) :
             Start(p, CASE Op(p) = "create" -> "recheck"
                        [] Op(p) = "create_or_open" -> "check"
                        [] Op(p) = "open" -> "wait", created)
        /\ UNCHANGED store
  /\ UNCHANGED <<scenario, sent, met>>

\* A section lives as long as somebody holds it.
LetGo(p) ==
  LET held == \E q \in Procs \ {p} : handle[q].held IN
  /\ store' = IF Section /\ ~held THEN Gone ELSE store
  /\ sent' = IF Section /\ ~held THEN {} ELSE sent

\* An open that fails drops the storage.
Refuse(p) ==
  /\ handle' = [handle EXCEPT ![p].pc = "failed", ![p].held = FALSE]
  /\ LetGo(p)

-----------------------------------------------------------------------------
(* The region: initialisation and recovery *)

\* Mutant: the created flag alone decides.
TrustsFlag(p) == handle[p].created
IsFresh(p) == handle[p].created /\ store.magic = None

\* create_or_open: initialise only what is new and has no magic yet.
CheckMagic(p) ==
  /\ At(p, "check") /\ Mapped(p)
  /\ Goto(p, IF IsFresh(p) THEN "recheck" ELSE "wait")
  /\ UNCHANGED <<scenario, store, sent, met>>

\* Mutant: a second creator initialises the region again.
Uninitialised == TRUE
NoMagic == store.magic = None

\* initialize_region: a published magic belongs to somebody else; the handle
\* keeps the empty position it was built with.
CheckAgain(p) ==
  /\ At(p, "recheck") /\ Mapped(p)
  /\ handle' = [handle EXCEPT ![p] =
       [@ EXCEPT !.pc = IF NoMagic THEN "clear" ELSE "wait", !.fresh = TRUE, !.i = 0, !.pos = 0]]
  /\ met' = met \cup (IF \E q \in Procs \ {p} : handle[q].pc \in {"clear", "floor", "format", "magic"}
                      THEN {"raced"} ELSE {})
  /\ UNCHANGED <<scenario, store, sent>>

\* Mutant: one slot too many.
PastLastSlot(p) == handle[p].i = Cap(p)
LastSlot(p) == handle[p].i + 1 = Cap(p)

ClearSlot(p) ==
  /\ At(p, "clear") /\ Mapped(p)
  /\ store' = [store EXCEPT !.slot[handle[p].i] = Free]
  /\ handle' = [handle EXCEPT ![p].i = handle[p].i + 1,
                              ![p].pc = IF LastSlot(p) THEN "floor" ELSE "clear"]
  /\ UNCHANGED <<scenario, sent, met>>

StoreFloor(p) ==
  /\ At(p, "floor") /\ Mapped(p)
  /\ store' = [store EXCEPT !.floor = None]
  /\ Goto(p, "format")
  /\ UNCHANGED <<scenario, sent, met>>

\* The format word, then the magic.
PublishMagic(p) ==
  /\ Mapped(p)
  /\ \/ /\ At(p, "format")
        /\ store' = [store EXCEPT !.format = Format]
        /\ Goto(p, "magic")
     \/ /\ At(p, "magic")
        /\ store' = [store EXCEPT !.magic = Mode(p)]
        /\ Goto(p, "ready")
  /\ UNCHANGED <<scenario, sent, met>>

\* Mutant: any magic will do.
AnyMagic(p) == store.magic # None
Compatible(p) == store.magic = Mode(p) /\ store.format = Format

\* wait_initialized and check_format: any other magic, or an older layout, is
\* refused at once.  Then the position is recovered from the ring.
WaitInitialized(p) ==
  /\ At(p, "wait") /\ Mapped(p)
  /\ \/ /\ Compatible(p)
        /\ handle' = [handle EXCEPT ![p].pc = "ready",
                                    ![p].pos = IF handle[p].fresh THEN 0 ELSE store.head]
        /\ UNCHANGED <<store, sent>>
     \/ /\ store.magic # None /\ ~Compatible(p)
        /\ Refuse(p)
     \/ /\ store.magic = None /\ NobodyInitialises(p)
        /\ Refuse(p)
  /\ UNCHANGED <<scenario, met>>

-----------------------------------------------------------------------------
(* Using and losing the handle *)

LoadHead == store.head
Advanced(head) == [store EXCEPT !.head = head]

\* send: a single producer loads the shared head, several advance it by a CAS.
BeginSend(p) ==
  /\ At(p, "ready") /\ Mapped(p) /\ p \in scenario.senders
  /\ handle[p].sends < scenario.sends /\ store.head < Cap(p)
  /\ handle' = [handle EXCEPT ![p] = [@ EXCEPT !.pc = "sending", !.seen = LoadHead,
                                               !.sends = handle[p].sends + 1]]
  /\ store' = IF scenario.multi[p] THEN Advanced(LoadHead + 1) ELSE store
  /\ UNCHANGED <<scenario, sent, met>>

\* The slot a send fills: its reservation, or the producer's own position.
Target(p) == (IF scenario.multi[p] THEN handle[p].seen ELSE handle[p].pos) % Cap(p)

\* write_committed refuses a slot that is not FREE.
FillSlot(p) ==
  /\ At(p, "sending") /\ Mapped(p)
  /\ IF store.slot[Target(p)] = Free
     THEN /\ store' = [store EXCEPT !.slot[Target(p)] = Message(p, handle[p].sends)]
          /\ Goto(p, "filled")
     ELSE Goto(p, "ready") /\ UNCHANGED store
  /\ UNCHANGED <<scenario, sent, met>>

EndSend(p) ==
  /\ At(p, "filled") /\ Mapped(p)
  /\ store' = IF scenario.multi[p] THEN store ELSE Advanced(handle[p].seen + 1)
  /\ sent' = sent \cup {<<Target(p), Message(p, handle[p].sends)>>}
  /\ handle' = [handle EXCEPT ![p].pc = "ready", ![p].pos = Target(p) + 1]
  /\ UNCHANGED <<scenario, met>>

\* Drop unmaps and closes; the process may call again.
Close(p) ==
  /\ At(p, "ready")
  /\ handle' = [handle EXCEPT ![p].pc = "idle", ![p].held = FALSE]
  /\ LetGo(p)
  /\ UNCHANGED <<scenario, met>>

Die(p) ==
  /\ p \in scenario.kill /\ handle[p].pc \notin {"idle", "failed", "dead"}
  /\ handle' = [handle EXCEPT ![p].pc = "dead", ![p].held = FALSE]
  /\ LetGo(p)
  /\ met' = met \cup (IF Initialising(p) THEN {"stillborn"} ELSE {})
  /\ UNCHANGED scenario

\* Touching a mapping whose file was truncated kills the process.
Fault(p) ==
  /\ handle[p].pc \notin {"idle", "resize", "size", "failed", "dead"} /\ ~Mapped(p)
  /\ handle' = [handle EXCEPT ![p].pc = "dead", ![p].held = FALSE]
  /\ met' = met \cup (IF Initialising(p) THEN {"stillborn"} ELSE {})
  /\ UNCHANGED <<scenario, store, sent>>

-----------------------------------------------------------------------------
Opening(p) ==
  \/ CreateNew(p) \/ OpenFile(p) \/ Truncate(p) \/ Resize(p) \/ WaitForFullSize(p)
  \/ MapSection(p) \/ CheckMagic(p) \/ CheckAgain(p) \/ ClearSlot(p) \/ StoreFloor(p)
  \/ PublishMagic(p) \/ WaitInitialized(p)
Using(p) == BeginSend(p) \/ FillSlot(p) \/ EndSend(p) \/ Close(p)
Next == \E p \in Procs : Opening(p) \/ Using(p) \/ Die(p) \/ Fault(p)

Spec == Init /\ [][Next]_vars
\* A process that has called goes on with the call.
FairSpec == Spec /\ \A p \in Procs : WF_vars(Opening(p))

-----------------------------------------------------------------------------
(* Properties *)

TypeOK ==
  /\ scenario \in Scenarios
  /\ store \in [there : BOOLEAN, len : 0 .. Slots, head : 0 .. Slots, floor : {"zero", None},
                format : {0, Format - 1, Format}, magic : {None, "DSL1", "DSL2"},
                slot : [Idx -> {Free} \cup (Procs \X (1 .. scenario.sends))]]
  /\ handle \in [Procs ->
       [pc : {"idle", "failed", "dead"} \cup InUse \cup InOpen, held : BOOLEAN,
        created : BOOLEAN, fresh : BOOLEAN, i : 0 .. Slots, pos : 0 .. Slots,
        seen : 0 .. Slots, opens : Nat, sends : 0 .. scenario.sends]]
  /\ sent \subseteq (Idx \X (Procs \X (1 .. scenario.sends)))
  /\ met \subseteq {"truncated", "raced", "stillborn"}

\* Two creators at work at once are possible only where one is a creator by
\* mistake, or by create, which initialises a section that it may have opened.
Excused ==
  \/ "truncated" \in met
  \/ "raced" \in met /\ (scenario.stale \/ \E p \in Procs : Op(p) = "create")

\* Opening a region never wipes a message that was sent through it: only a
\* creator initialises, and never once the magic is there (comments of
\* initialize_region and create_or_open).
MessagesSurvive == ~Excused => \A x \in sent : store.slot[x[1]] = x[2]

\* A handle in use has a region of its own mode, whole, with this layout and
\* with the floor's sentinel: the magic is published after everything else, and
\* a caller that asks for another mode or for more slots is refused.
ReadyIsInitialised ==
  ~Excused => \A p \in Procs : handle[p].pc \in InUse =>
    /\ Mapped(p) /\ store.magic = Mode(p) /\ store.format = Format /\ store.floor = None

\* The single producer's position is the ring's, also when it comes back to a
\* region it did not create, or takes itself for the creator of one in use.
PositionRecovered ==
  ~Excused => \A p \in scenario.senders :
    At(p, "ready") /\ ~scenario.multi[p] /\ Op(p) # "create" => handle[p].pos = store.head

\* Processes that agree on the region all get a handle, in whatever order they
\* call, unless a creator was killed before it published the magic.
Alike ==
  /\ ~scenario.slow /\ scenario.left = "nothing"
  /\ \A p, q \in Procs : Op(p) = "create_or_open" /\ Cap(p) = Cap(q) /\ Mode(p) = Mode(q)
EveryoneConnects ==
  \A p \in Procs :
    (Alike /\ handle[p].pc \in InOpen \cup {"failed"})
      ~> (handle[p].pc \in InUse \cup {"dead"} \/ "stillborn" \in met)
=============================================================================
